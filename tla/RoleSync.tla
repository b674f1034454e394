------------------------------ MODULE RoleSync ------------------------------
(***************************************************************************)
(* How the role of one role link follows the facts: the player sync and    *)
(* the bulk sync of services/sync.rs, each run by a job worker, the        *)
(* RoleLogic client they call (services/rolelogic.rs) and the local mirror *)
(* role_assignments they diff against.                                     *)
(*                                                                         *)
(* RoleLogic is external: it keeps the set of members that have the role,  *)
(* refuses what the link's state or limit forbids, and may be paused.      *)
(* A request and the statement that records it are two steps, so another   *)
(* sync, a crash, or a change of the facts may come between them.          *)
(*                                                                         *)
(* Facts and rules.  A member's committed facts are one value, a rule with *)
(* the channel it reads is the set of values it matches (RuleEngine says   *)
(* what a rule is made of).  A sync reads the rule once, when it starts,   *)
(* and the facts later, so a save may come between.  A channel_relations   *)
(* row that is absent reads as all-default (COALESCE in FACTS_SELECT),     *)
(* which is what ensure_baseline_relations inserts.                        *)
(*                                                                         *)
(* Sizes.  A member here may stand for any number of them, so whether a    *)
(* list that is not empty fits one request is left open.                   *)
(***************************************************************************)
EXTENDS Integers, FiniteSets

CONSTANTS
  NumMembers,    \* guild members, ordered by discord_id: 1..NumMembers
  FactValues,    \* what the facts of a member can be
  Rules,         \* rules an admin may save, each the set of values it matches
  FirstRules,    \* bound: those among them that the link may begin with,
  FirstFacts,    \* and what the facts of the members may be then
  UserLimit,     \* user_limit RoleLogic reports for the link
  Syncs,         \* worker tasks that can run a sync of this link
  MaxChanges,    \* bound: changes of facts, rule and link, and events
  MaxFaults      \* bound: refused calls, lost writes and crashes

Members == 1..NumMembers
Nobody  == 0
NoRule  == {}   \* matches nothing: no condition, or a channel it lacks

ASSUME RoleSyncAssumption ==
  /\ NumMembers \in Nat
  /\ UserLimit \in Nat
  /\ Rules \subseteq SUBSET FactValues /\ FirstRules \subseteq Rules
  /\ FirstFacts \subseteq [Members -> FactValues]
  /\ MaxChanges \in Nat /\ MaxFaults \in Nat

PlayerPhases == {"p_existing", "p_facts", "p_add", "p_remove", "p_insert",
                 "p_delete"}
BulkPhases   == {"b_info", "b_list", "b_diff", "b_put", "b_chunks", "b_commit",
                 "b_recheck"}
Phases       == {"idle", "orphan"} \cup PlayerPhases \cup BulkPhases

VARIABLES
  facts,       \* the committed facts of each member
  rule,        \* the rule of the link, as it grants: NoRule for one that
               \* reads a channel when none is bound
  bound,       \* is the link bound to a channel
  link,        \* is there a role_links row
  mirror,      \* role_assignments of the link
  upState,     \* the link at RoleLogic: active, disabled or gone
  upstream,    \* members that have the role, at RoleLogic
  playerDue,   \* members with a pending player_sync job
  configDue,   \* is a config_sync job of this link pending
  pc,          \* where each sync stands
  who,         \* the member of a player sync
  seen,        \* the rule the sync read, until it has applied it
  has,         \* player sync: was the member in the mirror it read
  list,        \* bulk sync: the members that get the role
  owed,        \* history: RoleLogic holds a write nobody has redone yet
  wasIn,       \* history: members that matched a rule in use at some time
  wasOut,      \* history: members some rule in use left out at some time
  clean,       \* history: no write was lost and no two syncs overlapped
  changes, faults

jobs    == <<playerDue, configDue>>
config  == <<rule, bound>>
local   == <<pc, who, seen, has, list>>
remote  == <<upState, upstream>>
history == <<wasIn, wasOut>>
budgets == <<clean, changes, faults>>
vars    == <<facts, config, link, mirror, remote, jobs, local, owed, history,
             budgets>>

-----------------------------------------------------------------------------
(* ORDER BY discord_id LIMIT user_limit. *)
FirstOf(S) == {m \in S : Cardinality({n \in S : n < m}) < UserLimit}

Matching(f, r) == {m \in Members : f[m] \in r}

(* Who should have the role. *)
Wanted == FirstOf(Matching(facts, rule))

(* A rule is in use while it is the link's, and as long as a sync that     *)
(* read it has yet to apply it.                                            *)
RulesInUse(r) == {r} \cup ({seen[s] : s \in Syncs} \ {NoRule})

(* Histories are kept by the steps that change facts or the rule. *)
Remember(f, r) ==
  /\ wasIn'  = wasIn \cup UNION {Matching(f, u) : u \in RulesInUse(r)}
  /\ wasOut' = wasOut \cup
       UNION {Members \ FirstOf(Matching(f, u)) : u \in RulesInUse(r)}

Goto(s, p) == pc' = [pc EXCEPT ![s] = p]

(* The sync ends; its job is completed. *)
Done(s) ==
  /\ Goto(s, "idle")
  /\ who'  = [who EXCEPT ![s] = Nobody]
  /\ seen' = [seen EXCEPT ![s] = NoRule]
  /\ has'  = [has EXCEPT ![s] = FALSE]
  /\ list' = [list EXCEPT ![s] = {}]

(* The sync ends with its job pending again: an error it reported, or the  *)
(* reap of a crashed worker's lock (module JobQueue).                      *)
Again(s) ==
  /\ Done(s)
  /\ playerDue' = playerDue \cup ({who[s]} \ {Nobody})
  /\ configDue' = (configDue \/ pc[s] \in BulkPhases \/ pc[s] = "orphan")

(* A call fails and changes nothing; a write is lost, or its process is;   *)
(* something happens outside; a sync starts, maybe beside another one.     *)
Refusal == /\ faults < MaxFaults /\ faults' = faults + 1
           /\ UNCHANGED <<clean, changes>>
Loss    == /\ faults < MaxFaults /\ faults' = faults + 1
           /\ clean' = FALSE /\ UNCHANGED changes
Change  == /\ changes < MaxChanges /\ changes' = changes + 1
           /\ UNCHANGED <<clean, faults>>
Begin   == /\ clean' = (clean /\ \A s \in Syncs : pc[s] = "idle")
           /\ UNCHANGED <<changes, faults>>

-----------------------------------------------------------------------------
(* Player sync. *)

(* sync_for_player starts: the link is read, with its rule. *)
StartPlayer(s) ==
  /\ pc[s] = "idle"
  /\ \E m \in playerDue :
       /\ playerDue' = playerDue \ {m}
       /\ IF link
          THEN /\ who'  = [who EXCEPT ![s] = m]
               /\ seen' = [seen EXCEPT ![s] = rule]
               /\ Goto(s, "p_existing")
          ELSE UNCHANGED <<who, seen, pc>>
  /\ Begin
  /\ UNCHANGED <<facts, config, link, mirror, remote, configDue, has, list,
                 owed, history>>

ReadExisting(s) ==
  /\ pc[s] = "p_existing"
  /\ has' = [has EXCEPT ![s] = who[s] \in mirror]
  /\ Goto(s, "p_facts")
  /\ UNCHANGED <<facts, config, link, mirror, remote, jobs, who, seen, list,
                 owed, history, budgets>>

(* Mutant: any linked member qualifies. *)
QualifiesAll(s) == seen[s] # NoRule

(* By the rule as it was read and the facts as they are. *)
Qualifies(s) == facts[who[s]] \in seen[s]

Applied(s) == /\ seen' = [seen EXCEPT ![s] = NoRule]
              /\ UNCHANGED <<who, has, list>>

Evaluate(s) ==
  /\ pc[s] = "p_facts"
  /\ \/ Qualifies(s) /\ ~has[s] /\ Goto(s, "p_add") /\ Applied(s)
     \/ ~Qualifies(s) /\ has[s] /\ Goto(s, "p_remove") /\ Applied(s)
     \/ Qualifies(s) = has[s] /\ Done(s)
  /\ UNCHANGED <<facts, config, link, mirror, remote, jobs, owed, history,
                 budgets>>

(* RoleLogic's answers to a request about one user or about the whole set. *)
Gone     == upState = "gone"
Disabled == upState = "disabled"
Full(m)  == m \notin upstream /\ Cardinality(upstream) >= UserLimit

(* add_user.  A refusal and an error are both logged and swallowed: the    *)
(* job completes.                                                          *)
AddUser(s) ==
  /\ pc[s] = "p_add"
  /\ UNCHANGED <<facts, config, link, mirror, upState, jobs, owed, history>>
  /\ \/ Gone /\ Goto(s, "orphan")
        /\ UNCHANGED <<upstream, who, seen, has, list, budgets>>
     \/ ~Gone /\ (Disabled \/ Full(who[s])) /\ Done(s)
        /\ UNCHANGED <<upstream, budgets>>
     \/ Done(s) /\ Refusal /\ UNCHANGED upstream
     \/ /\ upState = "active" /\ ~Full(who[s])
        /\ upstream' = upstream \cup {who[s]}
        /\ \/ Goto(s, "p_insert") /\ UNCHANGED <<who, seen, has, list, budgets>>
           \/ Done(s) /\ Loss

RemoveUser(s) ==
  /\ pc[s] = "p_remove"
  /\ UNCHANGED <<facts, config, link, mirror, upState, jobs, owed, history>>
  /\ \/ Gone /\ Goto(s, "orphan")
        /\ UNCHANGED <<upstream, who, seen, has, list, budgets>>
     \/ Disabled /\ Done(s) /\ UNCHANGED <<upstream, budgets>>
     \/ Done(s) /\ Refusal /\ UNCHANGED upstream
     \/ /\ upState = "active"
        /\ upstream' = upstream \ {who[s]}
        /\ \/ Goto(s, "p_delete") /\ UNCHANGED <<who, seen, has, list, budgets>>
           \/ Done(s) /\ Loss

(* INSERT ... ON CONFLICT DO NOTHING, with the error dropped; the foreign  *)
(* key refuses it when the link row is gone.                               *)
InsertMirror(s) ==
  /\ pc[s] = "p_insert"
  /\ \/ link /\ mirror' = mirror \cup {who[s]} /\ UNCHANGED budgets
     \/ ~link /\ UNCHANGED <<mirror, budgets>>
     \/ Loss /\ UNCHANGED mirror
  /\ Done(s)
  /\ UNCHANGED <<facts, config, link, remote, jobs, owed, history>>

DeleteMirror(s) ==
  /\ pc[s] = "p_delete"
  /\ \/ mirror' = mirror \ {who[s]} /\ UNCHANGED budgets
     \/ Loss /\ UNCHANGED mirror
  /\ Done(s)
  /\ UNCHANGED <<facts, config, link, remote, jobs, owed, history>>

-----------------------------------------------------------------------------
(* Bulk sync. *)

(* sync_for_role_link starts: a link that grants to nobody is drained,     *)
(* which is the bulk path with an empty list.                              *)
StartBulk(s) ==
  /\ pc[s] = "idle" /\ configDue
  /\ configDue' = FALSE
  /\ \/ ~link /\ UNCHANGED <<pc, seen>>
     \/ /\ link
        /\ seen' = [seen EXCEPT ![s] = rule]
        /\ Goto(s, IF rule = NoRule THEN "b_diff" ELSE "b_info")
  /\ Begin
  /\ UNCHANGED <<facts, config, link, mirror, remote, playerDue, who, has,
                 list, owed, history>>

GetUserInfo(s) ==
  /\ pc[s] = "b_info"
  /\ \/ Gone /\ Goto(s, "orphan") /\ UNCHANGED <<who, seen, has, list, owed>>
     \/ Disabled /\ Done(s) /\ owed' = FALSE
     \/ upState = "active" /\ Goto(s, "b_list")
        /\ UNCHANGED <<who, seen, has, list, owed>>
  /\ UNCHANGED <<facts, config, link, mirror, remote, jobs, history, budgets>>

(* Mutant: LIMIT one short. *)
ListedShort(s) ==
  LET S == Matching(facts, seen[s])
  IN  {m \in S : Cardinality({n \in S : n < m}) + 1 < UserLimit}

Listed(s) == FirstOf(Matching(facts, seen[s]))

ListQualifying(s) ==
  /\ pc[s] = "b_list"
  /\ list' = [list EXCEPT ![s] = Listed(s)]
  /\ seen' = [seen EXCEPT ![s] = NoRule]
  /\ Goto(s, "b_diff")
  /\ UNCHANGED <<facts, config, link, mirror, remote, jobs, who, has, owed,
                 history, budgets>>

(* Mutant: the skip compares sizes. *)
UpToDateCount(s) == Cardinality(mirror) = Cardinality(list[s])

(* current == qualifying: nothing is sent. *)
UpToDate(s) == mirror = list[s]

Diff(s) ==
  /\ pc[s] = "b_diff"
  /\ \/ UpToDate(s) /\ Done(s) /\ owed' = FALSE
     \/ ~UpToDate(s) /\ Goto(s, "b_put")
        /\ UNCHANGED <<who, seen, has, list, owed>>
  /\ UNCHANGED <<facts, config, link, mirror, remote, jobs, history, budgets>>

(* A write that removes members may be held for the owner to confirm.      *)
Held(s) ==
  /\ upState = "active" /\ ~(upstream \subseteq list[s]) /\ Refusal
  /\ Goto(s, "b_recheck") /\ owed' = TRUE
  /\ UNCHANGED <<upstream, jobs, who, seen, has, list>>

(* The list takes the place of who has the role; the answer may be lost.   *)
Replaced(s) ==
  /\ upState = "active"
  /\ upstream' = list[s] /\ owed' = FALSE
  /\ \/ Goto(s, "b_commit")
        /\ UNCHANGED <<jobs, who, seen, has, list, budgets>>
     \/ Again(s) /\ Loss

(* upload_users: the whole list in one request.                            *)
Upload(s) ==
  /\ pc[s] = "b_put"
  /\ UNCHANGED <<facts, config, link, mirror, upState, history>>
  /\ \/ Gone /\ Goto(s, "orphan")
        /\ UNCHANGED <<upstream, jobs, who, seen, has, list, owed, budgets>>
     \/ Disabled /\ Done(s) /\ owed' = FALSE
        /\ UNCHANGED <<upstream, jobs, budgets>>
     \/ Held(s) \/ Replaced(s)

(* Of a longer list: a session is opened, which is refused as the request  *)
(* for the whole list is ...                                               *)
StartUpload(s) ==
  /\ pc[s] = "b_put" /\ list[s] # {}
  /\ upState = "active" /\ Goto(s, "b_chunks")
  /\ UNCHANGED <<facts, config, link, mirror, remote, jobs, who, seen, has, list,
                 owed, history, budgets>>

(* ... and filled chunk by chunk, of which nothing shows.  Once a chunk or *)
(* the commit is refused, because the link was paused or deleted meanwhile *)
(* too, the sync fails, and what becomes of the session does not matter.   *)
UploadRefused(s) ==
  /\ pc[s] = "b_chunks" /\ upState # "active"
  /\ Again(s)
  /\ UNCHANGED <<facts, config, link, mirror, remote, owed, history, budgets>>

CommitUpload(s) ==
  /\ pc[s] = "b_chunks"
  /\ Held(s) \/ Replaced(s)
  /\ UNCHANGED <<facts, config, link, mirror, upState, history>>

(* Mutant: the old rows stay. *)
CommitMerged(s) ==
  IF link \/ list[s] = {}
  THEN Done(s) /\ mirror' = mirror \cup list[s] /\ UNCHANGED jobs
  ELSE Again(s) /\ UNCHANGED mirror

(* The transaction that replaces the mirror; the foreign key fails it when *)
(* the link row is gone and there is a row to insert.                      *)
Commit(s) ==
  IF link \/ list[s] = {}
  THEN Done(s) /\ mirror' = list[s] /\ UNCHANGED jobs
  ELSE Again(s) /\ UNCHANGED mirror

ReplaceMirror(s) ==
  /\ pc[s] = "b_commit"
  /\ \/ Commit(s) /\ UNCHANGED budgets
     \/ Again(s) /\ Loss /\ UNCHANGED mirror
  /\ UNCHANGED <<facts, config, link, remote, owed, history>>

(* Mutant: a held write is left to the next reconcile. *)
RecheckLater(s) ==
  /\ pc[s] = "b_recheck" /\ Done(s)
  /\ UNCHANGED <<facts, config, link, mirror, remote, jobs, owed, history,
                 budgets>>

(* enqueue_config_sync_unless_queued. *)
RecheckHeld(s) ==
  /\ pc[s] = "b_recheck" /\ Done(s)
  /\ configDue' = TRUE
  /\ UNCHANGED <<facts, config, link, mirror, remote, playerDue, owed, history,
                 budgets>>

(* delete_orphan_role_link: the mirror goes with the row; an error of the  *)
(* DELETE is logged, and the row waits for the next sync that meets it.    *)
DeleteOrphan(s) ==
  /\ pc[s] = "orphan" /\ Done(s)
  /\ \/ link' = FALSE /\ mirror' = {} /\ UNCHANGED budgets
     \/ Refusal /\ UNCHANGED <<link, mirror>>
  /\ UNCHANGED <<facts, config, remote, jobs, owed, history>>

(* A read, or a bulk request that changed nothing, fails: Err, so retry.   *)
SyncError(s) ==
  /\ pc[s] \in {"p_existing", "p_facts", "b_info", "b_list", "b_diff",
                "b_put", "b_chunks", "b_recheck"}
  /\ Again(s) /\ Refusal
  /\ UNCHANGED <<facts, config, link, mirror, remote, owed, history>>

(* The process dies. *)
Crash(s) ==
  /\ pc[s] # "idle" /\ Loss
  /\ Again(s)
  /\ UNCHANGED <<facts, config, link, mirror, remote, owed, history>>

-----------------------------------------------------------------------------
(* The rest of the program, and RoleLogic's owner. *)

(* A fact of m changes; most writers enqueue a player_sync, not all.       *)
FactChanges(m) ==
  /\ Change
  /\ \E v \in FactValues \ {facts[m]} : facts' = [facts EXCEPT ![m] = v]
  /\ playerDue' \in {playerDue, playerDue \cup {m}}
  /\ Remember(facts', rule)
  /\ UNCHANGED <<config, link, mirror, remote, configDue, local, owed>>

(* A webhook event, a link or a refresh: a player_sync without a change.   *)
EnqueuePlayer(m) ==
  /\ Change
  /\ m \notin playerDue
  /\ playerDue' = playerDue \cup {m}
  /\ UNCHANGED <<facts, config, link, mirror, remote, configDue, local, owed,
                 history>>

(* role_config_save: any rule, with or without a channel, and its          *)
(* config_sync; a sync that runs keeps the rule it read.                   *)
SaveConfig ==
  /\ Change /\ link
  /\ rule' \in Rules /\ bound' \in BOOLEAN /\ configDue' = TRUE
  /\ Remember(facts, rule')
  /\ UNCHANGED <<facts, link, mirror, remote, playerDue, local, owed>>

(* broadcaster_disconnect: no sync is enqueued.  Only a rule that grants   *)
(* on any linked account still grants without a channel.                   *)
Disconnect ==
  /\ Change /\ link /\ bound
  /\ bound' = FALSE /\ rule' \in {rule, NoRule}
  /\ Remember(facts, rule')
  /\ UNCHANGED <<facts, link, mirror, remote, jobs, local, owed>>

(* reconcile_channel, channel_sync, sync_for_channel: the links bound to   *)
(* the channel are synced again.                                           *)
Reconcile ==
  /\ link /\ bound /\ ~configDue
  /\ configDue' = TRUE
  /\ UNCHANGED <<facts, config, link, mirror, remote, playerDue, local, owed,
                 history, budgets>>

Pause  == /\ Change /\ upState = "active" /\ upState' = "disabled"
          /\ UNCHANGED <<facts, config, link, mirror, upstream, jobs, local,
                         owed, history>>
Resume == /\ upState = "disabled" /\ upState' = "active"
          /\ UNCHANGED <<facts, config, link, mirror, upstream, jobs, local,
                         owed, history, budgets>>

(* The link is deleted at RoleLogic, whose DELETE /config may not arrive.  *)
DeleteLink ==
  /\ Change /\ upState # "gone"
  /\ upState' = "gone" /\ upstream' = {} /\ owed' = FALSE
  /\ \/ link' = FALSE /\ mirror' = {}
     \/ UNCHANGED <<link, mirror>>
  /\ UNCHANGED <<facts, config, jobs, local, history>>

-----------------------------------------------------------------------------
Init ==
  /\ facts \in FirstFacts
  /\ rule \in FirstRules /\ bound = TRUE /\ link = TRUE
  /\ mirror = {} /\ upState = "active" /\ upstream = {}
  /\ playerDue = {} /\ configDue = TRUE
  /\ pc   = [s \in Syncs |-> "idle"]
  /\ who  = [s \in Syncs |-> Nobody]
  /\ seen = [s \in Syncs |-> NoRule]
  /\ has  = [s \in Syncs |-> FALSE]
  /\ list = [s \in Syncs |-> {}]
  /\ owed = FALSE
  /\ wasIn = Matching(facts, rule) /\ wasOut = Members \ Wanted
  /\ clean = TRUE /\ changes = 0 /\ faults = 0

PlayerStep(s) ==
  \/ ReadExisting(s) \/ Evaluate(s) \/ AddUser(s) \/ RemoveUser(s)
  \/ InsertMirror(s) \/ DeleteMirror(s)

BulkStep(s) ==
  \/ GetUserInfo(s) \/ ListQualifying(s) \/ Diff(s) \/ Upload(s)
  \/ StartUpload(s) \/ UploadRefused(s) \/ CommitUpload(s)
  \/ ReplaceMirror(s) \/ RecheckHeld(s)

SyncStep(s) == PlayerStep(s) \/ BulkStep(s) \/ DeleteOrphan(s)

Environment ==
  \/ \E m \in Members : FactChanges(m) \/ EnqueuePlayer(m)
  \/ SaveConfig \/ Disconnect \/ Reconcile \/ Pause \/ Resume \/ DeleteLink

Next ==
  \/ \E s \in Syncs :
       \/ StartPlayer(s) \/ StartBulk(s) \/ SyncStep(s)
       \/ SyncError(s) \/ Crash(s)
  \/ Environment

Spec == Init /\ [][Next]_vars

(* A running sync goes on; claim_batch takes jobs in id order, so a        *)
(* pending one is not passed over for ever; reconcile runs every 6h.       *)
Fairness ==
  /\ \A s \in Syncs : WF_vars(SyncStep(s))
  /\ SF_vars(\E s \in Syncs : StartBulk(s))
  /\ SF_vars(\E s \in Syncs : StartPlayer(s))
  /\ WF_vars(Reconcile)

FairSpec == Spec /\ Fairness

-----------------------------------------------------------------------------
(* Type invariant. *)
TypeOK ==
  /\ facts \in [Members -> FactValues]
  /\ rule \subseteq FactValues /\ bound \in BOOLEAN
  /\ mirror \subseteq Members /\ upstream \subseteq Members
  /\ playerDue \subseteq Members
  /\ upState \in {"active", "disabled", "gone"}
  /\ link \in BOOLEAN /\ configDue \in BOOLEAN /\ owed \in BOOLEAN
  /\ pc   \in [Syncs -> Phases]
  /\ who  \in [Syncs -> Members \cup {Nobody}]
  /\ seen \in [Syncs -> SUBSET FactValues] /\ has \in [Syncs -> BOOLEAN]
  /\ list \in [Syncs -> SUBSET Members]
  /\ wasIn \subseteq Members /\ wasOut \subseteq Members
  /\ clean \in BOOLEAN
  /\ changes \in 0..MaxChanges /\ faults \in 0..MaxFaults

(* The mirror is "who currently has which Discord role"                    *)
(* (migrations/001_initial_schema.sql) between a request and the statement *)
(* that records it, as long as no write was lost and no two syncs of the   *)
(* link overlapped: refusals, holds, pauses and crashes elsewhere do not   *)
(* matter.                                                                 *)
Recording(s) == pc[s] \in {"p_insert", "p_delete", "b_commit"}
MirrorExact ==
  (clean /\ link /\ ~Gone /\ \A s \in Syncs : ~Recording(s))
    => mirror = upstream

(* Once RoleLogic holds a write, a config_sync of the link is running or   *)
(* pending until one gets through, finds nothing to do, or meets a paused  *)
(* or deleted link (recheck_held): then nothing is booked, and the next    *)
(* sync after the owner turns the link on again starts afresh.             *)
HeldIsRechecked ==
  owed => configDue \/ \E s \in Syncs : pc[s] \in BulkPhases \cup {"orphan"}

(* Nobody has the role who never matched a rule in use: the link's, or,    *)
(* after a save, the one a sync had read before it and has yet to apply    *)
(* (sync.rs:163-169, 319-331).  Such a sync may give the role to a member  *)
(* whom the rule in force never matched; once it is over nothing does.     *)
GrantsEarned == upstream \subseteq wasIn

(* A member wanted, within the limit, from the start by every rule in use  *)
(* never loses the role, whatever fails, overlaps or is retried.  To be    *)
(* wanted by the link's rule alone is not enough: a sync that read the     *)
(* rule before a save takes the role from whom that rule no longer wants.  *)
NotStripped ==
  [][upState' = "active" => upstream \ upstream' \subseteq wasOut]_vars

Settling == <>[](upState = "active" /\ bound)

(* With finitely many changes and failures the mirror ends up as the rule  *)
(* wants it.                                                               *)
MirrorConverges == Settling => <>[](mirror = Wanted)

(* RoleLogic converges with it as long as no write was lost and no two     *)
(* syncs of the link overlapped.                                           *)
RolesConverge == (Settling /\ []clean) => <>[](upstream = Wanted)
=============================================================================
