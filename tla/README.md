# Kick-Channel-Role: a TLA+ model

Kick-Channel-Role gives Discord roles by what RoleLogic members do on Kick
channels. It is one Rust service (axum, sqlx, tokio) that runs as any number of
replicas over one Postgres database. It talks to three things it does not
control: Kick (OAuth, its API, signed webhooks), RoleLogic (which holds the
roles) and Discord members' browsers.

This directory holds the specifications of its concurrent core and of its rule
engine, the TLC configurations that check them and the TLAPS proofs about them. Paths below are
relative to the crate `src/src/` unless they start with `migrations/`.

## 1. Inventory

For each part: the state it keeps, its operations, who it meets, what is hard
about it and what makes it correct.

**Job queue and workers** (`services/jobs.rs`, `tasks/job_worker.rs`,
`tasks/job_listener.rs`, `migrations/006_jobs.sql`).
State: table `jobs` (status, attempts, next_run_at, locked_by, locked_at).
Operations: `enqueue` (also the debounced forms), `claim_batch`
(`FOR UPDATE SKIP LOCKED`), `complete`, `fail_retry`, `fail_dead`, `reap_stuck`,
`gc`. Every background effect of the service goes through it, from every
replica. Hard: the lock of a claimed batch ages while its jobs are run one after
the other; the outcome is recorded by a statement that looks only at the id; a
crash or a failed statement at any point. Correct: no job is handled by two
workers at a time, a verdict is earned by a handler's answer and is final, every
job is settled some day.

**Graceful shutdown** (`tasks/shutdown.rs`, `main.rs`, the loops of all tasks).
State: the draining flag, one broadcast receiver per task. Operations: the
signal, `is_triggered`, `wait`, the joins in `main`. Hard: a receiver gives up
its one message to whichever check asks first. Correct: `/ready` fails first,
nothing claimed or open is dropped, the process ends.

**Role sync** (`services/sync.rs`, `services/rolelogic.rs`,
`services/auth_gateway.rs`, tables `role_links`, `role_assignments`).
State: the rule of each link, the local mirror of who has the role, and at
RoleLogic the truth. Operations: `sync_for_player` (one member, diff of one,
POST or DELETE), `sync_for_role_link` (all members, PUT of the whole list),
`sync_for_channel` (fans out), `recheck_held`, `delete_orphan_role_link`.
Hard: the request and the row that records it are two steps; player syncs and
bulk syncs of one link run in different workers; RoleLogic refuses, holds,
pauses, deletes. Correct: the mirror is what RoleLogic has; the role follows the
rule; nobody has a role that was never earned and nobody loses one that is.

**Reconcile worker** (`tasks/reconcile.rs`). State: none. Every six hours: `gc`,
chat recount, relation backfill, the follow sweep, then for each channel live
state, expiry of lapsed subscriptions and a `channel_sync`. Hard: it is the one
thing that makes lost work good, so what it skips stays wrong.

**Follow probe** (`services/follow_sync.rs`, `services/kick_probe.rs`,
`migrations/013_follow_probe.sql`). State: per member and channel, the cached
`is_follower`, the count and date of denials, the date of the last usable
answer and of the last attempt. Operations: the probe on login, the
`follow_probe` job, the sweep that queues it, the follow webhook that grants
directly. Hard: rows are read before a call to Kick and written after it; an
answer may be unusable; a removal takes several denials at a distance. Correct:
no follow is taken away on one answer, an unfollow is noticed some day.

**Webhook ingestor** (`routes/webhooks.rs`, tables
`webhook_deliveries`, `channel_relations`, `chat_activity_days`). State: delivery ids seen, the facts
of each member, the live channels. Operations: verify, dedup by delivery id,
apply the event, take the delivery back on failure. Hard: deliveries are
repeated and out of order, an event is several statements. Correct: each event
counts once.

**Broadcaster tokens** (`services/broadcaster_token.rs`, `services/kick.rs`,
table `broadcasters`). State: the encrypted access and refresh token, their
expiry, `token_invalid_at`, and the active rows of `webhook_subscriptions`.
Operations: `valid_access_token` (refresh under a per-channel advisory
transaction lock, with the row read again under it), connect, the repair of the
subscriptions to Kick's events. Hard: Kick rotates the refresh token before the
new one is stored; connecting does not take the lock. Correct: a refresh token is
used once, a channel is stamped as revoked only when it is, a missing
subscription is made good.

**OAuth and account linking** (`routes/oauth.rs`, `routes/verify.rs`, tables
`kick_oauth_states`, `kick_users`). State: pending states, and which Kick account
belongs to which Discord member. Operations: begin, callback, unlink, refresh.
Hard: single use and expiry of a state; link and unlink in several statements,
beside probes and events that look the account up; an account that changes
hands. Correct: one account per member, the role follows the link, and nobody
inherits what another member earned.

**Admin pages** (`routes/admin.rs`, `services/rule_validator.rs`). State: the
rule and channel of a link with a version, the channels and settings of a guild.
Operations: save a rule, connect and disconnect a channel, settings. Hard: a
save is a check and then a guarded UPDATE. Correct: no lost update, no link to a
channel the guild does not have.

**Role link registration** (`routes/plugin.rs`, `schema.rs`). RoleLogic's calls:
register, read and save the config, delete.

**Rule engine** (`services/condition_eval.rs`, `services/rule_sql.rs`,
`models/`). Pure: a rule in disjunctive normal form, evaluated in Rust for one
member and compiled to SQL for all, after `services/rule_validator.rs`. Hard: two
languages with two ideas of NULL, of text and of age. Correct: the two agree on
every row, but for the rules section 5 names.

**Integration API** (`routes/api_v1.rs`, `routes/api_keys.rs`,
`services/api_key.rs`). Keys per guild, hashed, with a cap and revocation.

**The rest** (sessions, CSRF, encryption, security headers, health, docs, users
page, configuration, database pool): stateless checks, text and glue.

Interactions: web handlers, webhooks, the probe and reconcile change rows and
then enqueue jobs; workers run the jobs, each job calls a sync or a probe; a
sync calls RoleLogic and writes the mirror. Nothing is shared in memory but the
wake-up of idle workers and the shutdown signal.

## 2. Plan

In the order of what the service depends on most:

| # | Module | Question | State |
|---|--------|----------|-------|
| 1 | `JobQueue`, `JobLifecycle` | Is every job handled once at a time and settled for good? | checked, proved |
| 2 | `GracefulShutdown` | Does a signal end the process and drop nothing? | checked, proved |
| 3 | `RoleSync` | Does the role at RoleLogic follow the rule? | checked, proved |
| 4 | `FollowProbe` | Is a follow only taken away on evidence, and an unfollow noticed? | checked, proved |
| 5 | `Webhook` | Does every event count once and reach the role, and does the chat window stay right? | checked, proved |
| 6 | `Subscribers` | Does expiry take lapsed subscribers and nobody else? | checked, proved |
| 7 | `Channels` | Does a channel's sign-in survive refresh, reconnect and crash? | checked, proved |
| 8 | `Accounts` | Is a state used once, and does the role follow link and unlink? | checked, proved |
| 9 | `LinkConfig` | Does a save replace only what its tab saw, and is the row the registered link's? | checked, proved |
| 10 | `RuleEngine` | Do the Rust evaluator, the SQL and the preview agree? | checked, proved |

"Proved" means every safety property of the module that a run checks; liveness is
only checked. An abstract specification worth stating next is that of a role
(`off`, `on`, with the evidence for each change), which `FollowProbe` composed with
`RoleSync` should implement, step by step as `JobQueue` implements `JobLifecycle`.

Composition: `JobQueue` gives the rule by which the others may treat a job as a
flag ("pending", taken once, pending again after an error or a reap), and the
case they must still survive, two workers in one link or one member at a time.
`RoleSync` and `FollowProbe` therefore have a set of runs (`Syncs`, `Probes`),
not one. `FollowProbe` produces the `player_sync` jobs that `RoleSync` consumes.
`Accounts` composes link, probe, event, player sync and bulk sync at a coarser
grain: what each does inside is in the module of its own, what they do to each
other through the rows of one member is there. `RuleEngine` says what "the rule"
is that `RoleSync` takes as a set of fact values, `LinkConfig` how it gets into the
row, and `Subscribers` what the dates are that `Channels`' sweep acts on.

## 3. The modules

### JobQueue, JobLifecycle, JobQueueProofs

Variables are the columns of `jobs` and, for each worker, where it stands in
`run()`, the batch it claimed, the job in hand and the `attempts` value the
claim returned. Every SQL statement is one action; a worker's step is cut at
each await, so anything may happen between a claim, a dispatch, the handler's
return and the UPDATE.

Time is in ticks: a lock is stuck after `LockTicks`, and one job takes at most
`RunTicks`. `next_run_at` is a flag that turns true at any later moment, which
covers debounce and backoff of any length.

`JobLifecycle` is what the queue promises: a row is pending, in one worker's
hands, or settled for good. `JobQueue` implements it (`LifecycleSpec`, the holder
being the worker that names itself in `locked_by` and still has the job) under
one condition, `LockOutlivesBatch == BatchSize * RunTicks < LockTicks`: one lock
has to outlast a whole batch. In the code the lock is 45 minutes
(`STUCK_LOCK_SECS`) for 8 jobs that run one after the other.

### GracefulShutdown (theorem in JobQueueProofs)

For each task its broadcast receiver (`none`, `unread`, `read`) and its place in
its loop; `main` joins all. `is_triggered()` and `wait()` are `Take`: they use the
message up. `main` keeps the `Sender` alive, so the channel is never closed. The names
of `Init`, `Next` and the like begin with `Shutdown` here, and with `Sub` in `Subscribers`,
so that one proof module can extend two components.

### RoleSync, RoleSyncProofs

One link, its mirror, and RoleLogic (external): the members that have the role,
and whether the link is active, paused or gone. `Syncs` are the workers that may
be in a sync of this link at the same time; each phase of a sync is one
statement or request. Every request may be refused, or applied with the reply,
the following statement or the process lost; the DELETE of an orphan may fail too.

A member's facts are one value (`facts`), a rule with its channel is the set of values it
matches (`rule`), and a save may store any other. A sync reads the rule once, when it starts
(`seen`), and applies it to the facts as they are some statements later, so a save may
fall between. A rule is *in use* (`RulesInUse`) while it is the link's or a sync that
read it has yet to apply it; that is the rule `GrantsEarned` and `NotStripped` are about.

Abstractions: the members of the guild are constant; a facts row that does not
exist reads as defaults, so `ensure_baseline_relations` changes nothing the model
sees; a model member may stand for many, so whether a list fits one request is
left open, and of an upload in chunks the start and the end are told apart, which
are answered differently; the pending jobs of a link are a flag and of a member a
flag; a link deleted at RoleLogic is not registered again (that is in `LinkConfig`).

### FollowProbe, FollowProbeProofs

One member. For each channel the columns the probe reads and writes, and at
Kick (external) whether the member follows it. A run is `Start` (read all rows),
`Ask` (Kick's answer, and the decision from the row read), `Apply` (the UPDATE),
`CheckQueue`, `Book`, `Announce`. `Decide` is the function `decide`. Ages are in
ticks of `MISS_SPACING / Spacing`; the three-day and one-day ages are flags that
ripen at any moment.

Left out: badges and subscription on the card (the probe only adds them), and
the repair of blank usernames.

### Webhook, WebhookProofs

One channel, the member who acts and the one who is given a subscription. A
handler is `Claim` (the INSERT of the message id) or `Duplicate`, then the event's
statements one by one (`Program` is the order of each arm of `apply_event`), then
`Finish`; a failed statement goes through `Fail` to `Reopen` (the DELETE of the id)
or `ReopenFails`; `CutOff` is a handler dropped at any await, by the server's end
or because Kick hung up. The recount of the chat window is one UPDATE but two
steps, `RecountStart` and `RecountWrite`: at READ COMMITTED the sum is that of the
snapshot the statement began with, while the row is the latest one.

Kick (external) sends an event until a delivery is answered 200, copies may
overlap, and none comes after `gc` has deleted the id a day later; that is why
`gc` has no action here. A copy whose timestamp is more than ten minutes off is refused
by the signature check (`services/kick.rs:567-571`); the model takes Kick to stamp each
try afresh, and a copy that is refused as one that never arrived.

Facts are abstracted to how they are written: set, added to, copied from the
message, raised to a floor. Left out: names, live state, signatures and the dates
of a subscription.

### Subscribers (theorems in FollowProbeProofs)

One viewer and one channel by the day: `is_subscriber`, `sub_expires_at` and, at
Kick (external), the days that are paid. A payment is told by an event that has
its new end or none (`COALESCE` keeps the old one), a chat message shows the badge, a
viewer card the subscription; events come late by up to `Delay` days and out of
order. `BadgeDate` and `CardDate` are the two SQL expressions, `Sweep` the expiry. Dates
are counted from today, so all move by one at midnight and the state space stays
finite over any number of days.

### Channels, ChannelsProofs

The row of one channel, the processes that may refresh its token (the reconcile
loop and `channel_refresh` jobs) and the callback that connects it again. A refresh
token is `<<grant, turn>>`: which sign-in it comes from and how often it has been
rotated; Kick (external) accepts only the current turn of a grant that stands.
A process goes through `FastPath` (a fresh token), or the lock, `ReadAgain`, the
question, Kick's answer and `StoreTokens` or `MarkInvalid`; then `FindMissing`,
`Subscribe` and `Subscribed` for each event type without an active row; then the
expiry `Sweep`. A process may die at any step, which drops its transaction and its
lock with it, but not what Kick has already rotated.

Left out: slugs, live state, encryption, the rate limiter, unsubscribing.

### Accounts, AccountsProofs

Two members and the Kick accounts they sign in with, one guild, one channel, one
role link. A viewer callback is `ViewerCallback` (the DELETE of the state and what
Kick says), `Upsert` of the link or `Taken`, `FindAccount` and `SeedRow` (the baseline row),
and `Enqueue` (the probe and the `player_sync`). An unlink is `Unlink` (the link goes),
`DeleteRows` (by then perhaps a new owner's) and `Enqueue`. Player syncs (`StartSync`,
`Evaluate`, then `ApplySync`, or `SyncRefused`: RoleLogic refuses the change or the call
fails, which is logged and the job completed), the probe (which keeps the account it read) and a follow event
(`FollowEvent` stores it, `EventOwner` looks its member up after)
run between them. A relation row is keyed by the Kick account and has no foreign
key to the link, so it may outlive it; `by` remembers who had the account when the
follow was recorded. Job workers are several, and nothing keeps two of them from
the same member (`claim_batch` looks at no payload): `crossed` remembers whose syncs
ran beside each other, `refused` whose last role change came to nothing.

Chat is there for what outlives a link: `counted` is by whom the messages are that a
relation row counts, `buckets` by whom those of the account's day buckets are.
`DeleteRows` takes the row with its counter and leaves the buckets (`outlived`);
`Recount` makes the one from the other.

One grain coarser than the modules of its own: a bulk sync is one step and gets
through, a role change is one step, and nobody unfollows, so that a probe only finds follows: how
one is taken away is in `FollowProbe`.

### LinkConfig, LinkConfigProofs

The row of one role link and everybody who writes it: RoleLogic (external), which
registers it and tells its deletion late or never; two tabs of the editor; the
server's channels; and a sync that finds the link gone. A save is four statements:
`CheckChannel`, `Write` (guarded by the version), `ReadBack` (the version for the
tab) and the queued `config_sync`. A rule is which save wrote it, with its channel. History
variables remember what each tab was shown and which row it was (`born`).

### RuleEngine, RuleEngineProofs

What a rule grants to, said three times: `Qualifies` is the Rust evaluator
(`condition_eval.rs`), `Qualifying` the SQL of the bulk sync (`rule_sql.rs`, with its
three truth values and the errors Postgres raises), `Listings` what its `LIMIT
user_limit` leaves of that, `Matching` the preview, which has no limit. `Parsed`
is the validator, through which every rule comes; `Loaded` is what the page gets of a stored
rule, with the keys serde gives the targets (`StoredKey`). Texts are sequences of
characters, since `LIKE` and its escaping are part of what is compared; what a text
means as a number, a truth value or a pattern of either regex engine is given by
constants. Edits, saves, links, events and the clock move in between.

### Which action is which code

PROJECT.json names for each definition the lines it stands for. The comment at
the top of each module says what is cut where.

## 4. The runs

| Run | Expected | What it shows |
|-----|----------|---------------|
| `queue_lease` | pass | exclusive claims, earned verdicts, the refinement, and that every job is settled |
| `shutdown_drain` | pass | nothing dropped; the only way to hang is named |
| `shutdown_hang` | violation | that way is reachable |
| `roles_sync` | pass | two overlapping syncs with saves that change the rule under them: roles earned and kept, mirror exact, and both converge |
| `follow_policy` | pass | removals earned, doubts booked, unfollows noticed |
| `webhook_events` | pass | events counted once per retry, applied, announced; the counter repaired |
| `accounts_links` | pass | a state serves once; the role follows the link; no member inherits another's follow |
| `accounts_settle` | pass | an unlink takes the role back and a linked follower gets it, with a fault; no counter has another's messages but by buckets that outlived an unlink |
| `rules_agree` | pass | player sync and bulk sync decide alike; the preview counts right; a rule saves as itself |
| `channels_signin` | pass | no token spent twice, no false stamp, subscriptions repaired, lapsed ones expired |
| `subscribers_days` | pass | who pays is kept, who lapsed is noticed |
| `link_config` | pass | the optimistic lock, the channel of a link, the row of a registered link |

Bounds.

- `queue_lease`: 2 jobs, 2 workers, batches of 2, 2 attempts, locks of 3 ticks and
  jobs of 1, one fault. Two jobs are the least for which the second waits behind
  the first under an ageing lock; two attempts reach the retry and the dead
  letter; the lock of 3 is the shortest that satisfies the condition, so an
  off-by-one in the reaper shows. `AttemptCap` saturates `attempts` above the
  maximum.
- `shutdown_*`: 2 workers, batches of up to 2, 1 channel, 1 request. A second job
  in the batch is what exposes the message used up in the middle.
- `roles_sync`: 2 members with a limit of 1, so that the limit bites; 2 syncs; a rule
  that matches one value of two, one that matches both, and none at all once the
  channel is gone; 2 changes from outside; 1 refused call, lost write or crash. The
  link begins with the narrow rule (`FirstRules`), which one member or both match
  (`FirstFacts`), and with its first bulk sync pending. One fault is enough to separate
  mirror and RoleLogic, two syncs to overlap a read and a write. Two changes are a save
  or a disconnect and a change of facts under one sync, which separates the rule in
  force from the one in use: if `RulesInUse` were the link's rule alone, the run would
  find `GrantsEarned` and `NotStripped` violated. The theorems hold for any rules,
  members, limit and number of syncs.
- `follow_policy`: 1 channel, 2 runs, 2 denials to remove, 1 tick of spacing, 2
  moves and 1 fault. The member who already follows at the start covers the
  pre-link case, follow and unfollow the others.
- `webhook_events`: 2 events in three mixes (two chat messages with different
  badges; gifts beside kicks; a follow beside kicks), 2 handlers, a window of 2 days and 1 midnight, 1 fault. Two handlers are
  what overlapping copies need; together the mixes run every statement; with one
  midnight a message passes from the newest day of the window to its oldest.
- `accounts_links`: 2 members and 2 Kick accounts, so that an account changes hands
  and a member changes accounts; 1 state, 2 requests, 2 workers, a follower rule,
  2 changes. Two requests are what a link racing an unlink needs, two workers what
  two syncs of one member do. No fault: the run is about order; the theorems of
  `AccountsProofs` hold with any number of each, faults included (`RoleSettles` is
  `RoleFollowsLink` after refused role changes and deaths too).
- `accounts_settle`: 2 members who take turns at 1 Kick account, 1 request, 1
  worker, a follower rule and a rule with no channel, 2 changes and 1 fault: a death, a
  failed statement or a refused role change. The account begins with messages of its
  owner or, if it has none, of the one it had before; so a link and a message are enough
  for a recount to bring those back (without the exception of `CountStaysOwn` the run
  finds it violated). With
  one worker no syncs cross: the exception of `UnlinkStrips` for them only widens what
  it allows (with two workers and a link without a channel it is needed).
- `rules_agree`: 2 members, 4 viewers (one with nothing set), every operator on a
  target of each kind with every shape of value; texts that hold `%`, `_` and a
  backslash; user limits of 1 (which bites) and 2; a day of 2 units and 1 that passes; 1
  edit and 1 change of facts.
- `channels_signin`: the loop, 1 job and 1 reconnect, 1 event type, 2 grants of 1
  rotation, 2 faults: a lost answer and a death, or a revocation and one of them.
- `subscribers_days`: periods of 30 days, events up to 2 days late (the grace), 3 on
  their way at a time, any number of days.
- `link_config`: 2 tabs, 1 channel, 3 saves, 3 registrations, 2 changes of the
  channel, 1 fault. Three saves let a tab save again after another's; the third
  registration is one under a sync of the second.

Deadlock is checked everywhere but where the system really stops:
`GracefulShutdown` (main has returned), `RoleSync` (the link is deleted), `Webhook` (no
event is left), and `LinkConfig` and `RuleEngine`, where nothing need happen when
nobody saves. `SYMMETRY` is used only in runs without liveness.

### Fairness

- JobQueue: time passes; a live worker keeps going; every worker comes to its reap
  again and again (its 120 s timer); a dead worker is restarted.
- GracefulShutdown: tokio keeps polling each task; a job, a channel's refresh and
  a request end. `SF` on reconcile's stop because its waits last hours, against
  which the message cannot lose for ever.
- RoleSync: a running sync goes on; a pending job is taken (claims are in id
  order, so one is not passed over); reconcile comes every six hours.
- FollowProbe: a run goes on; a due job is taken; reconcile and time pass; an
  event on its way arrives.
- Webhook: Kick sends an unanswered event again; a handler that is not cut off
  goes on; the recount comes every six hours.
- Channels: the reconcile loop starts every six hours, each begun process goes on,
  a token ages. Nobody has to connect the channel.
- Accounts: a running handler goes on, an idle worker takes due work, the backfill,
  the bulk sync and the probe come round, the lookup after a stored event is made.
- Subscribers: days pass, Kick's events are applied, the sweep recurs.
- LinkConfig, RuleEngine: none; they have no liveness.

No other fairness is assumed of Kick, RoleLogic or members. Faults are bounded, so
liveness says: when failures stop, this is what follows.

## 5. What the runs found

One run is expected to fail.

- `shutdown_hang`: **a shutdown hangs**. The check inside a
  worker's batch or inside reconcile's channel loop uses up the only message, and
  the outer loop never sees it. On the way the worker releases one job and
  dispatches the rest.

The other places where the code falls short of what one would wish are stated in
the properties as named exceptions, so that a run shows there are no others.

- **A job is handled twice and a settled row moves** without `LockOutlivesBatch`. The
  eight rows of a batch share one `locked_at`; when the first ones take more than
  45 minutes together the last ones are reaped while their worker still has
  them. The outcome UPDATEs look at the id alone.
- **A role stays for good** after a lost reply. The bulk sync compares with the
  mirror, not with RoleLogic; after an `add_user` whose reply was lost, a member
  who no longer qualifies keeps the role. `MirrorExact` and `RolesConverge` hold
  exactly as long as no write is lost and no two syncs of a link overlap (`clean`).
- **A sync applies the rule it read** (`services/sync.rs:163`, `:319`). A save that falls between
  that and the evaluation does not reach it: it may give the role to a member who never
  met the rule in force, or take it from one whom the link's rule wanted at every
  moment. A later sync of the link puts the mirror right (`MirrorConverges`), and RoleLogic
  with it unless the two overlapped.
- **A refused role change is forgotten** (`refused`, `services/sync.rs:253-263`, `:282-286`). It is
  logged and the job completes; for a link with a channel the next bulk sync makes it
  good, for one without nobody does, so an unlinked member may keep the role.
- **A pause clears a held write** (`services/sync.rs:359`, `:435`). A re-check that meets a paused
  link ends, and nothing books another; the sync after the link is turned on again
  starts afresh.
- **An orphan that stays** (`services/sync.rs:546`). An error of its DELETE is logged; the row waits for
  the next sync that meets it.
- **A disconnected channel leaves its roles** (`routes/admin.rs:177`). No sync is
  enqueued, and no later one reaches a link that is bound to no channel;
  `RolesConverge` and `UnlinkStrips` (`linked_unbound`) name it.
- **A follow is forgotten** (`overwrote`). A probe run overwrites what a
  `channel.followed` event wrote meanwhile, and neither sweep nor backfill looks
  at such a row again.
- **A chat counter stuck at 0.** A message is added to the counter and then to its
  day's bucket. A recount in between writes the sum without it, 0 for a first
  message, and skips the row from then on because it is 0. Above 0 the counter is
  always repaired (`WindowRecounted`).
- **Retries of events** (`spoiled`, `forgotten`). An event that was logged, not
  applied, and whose retry is a duplicate; a badge change whose retry finds
  nothing new. `CountedOnce` is per retry: an event that adds to a total and then
  fails adds again when it is sent again.
- **An older event after a newer one** (`doubt`) takes the subscription's end back;
  an event without an end leaves the old one, and the next sweep takes the role
  from a viewer who paid.
- **A lost rotation** (`lost`). A process that dies between Kick's rotation and its
  commit leaves a spent token in the row: the channel needs a new sign-in.
- **A stamp over a fresh sign-in** (`raced`, `services/broadcaster_token.rs:56`). A
  refusal of the old token is written after the broadcaster connected again.
- **Unfinished changes of an account** (`cut`, `missed`, `left`). A handler that dies
  before its `player_sync` leaves the role to the next sync; an unlink or probe of
  one member writes the row after the account went to another; a member who signs
  in with another account leaves the rows of the old one to whoever links it next,
  which `routes/verify.rs:149` means unlinking to prevent.
- **Two syncs of one member** (`crossed`, `services/jobs.rs:103`). Each change queues a
  `player_sync` of its own and the workers take them side by side. The one that looked
  before the change may send its add or remove last; nothing follows. A link with a
  channel is put right by the next bulk sync, one without a channel is not.
- **Messages change hands** (`outlived`, `routes/verify.rs:165`). Unlink deletes the account's
  relations, lest a re-link inherit stale facts (`routes/verify.rs:149`), and leaves its day
  buckets (`migrations/014_chat_activity_days.sql:20`). Once the next owner of the account
  has written a message, the recount (`tasks/reconcile.rs:143`) sums the first owner's into
  their counter.
- **A rule about chat cannot be saved twice** (`SavesAsItself`). The tree is stored with serde's
  snake_case key, `chat_messages30d`, which the page gets (`routes/admin.rs:584`) and sends
  back; `from_key` (`models/condition.rs:97`) knows `chat_messages_30d` only. It is the one
  key for which the two differ, evaluation does not depend on it, and the comment at
  `routes/admin.rs:924` promises otherwise.
- **A version that is not the tab's** (`misled`, `routes/admin.rs:722`). The save reads
  the version back in a second statement and may hand out another tab's, with
  which the next save overwrites what was never shown; the comment at
  `routes/admin.rs:689` promises otherwise. A row that was deleted and registered
  again starts its versions over.
- **A link bound to a channel that is gone** (`slipped`): disconnected between a save's
  look at it and its UPDATE.
- **An orphan's deletion over a new registration** (`overtaken`): it is by guild and
  role, not by token.
- **Rules that are not portable** (`Portable`, `Past`). `regex` patterns the two engines
  read differently (`services/rule_validator.rs:129`); a `not_in` list without one
  text, which takes members without a country in SQL alone
  (`services/rule_sql.rs:168`); an age of a date in the future.
- **The user limit** is the bulk sync's alone: the evaluator and the preview know nothing of
  it, so at the limit a member whom the player sync found fit is not on the list (RoleLogic
  refuses the add as well), and the preview's number is larger than what is granted.

## 6. What is proved

Every safety invariant a run checks, and every action property, for every value of
the constants: any number of jobs, workers, probes, channels, members, accounts,
handlers, requests, saves and faults. What is assumed is the `ASSUME` of each module (types of the
constants, and that names of different kinds differ); where a theorem needs more
it is said below. TLC checked each inductive invariant on a run's instance first.

| Module | Theorem | States |
|--------|---------|--------|
| `JobQueueProofs` | `TypeCorrect`, `LeaseCorrect` | `[]TypeOK`, `[]LeaseInv` |
| | `ExclusiveProcessing`, `VerdictsFinal` | `NoDoubleProcessing`, `TerminalIsFinal` |
| | `QueueImplementsLifecycle` | the refinement of `JobLifecycle` |
| | `VerdictsHold` | `VerdictsEarned` |
| | `NothingIsDropped` | `NothingDropped` of `GracefulShutdown` |
| `RoleSyncProofs` | `RolesEarned`, `RolesKept` | `GrantsEarned`, `NotStripped` |
| | `HeldRechecked`, `MirrorIsExact` | `HeldIsRechecked`, `MirrorExact` |
| `WebhookProofs` | `EventsCountedOnce`, `FactsAnnounced` | `CountedOnce`, `Announced` |
| `FollowProbeProofs` | `RemovalsAreEarned`, `DoubtsBooked` | `RemovalsEarned`, `DoubtIsBooked` |
| | `ChangesAnnounced` | `ChangeAnnounced` |
| | `PayersKept` | `PayingKept` of `Subscribers` |
| `ChannelsProofs` | `TokensSpentOnce`, `StampsEarned` | `SpentOnce`, `StampEarned` |
| `AccountsProofs` | `StateServesOnce`, `FactsStayOwn` | `StateOnce`, `NoInheritance` |
| | `CountsStayOwn` | `CountStaysOwn` |
| | `LinkedAreListed`, `RoleSettles` | `LinkedIsListed`, `RoleFollowsLink` |
| `LinkConfigProofs` | `RegisteredLinkKeepsRow`, `LinkBoundToConnected` | `RegisteredHasRow`, `BoundIsConnected` |
| | `SaveReplacesWhatItSaw` | `SavesOverWhatItSaw` |
| `RuleEngineProofs` | `RulesAgree`, `SyncsAgree` | evaluator and SQL, `PathsAgree` |
| | `PreviewCounts`, `RulesReload` | `PreviewTold`, `SavesAsItself` |

### JobQueue

What one wants is `LeaseHeld`: a job a worker has claimed and not reported is
`in_progress` and locked by that worker. It is not inductive: nothing in it keeps
the reaper away. `LeaseInv` adds the clock: a held job's lock is no older than
`Elapsed(w)`, the time the batch can have taken so far, which is `RunTicks` for
each job already done plus what the present one has used. As `w` still holds a
job, `Elapsed(w) <= BatchSize * RunTicks < LockTicks`, so `Stuck` contains no held
job. The other conjuncts tie batch, job in hand and place in the loop together.
Each action is one step of the proof; the refinement maps `ClaimBatch` to `Claim`,
`Report` to `Settle`, a lost report or a crash to `Drop`, the reap to `Reclaim`,
all else to a stutter. These four theorems assume `LockOutlivesBatch`.

`VerdictsHold` does not: it is about workers that lost their lock too. `VerdictInv` says
that a worker reports what it was told for the job it has (`HandOf`), and that the
`attempts` it read at the claim are never ahead of the row, which only grows
(`CluesGrow`). So a thief or a late reporter may write a verdict over another's,
but none that no handler gave and no budget was used up for.

### GracefulShutdown

`ShutdownInv`: a worker that is not in its batch has no claimed job left, the server
stopped with no request open, main starts to join when the server has stopped and
is done when every task has. A task that stops never moves again, which is why what
main saw of each at its join still holds at its end. The message plays no part:
`NothingDropped` holds whether or not a task misses it; what a missed one costs is
that main never gets there (`shutdown_hang`).

### RoleSync

A sync acts on what it read some steps ago, so each invariant says what is still
true of it then. `EarnedInv`: whoever matches the rule in force or one that a sync still has
to apply (`seen`) is in `wasIn`, and so are the member about to be added and the list about to
be sent. `OutInv`: whomever one of these rules leaves out, whoever is about to be removed, by
name or by not being in the list, is in `wasOut`. Only a change of facts or of the
rule moves either, and it moves them for every rule in use. `OwedInv`: a held write has a sync that
has yet to write or a pending job; a sync that only records an earlier write does
not count, which `HeldIsRechecked` alone does not say. `MirrorLags`: while no write
was lost and one sync runs at a time, the mirror is one write behind RoleLogic in
the phases between a request and its row, and equal in all others.

### Webhook

`ClaimInv` strengthens `CountedOnce` with what makes it inductive: an event between its
INSERT and its answer is held by one handler and logged (`HeldOnce`, `HeldIsLogged`),
an event that is not logged has not been counted (`UnloggedIsFresh`), and a handler
that still has a counting statement before it has not done one (`CountsFirst`, from
`ProgramCountsOnce`: no arm of `apply_event` counts twice). The claim is the one
step that takes hold of an event, and it needs the id to be absent from the log;
every other step only lets go.

`Announced` speaks of states at rest only. `AnnounceInv` adds `Promised`: at any time, a
fact that was written and not forgotten is owed by a handler that has the
announcement before it or is about to give its event back, or is going to be sent
again by Kick. It rests on the order within each arm: what writes comes before
what announces it (`Ordered`), and the announcement is the one the event's kind
calls for (`Fits`).

### FollowProbe

A run decides from rows it read several steps ago, and writes by key whatever the
row holds by then. `RowCurrent`: what it still needs of its rows is what the table
holds, but for channels that another run or an event wrote since (`touched`).
`Decided`: the decision it is about to write follows from that row; it takes a
follow away, or counts a miss, only if as many spaced denials were observed.
`Counted` ties the two clocks together: each stored miss is a denial of its own, and
when the last denial is younger than the stored miss, one more has been observed
than is stored (a run has decided and not yet written, or was cut short). These
give `RemovalsEarned`, and, with `changed` in `Decided`, `ChangeAnnounced`. `Doubted`
says more than `DoubtIsBooked`: not that some run is there, but that one of them will
still ask about this channel or has `awaiting` set and so will book; a run past that
point does not count. `NoMiss` (a row without the follow has no misses) is what an
event needs that sets the flag and leaves the count.

`RemovalsEarned` and `ChangeAnnounced` except a write from a row that had changed
under the run (`overwrote`): the code does not exclude it, and section 5 says what
comes of it.

### Subscribers

`SweepInv` is the types with `OneNewest` (at most one event on its way is the newest),
`Told` (if it has an end, it is the end that is paid), `Covered` (while the subscription
runs, the row's date reaches as far as what is paid, or is at most as far past as the
newest event is late) and `Proven` (the date is no further past than the last badge
or card allows). Neither half of `PayingKept` follows from the sweep alone, as it
looks at a date that other statements wrote days before. The delay is assumed to
be within the grace.

### Channels

`SignInInv`: the advisory lock excludes (`OneLocked`); a process in the lock holds the token
it asks with, which is the current turn of its grant or one whose successor was
lost, and the answer it got (`HoldsTokens`); the row holds the token Kick accepts,
unless the successor was lost or is in the lock holder's hands (`StoredIsNewest`); a
grant that was exchanged and not yet stored is known to its callback alone
(`NewGrants`), since connecting does not take the lock. The mark is the lock holder's
last act, so nobody asks for a marked channel.

### Accounts

The properties are about members for whom nothing is pending; the invariants say
of all others what is on its way. `FactsOwned`: a recorded follow belongs to a member
who still has the account, or left it behind, or is unlinking it; with `OneOwner`
that is `NoInheritance`. `MessagesOwned` says the same of the messages in an account's buckets
and counter, or that they outlived an unlink; a recount moves them from the one to
the other, so neither could be said alone. `Listed`: a linked member without a row has a sync coming
(queued, or a request that will queue it) or a sync that has yet to insert the
row for the account they have *now*; one that read the old account does not count.
For the role, `Owed` is a sync that is coming, an event whose owner is not looked up
yet, or, standing in for the sync that nobody queues, that the syncs crossed or the role
change was refused. `Requalified`: whatever changes whether a member
qualifies owes them a sync. `OwedStays`: only a sync of the member that begins alone
pays it. `Decided`: a decision that is no longer right has a sync owed after it. `Alone`:
two syncs of a member at a time have crossed. Hence `Shown`: the role is right, or a
sync is owed, or one is at work.

The proof found what the run had not: `Decided` fails with two workers. The sync
that decided first may apply last, and the run had one worker. The module has
since `crossed`, and its run two workers (section 5).

### LinkConfig

`RowInv`: no token is given twice, so a late deletion names an old one (`LateIsOld`), and a
sync that nobody overtook asks with the current one (`SyncAsksCurrent`). `BindInv`: a
channel a save has looked up is still the server's, or slipped. `LockInv`: what a tab
shows is what its version says, and its version is not ahead of the row's within
one birth of the row; between the UPDATE and the statement that reads the version
back, it shows what it wrote with a version from before (`InOrder`).

### RuleEngine

`RulesAgree` goes condition by condition, by the kind of the target and then by the
operator; the validator's part is that the value has the shape both sides expect.
The invariant says that the stored rule and the draft came through the
validator (`Stored`), that what the player sync was seen to do is what it would do now
(`SeenIsCurrent`), and that the last list holds qualifying members only, all of them
unless it is at its limit (`ListIsCurrent`). `SyncsAgree` speaks of portable rules and members
whose dates are past. `PreviewCounts` is `MatchingIsQualifying`, for the draft as it is on
the page, with the number being that of the present facts (`CountIsCurrent`), and cut at
the limit.

`RulesReload` shows that the validator is idempotent on what it stores: of a value
(`NormalOnce`: the canonical text of a number, of a truth value and of a trimmed list
comes out as it went in), a condition, a group and a rule (`ParsedReloads`). The page has the
stored keys, which are the same but for one target (`KeyStays`); a rule with that one
is refused (`ChatRefused`, `LoadedRule`).

Assumed besides the types: no word is both true and false (two match arms,
`services/rule_validator.rs`); that a number prints as something and a body has finitely
many groups and at most one upper bound per condition (`InputAssumption`: they are
JSON numbers, a JSON array and an `Option`); and for `RulesAgree` and `SyncsAgree`,
`LikeIsContains`, that the escaped pattern finds exactly the text: a recursion over
characters, which the provers cannot do and TLC evaluates on every pair of texts of
the run.

### Only model-checked

- All liveness: `EventuallySettled`, `ShutdownCompletes`, `ExitsUnlessMissed`, `MirrorConverges`,
  `RolesConverge`, `UnfollowNoticed`, `FollowersFound`, `EveryEventApplied`, `WindowRecounted`,
  `UnlinkStrips`, `FollowerGetsRole`, `SubscriptionsHeal`, `LapsedExpire`, `LapseNoticed`.
  The proof system does not handle `ENABLED`, which fairness is made of.
- `LikeIsContains` (above).

## 7. What is not modelled

- The integration API, its keys and the users page: listings that change nothing;
  a key is one row that one statement makes or revokes.
- Who may open the settings page, and the visibility settings of a guild: one
  check, one UPDATE.
- Live state, `gc` of rows that have expired: written over, read by no rule.
- Slugs and names of channels and viewers, and the repair of blank usernames. A probe
  is keyed by them, so a stale one gives no answer or another channel's; in
  `FollowProbe` both are answers that are missing or wrong.
- Sessions, CSRF, encryption, security headers: functions of one request.
- Pages, health checks, API docs, configuration: text and glue.
- Rate limits and the client's own retries of HTTP calls: a call succeeds, is
  refused, or is applied with its answer lost, however often it was tried.
- Postgres below the statement: each statement is atomic at READ COMMITTED, and
  check-then-insert pairs are two steps where the model cuts them.
