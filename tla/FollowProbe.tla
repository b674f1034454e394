----------------------------- MODULE FollowProbe -----------------------------
(***************************************************************************)
(* How the cached follows of one linked member keep up with Kick: the      *)
(* probe run (services/follow_sync.rs, a follow_probe job), the sweep and  *)
(* the backfill that queue it, and the channel.followed event that sets    *)
(* the flag directly (routes/webhooks.rs).                                 *)
(*                                                                         *)
(* A run reads all rows of the member at once, then for each channel asks  *)
(* Kick, decides from the row it read, and writes.  Between those steps    *)
(* another run, an event, or the death of the run may come.                *)
(*                                                                         *)
(* Kick is external: it knows who follows, may send an event for a new     *)
(* follow (never for an unfollow), and answers a probe rightly, wrongly or *)
(* not at all.  The other facts of the card (badges, subscription) are     *)
(* only ever added, and are left out.                                      *)
(*                                                                         *)
(* Time passes in ticks of MISS_SPACING / Spacing.  A NULL timestamp reads *)
(* as one that is old enough.                                              *)
(***************************************************************************)
EXTENDS Integers, FiniteSets

CONSTANTS
  Channels,        \* channels of the guilds the member is in
  Probes,          \* worker tasks that can run a probe of this member
  Confirmations,   \* KICK_UNFOLLOW_CONFIRMATIONS
  Spacing,         \* MISS_SPACING in ticks
  MaxMoves,        \* bound: follows, unfollows and visits to the verify page
  MaxFaults        \* bound: wrong or missing answers, and runs cut short

ASSUME FollowProbeAssumption ==
  /\ Confirmations \in Nat \ {0}
  /\ Spacing \in Nat \ {0}
  /\ MaxMoves \in Nat /\ MaxFaults \in Nat
  /\ IsFiniteSet(Probes)

VARIABLES
  following,   \* Kick: the channels the member follows
  event,       \* channel.followed events on their way
  follower,    \* channel_relations.is_follower
  misses,      \* follow_probe_misses
  missAge,     \* ticks since follow_missed_at, up to Spacing
  probed,      \* follow_probed_at: "never", "fresh", "stale" (3 days old)
  tried,       \* is follow_probe_attempted_at less than a day old
  queued,      \* pending follow_probe jobs that may run
  booked,      \* pending ones that may run k ticks from now, for each k
  pc,          \* where each run stands
  todo,        \* channels it has not asked about yet
  row,         \* the rows it read
  channel,     \* {the channel it has decided about} or {}
  decision,    \* what it decided: the flag, the count, did the miss count
  awaiting,    \* awaiting_confirmation
  changed,     \* report.changed
  touched,     \* history: rows written by others since the run read them
  told,        \* history: follows whose event has arrived
  denials,     \* history: spaced denials since the count was last cleared
  denialAge,   \* history: ticks since the last of those
  silent,      \* history: channels the last answer was missing for
  lied, cut, overwrote,  \* history: a wrong answer, a run cut short, a write
                         \* from a row that was no longer what had been read
  unsynced,    \* history: the flag changed after the last player_sync
  moves, faults

kick    == <<following, event>>
cache   == <<follower, misses, missAge, probed, tried>>
jobs    == <<queued, booked>>
local   == <<todo, row, channel, decision, awaiting, changed>>
clues   == <<touched, told, denials, denialAge, silent>>
flags   == <<lied, cut, overwrote>>
budgets == <<moves, faults>>
vars    == <<kick, cache, jobs, pc, local, clues, flags, unsynced, budgets>>

-----------------------------------------------------------------------------
AtMost(n, cap) == IF n < cap THEN n ELSE cap
Older(n) == AtMost(n + 1, Spacing)

Running == {p \in Probes : pc[p] # "idle"}
Pending == queued > 0 \/ \E k \in 1..Spacing : booked[k] > 0

NoDecision == [follower |-> FALSE, misses |-> 0, counts |-> FALSE]

Goto(p, place) == pc' = [pc EXCEPT ![p] = place]

(* The run is over, one way or the other. *)
Leave(p) ==
  /\ Goto(p, "idle")
  /\ todo'     = [todo EXCEPT ![p] = {}]
  /\ row'      = [row EXCEPT ![p] = [c \in Channels |->
                   [follower |-> FALSE, misses |-> 0, missAge |-> Spacing]]]
  /\ channel'  = [channel EXCEPT ![p] = {}]
  /\ decision' = [decision EXCEPT ![p] = NoDecision]
  /\ awaiting' = [awaiting EXCEPT ![p] = FALSE]
  /\ changed'  = [changed EXCEPT ![p] = FALSE]

(* Some other step wrote the rows of the channels S. *)
Touch(writers, S) ==
  touched' = [q \in Probes |-> IF q \in Running \ writers
                               THEN touched[q] \cup S ELSE touched[q]]

Move  == moves < MaxMoves /\ moves' = moves + 1 /\ UNCHANGED faults
Fault == faults < MaxFaults /\ faults' = faults + 1 /\ UNCHANGED moves

-----------------------------------------------------------------------------
(* The probe run. *)

(* A worker takes a job that may run; the run reads the member's rows. *)
Start(p) ==
  /\ pc[p] = "idle" /\ queued > 0
  /\ queued' = queued - 1
  /\ row'  = [row EXCEPT ![p] = [c \in Channels |->
               [follower |-> follower[c], misses |-> misses[c],
                missAge |-> missAge[c]]]]
  /\ todo' = [todo EXCEPT ![p] = Channels]
  /\ touched' = [touched EXCEPT ![p] = {}]
  /\ Goto(p, "ask")
  /\ UNCHANGED <<kick, cache, booked, channel, decision, awaiting, changed,
                 told, denials, denialAge, silent, flags, unsynced, budgets>>

(* Mutant: two denials close together are two observations. *)
AlwaysSpaced(r) == r.follower

Spaced(r) == r.missAge >= Spacing

Enough(r) == r.misses + 1 >= Confirmations

(* decide: what one answer does to the row that was read. *)
Decide(r, yes) ==
  LET doubted == ~yes /\ r.follower
      counts  == doubted /\ Spaced(r)
      removes == counts /\ Enough(r)
  IN [follower |-> yes \/ (doubted /\ ~removes),
      misses   |-> IF ~doubted \/ removes THEN 0
                   ELSE IF counts THEN r.misses + 1 ELSE r.misses,
      counts   |-> counts]

(* Mutant: only a gained follow counts as a change. *)
ChangesGain(r, d) == d.follower /\ ~r.follower

Changes(r, d) == d.follower # r.follower

(* A denial is an observation of its own when the last one is far enough.  *)
NoteDenial(c, yes) ==
  IF ~yes /\ denialAge[c] >= Spacing
  THEN /\ denials'   = [denials EXCEPT ![c] = AtMost(@ + 1, Confirmations)]
       /\ denialAge' = [denialAge EXCEPT ![c] = 0]
  ELSE UNCHANGED <<denials, denialAge>>

Usable(p, c, yes) ==
  /\ channel'  = [channel EXCEPT ![p] = {c}]
  /\ decision' = [decision EXCEPT ![p] = Decide(row[p][c], yes)]
  /\ changed'  = [changed EXCEPT ![p] = @ \/ Changes(row[p][c], decision'[p])]
  /\ awaiting' = [awaiting EXCEPT ![p] =
                    @ \/ (decision'[p].follower /\ decision'[p].misses > 0)]
  /\ silent' = silent \ {c}
  /\ NoteDenial(c, yes)
  /\ Goto(p, "apply")
  /\ UNCHANGED <<cache, touched>>

(* No answer: only the attempt is recorded. *)
Unavailable(p, c) ==
  /\ tried'  = [tried EXCEPT ![c] = TRUE]
  /\ silent' = silent \cup {c}
  /\ UNCHANGED <<follower, misses, missAge, probed, pc, channel, decision,
                 awaiting, changed, touched, denials, denialAge>>

Ask(p) ==
  /\ pc[p] = "ask"
  /\ \E c \in todo[p] :
       /\ todo' = [todo EXCEPT ![p] = @ \ {c}]
       /\ \/ /\ Usable(p, c, c \in following)
             /\ UNCHANGED <<lied, budgets>>
          \/ /\ Usable(p, c, c \notin following)
             /\ lied' = TRUE /\ Fault
          \/ Unavailable(p, c) /\ UNCHANGED lied /\ Fault
  /\ UNCHANGED <<kick, jobs, row, told, cut, overwrote, unsynced>>

(* apply: one UPDATE by key, whatever the row holds by now. *)
Apply(p) ==
  /\ pc[p] = "apply"
  /\ \E c \in channel[p] :
       LET d == decision[p] IN
       /\ follower' = [follower EXCEPT ![c] = d.follower]
       /\ misses'   = [misses EXCEPT ![c] = d.misses]
       /\ missAge'  = [missAge EXCEPT ![c] = IF d.counts THEN 0 ELSE @]
       /\ probed'   = [probed EXCEPT ![c] = "fresh"]
       /\ tried'    = [tried EXCEPT ![c] = TRUE]
       /\ overwrote' = (overwrote \/ c \in touched[p])
       /\ Touch({p}, {c})
       /\ unsynced' = (unsynced \/ d.follower # follower[c])
       /\ IF d.misses = 0
          THEN /\ denials'   = [denials EXCEPT ![c] = 0]
               /\ denialAge' = [denialAge EXCEPT ![c] = Spacing]
          ELSE UNCHANGED <<denials, denialAge>>
  /\ channel'  = [channel EXCEPT ![p] = {}]
  /\ decision' = [decision EXCEPT ![p] = NoDecision]
  /\ Goto(p, "ask")
  /\ UNCHANGED <<kick, jobs, todo, row, awaiting, changed, told, silent, lied,
                 cut, budgets>>

(* Mutant: the run's own job, still in progress, counts as a queued one. *)
AlreadyQueuedOrRunning == Pending \/ Running # {}

AlreadyQueued == Pending

(* All channels are done: is the next observation already queued? *)
CheckQueue(p) ==
  /\ pc[p] = "ask" /\ todo[p] = {}
  /\ Goto(p, IF awaiting[p] /\ ~AlreadyQueued THEN "book" ELSE "announce")
  /\ UNCHANGED <<kick, cache, jobs, local, clues, flags, unsynced, budgets>>

Book(p) ==
  /\ pc[p] = "book"
  /\ booked' = [booked EXCEPT ![Spacing] = @ + 1]
  /\ Goto(p, "announce")
  /\ UNCHANGED <<kick, cache, queued, local, clues, flags, unsynced, budgets>>

Announce(p) ==
  /\ pc[p] = "announce"
  /\ unsynced' = (unsynced /\ ~changed[p])
  /\ Leave(p)
  /\ UNCHANGED <<kick, cache, jobs, clues, flags, budgets>>

(* A statement failed, or the process died: the job is pending again. *)
CutShort(p) ==
  /\ pc[p] # "idle" /\ Fault
  /\ queued' = queued + 1 /\ cut' = TRUE
  /\ Leave(p)
  /\ UNCHANGED <<kick, cache, booked, clues, lied, overwrote, unsynced>>

-----------------------------------------------------------------------------
(* Who else queues a probe. *)

(* Mutant: a follow that was ever read is never read again. *)
SweepDueOnce(c) == follower[c] /\ probed[c] = "never"

SweepDue(c) == follower[c] /\ probed[c] \in {"never", "stale"}

(* Mutant: only rows that claim a follow are worth a probe. *)
BackfillDueHeld(c) == follower[c] /\ probed[c] = "never" /\ ~tried[c]

BackfillDue(c) == probed[c] = "never" /\ ~tried[c]

(* The reconcile tick, for a member with no probe pending or running. *)
Reconcile ==
  /\ ~Pending /\ Running = {}
  /\ \E c \in Channels : SweepDue(c) \/ BackfillDue(c)
  /\ queued' = queued + 1
  /\ UNCHANGED <<kick, cache, booked, pc, local, clues, flags, unsynced,
                 budgets>>

(* The member signs in again, whether a probe runs or not.  That no other  *)
(* is waiting is a bound.                                                  *)
Recheck ==
  /\ Move /\ queued = 0
  /\ queued' = queued + 1
  /\ UNCHANGED <<kick, cache, booked, pc, local, clues, flags, unsynced>>

-----------------------------------------------------------------------------
(* Kick, and the passing of time. *)

Follow(c) ==
  /\ Move /\ c \notin following
  /\ following' = following \cup {c}
  /\ event' \in {event, event \cup {c}}
  /\ UNCHANGED <<cache, jobs, pc, local, clues, flags, unsynced>>

Unfollow(c) ==
  /\ Move /\ c \in following
  /\ following' = following \ {c} /\ told' = told \ {c}
  /\ UNCHANGED <<event, cache, jobs, pc, local, touched, denials, denialAge,
                 silent, flags, unsynced>>

(* apply_event, channel.followed: the flag and a player_sync.  The misses  *)
(* and their date stay.                                                    *)
Followed(c) ==
  /\ c \in event
  /\ event' = event \ {c}
  /\ follower' = [follower EXCEPT ![c] = TRUE]
  /\ unsynced' = FALSE
  /\ Touch({}, {c})
  /\ told' = told \cup ({c} \cap following)
  /\ UNCHANGED <<following, misses, missAge, probed, tried, jobs, pc, local,
                 denials, denialAge, silent, flags, budgets>>

Tick ==
  /\ missAge'   = [c \in Channels |-> Older(missAge[c])]
  /\ denialAge' = [c \in Channels |-> Older(denialAge[c])]
  /\ row' = [p \in Probes |-> [c \in Channels |->
              [row[p][c] EXCEPT !.missAge = Older(@)]]]
  /\ queued' = queued + booked[1]
  /\ booked' = [k \in 1..Spacing |->
                 IF k < Spacing THEN booked[k + 1] ELSE 0]
  /\ UNCHANGED <<kick, follower, misses, probed, tried, pc, todo, channel,
                 decision, awaiting, changed, touched, told, denials, silent, flags,
                 unsynced, budgets>>

(* RECHECK_AFTER_SECS, and BACKFILL_RETRY_AFTER_SECS. *)
Ripen(c) ==
  /\ \/ /\ probed[c] = "fresh" /\ probed' = [probed EXCEPT ![c] = "stale"]
        /\ UNCHANGED tried
     \/ tried[c] /\ tried' = [tried EXCEPT ![c] = FALSE] /\ UNCHANGED probed
  /\ UNCHANGED <<kick, follower, misses, missAge, jobs, pc, local, clues,
                 flags, unsynced, budgets>>

-----------------------------------------------------------------------------
(* The member has just linked: baseline rows, and one probe queued. *)
Init ==
  /\ following \in SUBSET Channels /\ event = {}
  /\ follower  = [c \in Channels |-> FALSE]
  /\ misses    = [c \in Channels |-> 0]
  /\ missAge   = [c \in Channels |-> Spacing]
  /\ probed    = [c \in Channels |-> "never"]
  /\ tried     = [c \in Channels |-> FALSE]
  /\ queued = 1 /\ booked = [k \in 1..Spacing |-> 0]
  /\ pc        = [p \in Probes |-> "idle"]
  /\ todo      = [p \in Probes |-> {}]
  /\ row       = [p \in Probes |-> [c \in Channels |->
                   [follower |-> FALSE, misses |-> 0, missAge |-> Spacing]]]
  /\ channel   = [p \in Probes |-> {}]
  /\ decision  = [p \in Probes |-> NoDecision]
  /\ awaiting  = [p \in Probes |-> FALSE]
  /\ changed   = [p \in Probes |-> FALSE]
  /\ touched   = [p \in Probes |-> {}]
  /\ told = {} /\ silent = {}
  /\ denials   = [c \in Channels |-> 0]
  /\ denialAge = [c \in Channels |-> Spacing]
  /\ lied = FALSE /\ cut = FALSE /\ overwrote = FALSE /\ unsynced = FALSE
  /\ moves = 0 /\ faults = 0

RunStep(p) ==
  Ask(p) \/ Apply(p) \/ CheckQueue(p) \/ Book(p) \/ Announce(p)

Next ==
  \/ \E p \in Probes : Start(p) \/ RunStep(p) \/ CutShort(p)
  \/ Reconcile \/ Recheck \/ Tick
  \/ \E c \in Channels : Follow(c) \/ Unfollow(c) \/ Followed(c) \/ Ripen(c)

Spec == Init /\ [][Next]_vars

(* A run goes on, a job that may run is taken, reconcile comes round, time *)
(* passes.                                                                 *)
Fairness ==
  /\ \A p \in Probes : WF_vars(RunStep(p))
  /\ WF_vars(\E p \in Probes : Start(p))
  /\ WF_vars(Reconcile) /\ WF_vars(Tick)
  /\ \A c \in Channels : WF_vars(Ripen(c)) /\ WF_vars(Followed(c))

FairSpec == Spec /\ Fairness

-----------------------------------------------------------------------------
(* Type invariant: the stored count stays below the number that removes.   *)
Rows == [follower : BOOLEAN, misses : 0..(Confirmations - 1),
         missAge : 0..Spacing]

TypeOK ==
  /\ following \subseteq Channels /\ event \subseteq Channels
  /\ follower \in [Channels -> BOOLEAN]
  /\ misses   \in [Channels -> 0..(Confirmations - 1)]
  /\ missAge  \in [Channels -> 0..Spacing]
  /\ probed   \in [Channels -> {"never", "fresh", "stale"}]
  /\ tried    \in [Channels -> BOOLEAN]
  /\ queued \in Nat /\ booked \in [1..Spacing -> Nat]
  /\ pc       \in [Probes -> {"idle", "ask", "apply", "book", "announce"}]
  /\ todo     \in [Probes -> SUBSET Channels]
  /\ row      \in [Probes -> [Channels -> Rows]]
  /\ channel  \in [Probes -> SUBSET Channels]
  /\ decision \in [Probes -> [follower : BOOLEAN, counts : BOOLEAN,
                              misses : 0..(Confirmations - 1)]]
  /\ awaiting \in [Probes -> BOOLEAN] /\ changed \in [Probes -> BOOLEAN]
  /\ touched  \in [Probes -> SUBSET Channels]
  /\ told \subseteq Channels /\ silent \subseteq Channels
  /\ denials   \in [Channels -> 0..Confirmations]
  /\ denialAge \in [Channels -> 0..Spacing]
  /\ lied \in BOOLEAN /\ cut \in BOOLEAN
  /\ overwrote \in BOOLEAN /\ unsynced \in BOOLEAN
  /\ moves \in 0..MaxMoves /\ faults \in 0..MaxFaults

(* A follow is taken away only after Confirmations denials, each at least  *)
(* Spacing after the one before, and no write in between that cleared the  *)
(* count, unless a run wrote from a row that had changed under it.         *)
Removed(c) == follower[c] /\ ~follower'[c]
RemovalsEarned ==
  [][\A c \in Channels : Removed(c) /\ ~overwrote'
                           => denials[c] >= Confirmations]_vars

(* A follow in doubt does not wait for the three-day sweep: its next       *)
(* observation is queued, or a run is on its way, unless Kick's last       *)
(* answer was none.                                                        *)
DoubtIsBooked ==
  \A c \in Channels :
    follower[c] /\ misses[c] > 0 => Pending \/ Running # {} \/ c \in silent

(* A change of the flag is followed by a player_sync: until then a run     *)
(* that remembers the change is alive, unless one was cut short or wrote   *)
(* from a row that had changed under it.                                   *)
ChangeAnnounced ==
  unsynced => cut \/ overwrote \/ \E p \in Running : changed[p]

(* Kick sends no unfollow event, and still an unfollow is noticed. *)
UnfollowNoticed ==
  \A c \in Channels : <>[](c \notin following) => <>[](~follower[c])

(* Who followed before linking is found without an event or a visit, and   *)
(* a follow whose event arrived, and that lasts, is known for good, unless *)
(* a run wrote over the event what it had read before it.                  *)
FollowersFound ==
  \A c \in Channels :
    ([](c \in following) \/ (<>[](c \in told) /\ []~overwrote)) /\ []~lied
      => <>[](follower[c])
=============================================================================
