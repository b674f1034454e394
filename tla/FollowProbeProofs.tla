-------------------------- MODULE FollowProbeProofs --------------------------
(***************************************************************************)
(* Theorems about what the service knows of one viewer: the follows that   *)
(* probes keep up with (FollowProbe), and the subscription that events,    *)
(* cards and the expiry sweep keep (Subscribers).                          *)
(*                                                                         *)
(* Follows.  For every number of runs at a time and every KICK_UNFOLLOW_   *)
(* CONFIRMATIONS, a follow is taken away only on that many spaced denials, *)
(* a change is announced, and a follow in doubt has its next observation   *)
(* booked.  A run decides from rows it read earlier, so none of it holds   *)
(* by the write alone: what a run still needs of its rows is what the      *)
(* table holds, or somebody wrote in between and the write is noted.       *)
(*                                                                         *)
(* Subscriptions.  The expiry sweep takes nothing from a viewer whose      *)
(* payment was told, nor within Keep days of a badge or card, for every    *)
(* length of the period and every delay of the events up to the grace.     *)
(* Neither follows from the sweep alone: a renewal in time finds a row     *)
(* that is at most as late as its event, the event brings the date, and a  *)
(* badge or a card never takes a later date back.                          *)
(***************************************************************************)
EXTENDS FollowProbe, Subscribers, TLAPS

-----------------------------------------------------------------------------
(* Follows.  *)

Places    == {"idle", "ask", "apply", "book", "announce"}
Decisions == [follower : BOOLEAN, counts : BOOLEAN, misses : 0..(Confirmations - 1)]

(* A run has decided about one channel, which it will not ask about again. *)
Placed ==
  \A p \in Probes :
    /\ pc[p] # "apply" => channel[p] = {}
    /\ pc[p] = "apply" => \E c \in Channels \ todo[p] : channel[p] = {c}

(* What a run still needs of its rows is what the table holds, but for the *)
(* channels somebody else has written since.                               *)
RowCurrent ==
  \A p \in Running, c \in Channels :
    c \in (todo[p] \cup channel[p]) \ touched[p] =>
      /\ row[p][c].follower = follower[c]
      /\ row[p][c].misses = misses[c]
      /\ row[p][c].missAge = missAge[c]

(* A decision follows from its row and, when it is to take a follow away   *)
(* or counts a miss, from denials that were observed.                      *)
DecidedFrom(r, d) ==
  /\ ~d.follower => d.misses = 0
  /\ ~d.follower /\ r.follower => d.counts /\ r.misses + 1 >= Confirmations
  /\ d.misses > 0 => d.misses = IF d.counts THEN r.misses + 1 ELSE r.misses

Decided ==
  \A p \in Probes, c \in Channels :
    pc[p] = "apply" /\ c \in channel[p] =>
      /\ DecidedFrom(row[p][c], decision[p])
      /\ decision[p].follower # row[p][c].follower => changed[p]
      /\ decision[p].follower /\ decision[p].misses > 0 => awaiting[p]
      /\ decision[p].counts /\ c \notin touched[p] /\ ~overwrote
           => denials[c] >= row[p][c].misses + 1

NoMiss == \A c \in Channels : ~follower[c] => misses[c] = 0

(* Every miss in the table is a denial of its own, and one more denial has *)
(* been observed when the last is younger than the miss.                   *)
Counted ==
  ~overwrote => \A c \in Channels :
    /\ denials[c] >= misses[c]
    /\ denialAge[c] < missAge[c] => denials[c] >= misses[c] + 1

(* The run will ask about c, or book the next observation.                 *)
Will(p, c) ==
  \/ pc[p] \in {"ask", "apply"} /\ (c \in todo[p] \cup channel[p] \/ awaiting[p])
  \/ pc[p] = "book"

Doubted ==
  \A c \in Channels :
    follower[c] /\ misses[c] > 0 => Pending \/ c \in silent \/ \E p \in Probes : Will(p, c)

Bookkept ==
  /\ Placed /\ RowCurrent /\ Decided /\ NoMiss /\ Counted /\ Doubted
  /\ ChangeAnnounced

FollowInv == TypeOK /\ Bookkept

-----------------------------------------------------------------------------
LEMMA Numbers ==
  /\ Confirmations - 1 \in Nat /\ Confirmations \in Nat /\ Spacing \in Nat
  /\ 0 \in 0..(Confirmations - 1) /\ 0 \in 0..Confirmations
  /\ 0 \in 0..Spacing /\ Spacing \in 0..Spacing /\ Spacing \in 1..Spacing
BY FollowProbeAssumption

LEMMA DecideType ==
  ASSUME NEW r \in Rows, NEW yes \in BOOLEAN
  PROVE  /\ Decide(r, yes) \in Decisions
         /\ DecidedFrom(r, Decide(r, yes))
         /\ Decide(r, yes).counts => ~yes /\ Spaced(r)
<1>1. /\ r.follower \in BOOLEAN /\ r.misses \in 0..(Confirmations - 1)
      /\ r.missAge \in 0..Spacing
  BY DEF Rows
<1>2. CASE yes \/ ~r.follower
  <2>1. Decide(r, yes) = [follower |-> yes, misses |-> 0, counts |-> FALSE]
    BY <1>2 DEF Decide
  <2> QED  BY <1>2, <2>1, Numbers DEF Decisions, DecidedFrom
<1>3. CASE ~yes /\ r.follower /\ ~Spaced(r)
  <2>1. Decide(r, yes) = [follower |-> TRUE, misses |-> r.misses, counts |-> FALSE]
    BY <1>3 DEF Decide
  <2> QED  BY <1>1, <2>1 DEF Decisions, DecidedFrom
<1>4. CASE ~yes /\ r.follower /\ Spaced(r) /\ Enough(r)
  <2>1. Decide(r, yes) = [follower |-> FALSE, misses |-> 0, counts |-> TRUE]
    BY <1>4 DEF Decide
  <2> QED  BY <1>4, <2>1, Numbers DEF Decisions, DecidedFrom, Enough
<1>5. CASE ~yes /\ r.follower /\ Spaced(r) /\ ~Enough(r)
  <2>1. Decide(r, yes) = [follower |-> TRUE, misses |-> r.misses + 1, counts |-> TRUE]
    BY <1>5 DEF Decide
  <2>2. r.misses + 1 \in 0..(Confirmations - 1)
    BY <1>1, <1>5, FollowProbeAssumption DEF Enough
  <2> QED  BY <1>5, <2>1, <2>2 DEF Decisions, DecidedFrom
<1> QED  BY <1>1, <1>2, <1>3, <1>4, <1>5

LEMMA LeaveType ==
  ASSUME TypeOK, NEW p \in Probes, Leave(p)
  PROVE  /\ pc' \in [Probes -> Places]
         /\ todo' \in [Probes -> SUBSET Channels]
         /\ row' \in [Probes -> [Channels -> Rows]]
         /\ channel' \in [Probes -> SUBSET Channels]
         /\ decision' \in [Probes -> Decisions]
         /\ awaiting' \in [Probes -> BOOLEAN] /\ changed' \in [Probes -> BOOLEAN]
<1>1. [c \in Channels |-> [follower |-> FALSE, misses |-> 0, missAge |-> Spacing]]
        \in [Channels -> Rows]
  BY Numbers DEF Rows
<1>2. NoDecision \in Decisions
  BY Numbers DEF NoDecision, Decisions
<1> QED  BY <1>1, <1>2 DEF TypeOK, Leave, Goto, Places, Decisions

LEMMA TouchType ==
  ASSUME TypeOK, NEW writers, NEW S \in SUBSET Channels, Touch(writers, S)
  PROVE  touched' \in [Probes -> SUBSET Channels]
BY DEF TypeOK, Touch

LEMMA AtMostType ==
  ASSUME NEW n \in Nat, NEW cap \in Nat
  PROVE  AtMost(n, cap) \in 0..cap /\ (AtMost(n, cap) = n \/ (AtMost(n, cap) = cap /\ cap <= n))
BY DEF AtMost

LEMMA InitInv == Init => FollowInv
<1> SUFFICES ASSUME Init PROVE FollowInv
  OBVIOUS
<1>1. TypeOK
  <2>1. [c \in Channels |-> [follower |-> FALSE, misses |-> 0, missAge |-> Spacing]]
          \in [Channels -> Rows]
    BY Numbers DEF Rows
  <2>2. NoDecision \in Decisions
    BY Numbers DEF NoDecision, Decisions
  <2>3. moves \in 0..MaxMoves /\ faults \in 0..MaxFaults
    BY FollowProbeAssumption DEF Init
  <2>4. /\ row \in [Probes -> [Channels -> Rows]] /\ decision \in [Probes -> Decisions]
        /\ following \subseteq Channels /\ event \subseteq Channels
        /\ lied \in BOOLEAN /\ cut \in BOOLEAN /\ overwrote \in BOOLEAN
        /\ unsynced \in BOOLEAN
    BY <2>1, <2>2 DEF Init
  <2>5. /\ follower \in [Channels -> BOOLEAN] /\ misses \in [Channels -> 0..(Confirmations - 1)]
        /\ missAge \in [Channels -> 0..Spacing] /\ tried \in [Channels -> BOOLEAN]
        /\ probed \in [Channels -> {"never", "fresh", "stale"}]
        /\ queued \in Nat /\ booked \in [1..Spacing -> Nat]
    BY Numbers DEF Init
  <2>6. /\ pc \in [Probes -> Places] /\ todo \in [Probes -> SUBSET Channels]
        /\ channel \in [Probes -> SUBSET Channels] /\ touched \in [Probes -> SUBSET Channels]
        /\ awaiting \in [Probes -> BOOLEAN] /\ changed \in [Probes -> BOOLEAN]
    BY DEF Init, Places
  <2>7. /\ told \subseteq Channels /\ silent \subseteq Channels
        /\ denials \in [Channels -> 0..Confirmations] /\ denialAge \in [Channels -> 0..Spacing]
    BY Numbers DEF Init
  <2> QED  BY <2>3, <2>4, <2>5, <2>6, <2>7 DEF TypeOK, Places, Decisions
<1>2. Placed /\ RowCurrent /\ Decided
  BY DEF Init, Placed, RowCurrent, Decided, Running
<1>3. NoMiss /\ Doubted /\ ChangeAnnounced
  BY DEF Init, NoMiss, Doubted, ChangeAnnounced
<1>4. Counted
  BY Numbers DEF Init, Counted
<1> QED  BY <1>1, <1>2, <1>3, <1>4 DEF FollowInv, Bookkept

-----------------------------------------------------------------------------
(* Type correctness, action by action.  *)

LEMMA StartType == ASSUME TypeOK, NEW p \in Probes, Start(p) PROVE TypeOK'
<1>1. [c \in Channels |-> [follower |-> follower[c], misses |-> misses[c],
                           missAge |-> missAge[c]]] \in [Channels -> Rows]
  BY DEF TypeOK, Rows
<1>2. row' \in [Probes -> [Channels -> Rows]]
  BY <1>1 DEF TypeOK, Start
<1>3. queued' \in Nat
  BY DEF TypeOK, Start
<1>4. /\ pc' \in [Probes -> Places] /\ todo' \in [Probes -> SUBSET Channels]
      /\ touched' \in [Probes -> SUBSET Channels]
  BY DEF TypeOK, Start, Goto, Places
<1>5. UNCHANGED <<following, event, follower, misses, missAge, probed, tried, booked, channel,
                  decision, awaiting, changed, told, denials, denialAge, silent, lied, cut,
                  overwrote, unsynced, moves, faults>>
  BY DEF Start, kick, cache, flags, budgets
<1> QED  BY <1>2, <1>3, <1>4, <1>5 DEF TypeOK, Places

(* A denial that is noted.  *)
LEMMA NoteType ==
  ASSUME TypeOK, NEW c \in Channels, NEW yes \in BOOLEAN, NoteDenial(c, yes)
  PROVE  /\ denials' \in [Channels -> 0..Confirmations]
         /\ denialAge' \in [Channels -> 0..Spacing]
         /\ \A e \in Channels : denials'[e] >= denials[e]
<1>1. CASE ~yes /\ denialAge[c] >= Spacing
  <2>1. denials[c] + 1 \in Nat /\ denials[c] \in 0..Confirmations
    BY DEF TypeOK
  <2>2. AtMost(denials[c] + 1, Confirmations) \in 0..Confirmations
        /\ AtMost(denials[c] + 1, Confirmations) >= denials[c]
    BY <2>1, Numbers DEF AtMost
  <2>3. /\ denials' = [denials EXCEPT ![c] = AtMost(denials[c] + 1, Confirmations)]
        /\ denialAge' = [denialAge EXCEPT ![c] = 0]
    BY <1>1 DEF NoteDenial
  <2>4. denials' \in [Channels -> 0..Confirmations] /\ denialAge' \in [Channels -> 0..Spacing]
    BY <2>2, <2>3, Numbers DEF TypeOK
  <2>5. \A e \in Channels : denials'[e] >= denials[e]
    BY <2>1, <2>2, <2>3 DEF TypeOK
  <2> QED  BY <2>4, <2>5
<1>2. CASE ~(~yes /\ denialAge[c] >= Spacing)
  BY <1>2 DEF NoteDenial, TypeOK
<1> QED  BY <1>1, <1>2

(* What a question about c changes, whatever the answer.  *)
AskAbout(p, c) ==
  /\ pc[p] = "ask" /\ c \in todo[p]
  /\ todo' = [todo EXCEPT ![p] = todo[p] \ {c}]
  /\ UNCHANGED <<following, event, queued, booked, row, told, cut, overwrote, unsynced,
                 follower, misses, missAge, probed, touched>>
  /\ lied' \in BOOLEAN /\ moves' \in 0..MaxMoves /\ faults' \in 0..MaxFaults

LEMMA AskCases ==
  ASSUME TypeOK, NEW p \in Probes, Ask(p)
  PROVE  \E c \in Channels :
           /\ AskAbout(p, c)
           /\ (\E yes \in BOOLEAN : Usable(p, c, yes)) \/ Unavailable(p, c)
<1>1. PICK c \in todo[p] :
        /\ todo' = [todo EXCEPT ![p] = @ \ {c}]
        /\ \/ /\ Usable(p, c, c \in following)
              /\ UNCHANGED <<lied, budgets>>
           \/ /\ Usable(p, c, c \notin following)
              /\ lied' = TRUE /\ Fault
           \/ Unavailable(p, c) /\ UNCHANGED lied /\ Fault
  BY DEF Ask
<1>2. (\E yes \in BOOLEAN : Usable(p, c, yes)) \/ Unavailable(p, c)
  <2> DEFINE right == c \in following
             wrong == c \notin following
  <2>1. right \in BOOLEAN /\ wrong \in BOOLEAN
    OBVIOUS
  <2>2. Usable(p, c, right) \/ Usable(p, c, wrong) \/ Unavailable(p, c)
    BY <1>1
  <2> HIDE DEF right, wrong
  <2> QED  BY <2>1, <2>2
<1>3. UNCHANGED <<follower, misses, missAge, probed, touched>>
  BY <1>1 DEF Usable, Unavailable, cache
<1>4. Fault \/ UNCHANGED budgets
  BY <1>1
<1>5. moves' \in 0..MaxMoves /\ faults' \in 0..MaxFaults
  BY <1>4, FollowProbeAssumption DEF TypeOK, Fault, budgets
<1>6. lied' \in BOOLEAN
  BY <1>1 DEF TypeOK
<1>7. /\ UNCHANGED <<following, event, queued, booked, row, told, cut, overwrote, unsynced>>
      /\ pc[p] = "ask" /\ c \in Channels
  BY DEF Ask, kick, jobs, TypeOK
<1> QED  BY <1>1, <1>2, <1>3, <1>5, <1>6, <1>7 DEF AskAbout

LEMMA AskType == ASSUME TypeOK, NEW p \in Probes, Ask(p) PROVE TypeOK'
<1>1. PICK c \in Channels :
        /\ AskAbout(p, c)
        /\ (\E yes \in BOOLEAN : Usable(p, c, yes)) \/ Unavailable(p, c)
  BY AskCases
<1> USE <1>1 DEF AskAbout
<1>2. todo' \in [Probes -> SUBSET Channels]
  BY DEF TypeOK
<1>3. CASE \E yes \in BOOLEAN : Usable(p, c, yes)
  <2>1. PICK yes \in BOOLEAN : Usable(p, c, yes)
    BY <1>3
  <2>2. Decide(row[p][c], yes) \in Decisions
    BY <1>1, DecideType DEF TypeOK
  <2>3. decision' \in [Probes -> Decisions]
    BY <2>1, <2>2 DEF Usable, TypeOK, Decisions
  <2>4. changed' \in [Probes -> BOOLEAN]
    BY <2>1 DEF Usable, TypeOK, Changes
  <2>5. awaiting' \in [Probes -> BOOLEAN]
    BY <2>1 DEF Usable, TypeOK
  <2>6. denials' \in [Channels -> 0..Confirmations] /\ denialAge' \in [Channels -> 0..Spacing]
    BY <1>1, <2>1, NoteType DEF Usable
  <2>7. /\ channel' \in [Probes -> SUBSET Channels] /\ silent' \subseteq Channels
        /\ pc' \in [Probes -> Places] /\ tried' = tried
    BY <1>1, <2>1 DEF Usable, TypeOK, Goto, Places, cache
  <2> QED  BY <1>1, <1>2, <2>3, <2>4, <2>5, <2>6, <2>7 DEF TypeOK, Places, Decisions
<1>4. CASE Unavailable(p, c)
  <2>1. tried' \in [Channels -> BOOLEAN] /\ silent' \subseteq Channels
    BY <1>1, <1>4 DEF Unavailable, TypeOK
  <2>2. UNCHANGED <<pc, channel, decision, awaiting, changed, denials, denialAge>>
    BY <1>4 DEF Unavailable
  <2> QED  BY <1>1, <1>2, <2>1, <2>2 DEF TypeOK
<1> QED  BY <1>1, <1>3, <1>4

(* What a run writes.  *)
WriteRow(p, c) ==
  /\ c \in channel[p] /\ pc[p] = "apply"
  /\ follower' = [follower EXCEPT ![c] = decision[p].follower]
  /\ misses' = [misses EXCEPT ![c] = decision[p].misses]
  /\ missAge' = [missAge EXCEPT ![c] = IF decision[p].counts THEN 0 ELSE missAge[c]]
  /\ probed' = [probed EXCEPT ![c] = "fresh"]
  /\ tried' = [tried EXCEPT ![c] = TRUE]
  /\ overwrote' = (overwrote \/ c \in touched[p])
  /\ Touch({p}, {c})
  /\ unsynced' = (unsynced \/ decision[p].follower # follower[c])
  /\ IF decision[p].misses = 0
     THEN /\ denials' = [denials EXCEPT ![c] = 0]
          /\ denialAge' = [denialAge EXCEPT ![c] = Spacing]
     ELSE UNCHANGED <<denials, denialAge>>
  /\ channel' = [channel EXCEPT ![p] = {}]
  /\ decision' = [decision EXCEPT ![p] = NoDecision]
  /\ Goto(p, "ask")
  /\ UNCHANGED <<following, event, queued, booked, todo, row, awaiting, changed, told,
                 silent, lied, cut, moves, faults>>

LEMMA ApplyCases ==
  ASSUME TypeOK, NEW p \in Probes, Apply(p)
  PROVE  \E c \in Channels : WriteRow(p, c)
BY DEF Apply, WriteRow, TypeOK, kick, jobs, budgets

LEMMA ApplyType == ASSUME TypeOK, NEW p \in Probes, Apply(p) PROVE TypeOK'
<1>1. PICK c \in Channels : WriteRow(p, c)
  BY ApplyCases
<1> USE <1>1 DEF WriteRow
<1>2. decision[p] \in Decisions /\ NoDecision \in Decisions
  BY Numbers DEF TypeOK, Decisions, NoDecision
<1>3. follower' \in [Channels -> BOOLEAN] /\ tried' \in [Channels -> BOOLEAN]
  BY <1>1, <1>2 DEF TypeOK, Decisions
<1>4. misses' \in [Channels -> 0..(Confirmations - 1)] /\ missAge' \in [Channels -> 0..Spacing]
  BY <1>1, <1>2, Numbers DEF TypeOK, Decisions
<1>5. probed' \in [Channels -> {"never", "fresh", "stale"}] /\ pc' \in [Probes -> Places]
  BY <1>1 DEF TypeOK, Goto, Places
<1>6. touched' \in [Probes -> SUBSET Channels] /\ channel' \in [Probes -> SUBSET Channels]
  BY <1>1, TouchType DEF TypeOK
<1>7. overwrote' \in BOOLEAN /\ unsynced' \in BOOLEAN
  BY <1>1
<1>8. denials' \in [Channels -> 0..Confirmations] /\ denialAge' \in [Channels -> 0..Spacing]
  <2>1. CASE decision[p].misses = 0
    BY <2>1, Numbers DEF TypeOK
  <2>2. CASE decision[p].misses # 0
    BY <2>2 DEF TypeOK
  <2> QED  BY <2>1, <2>2
<1>9. decision' \in [Probes -> Decisions]
  BY <1>1, <1>2 DEF TypeOK, Decisions
<1> QED  BY <1>1, <1>3, <1>4, <1>5, <1>6, <1>7, <1>8, <1>9 DEF TypeOK, Places, Decisions

LEMMA RestType ==
  ASSUME TypeOK, NEW p \in Probes,
         CheckQueue(p) \/ Book(p) \/ Announce(p) \/ CutShort(p)
  PROVE  TypeOK'
<1>1. CASE CheckQueue(p)
  <2>1. pc' \in [Probes -> Places]
    BY <1>1 DEF TypeOK, CheckQueue, Goto, Places
  <2> QED  BY <1>1, <2>1
           DEF CheckQueue, TypeOK, Places, kick, cache, jobs, local, clues, flags, budgets
<1>2. CASE Book(p)
  <2>1. pc' \in [Probes -> Places]
    BY <1>2 DEF TypeOK, Book, Goto, Places
  <2>2. booked' \in [1..Spacing -> Nat]
    <3>1. booked[Spacing] + 1 \in Nat
      BY Numbers DEF TypeOK
    <3> QED  BY <1>2, <3>1 DEF TypeOK, Book
  <2> QED  BY <1>2, <2>1, <2>2
           DEF Book, TypeOK, Places, kick, cache, local, clues, flags, budgets
<1>3. CASE Announce(p)
  <2>1. unsynced' \in BOOLEAN
    BY <1>3 DEF Announce
  <2>2. Leave(p)
    BY <1>3 DEF Announce
  <2> QED  BY <1>3, <2>1, <2>2, LeaveType
           DEF Announce, TypeOK, Places, Decisions, kick, cache, jobs, clues, flags, budgets
<1>4. CASE CutShort(p)
  <2>1. queued' \in Nat /\ cut' \in BOOLEAN
    BY <1>4 DEF CutShort, TypeOK
  <2>2. Leave(p) /\ moves' \in 0..MaxMoves /\ faults' \in 0..MaxFaults
    BY <1>4, FollowProbeAssumption DEF CutShort, Fault, TypeOK
  <2> QED  BY <1>4, <2>1, <2>2, LeaveType
           DEF CutShort, TypeOK, Places, Decisions, kick, cache, clues
<1> QED  BY <1>1, <1>2, <1>3, <1>4

LEMMA OutsideType ==
  ASSUME TypeOK, Reconcile \/ Recheck \/ \E c \in Channels : Follow(c) \/ Unfollow(c) \/ Ripen(c)
  PROVE  TypeOK'
<1>1. CASE Reconcile
  <2>1. queued' \in Nat
    BY <1>1 DEF TypeOK, Reconcile
  <2> QED  BY <1>1, <2>1
           DEF Reconcile, TypeOK, kick, cache, local, clues, flags, budgets
<1>2. CASE Recheck
  <2>1. queued' \in Nat /\ moves' \in 0..MaxMoves /\ faults' = faults
    BY <1>2, FollowProbeAssumption DEF TypeOK, Recheck, Move
  <2> QED  BY <1>2, <2>1 DEF Recheck, TypeOK, kick, cache, local, clues, flags
<1>3. ASSUME NEW c \in Channels, Follow(c) \/ Unfollow(c) PROVE TypeOK'
  <2>1. moves' \in 0..MaxMoves /\ faults' = faults
    <3>1. Move
      BY <1>3 DEF Follow, Unfollow
    <3> QED  BY <3>1, FollowProbeAssumption DEF TypeOK, Move
  <2>2. following' \subseteq Channels /\ event' \subseteq Channels /\ told' \subseteq Channels
    BY <1>3 DEF TypeOK, Follow, Unfollow, clues
  <2>3. UNCHANGED <<cache, jobs, pc, local, touched, denials, denialAge, silent, flags, unsynced>>
    BY <1>3 DEF Follow, Unfollow, clues
  <2> QED  BY <2>1, <2>2, <2>3 DEF TypeOK, cache, jobs, local, flags
<1>4. ASSUME NEW c \in Channels, Ripen(c) PROVE TypeOK'
  <2>1. probed' \in [Channels -> {"never", "fresh", "stale"}] /\ tried' \in [Channels -> BOOLEAN]
    <3>1. CASE probed' = [probed EXCEPT ![c] = "stale"] /\ tried' = tried
      BY <3>1 DEF TypeOK
    <3>2. CASE tried' = [tried EXCEPT ![c] = FALSE] /\ probed' = probed
      BY <3>2 DEF TypeOK
    <3> QED  BY <1>4, <3>1, <3>2 DEF Ripen
  <2> QED  BY <1>4, <2>1 DEF Ripen, TypeOK, kick, jobs, local, clues, flags, budgets
<1> QED  BY <1>1, <1>2, <1>3, <1>4

LEMMA FollowedType == ASSUME TypeOK, NEW c \in Channels, Followed(c) PROVE TypeOK'
<1>1. follower' \in [Channels -> BOOLEAN] /\ unsynced' \in BOOLEAN
  BY DEF TypeOK, Followed
<1>2. event' \subseteq Channels /\ told' \subseteq Channels
  BY DEF TypeOK, Followed
<1>3. touched' \in [Probes -> SUBSET Channels]
  BY TouchType DEF Followed
<1> QED  BY <1>1, <1>2, <1>3 DEF TypeOK, Followed, jobs, local, flags, budgets

LEMMA TickType == ASSUME TypeOK, Tick PROVE TypeOK'
<1>1. \A n \in 0..Spacing : AtMost(n + 1, Spacing) \in 0..Spacing
  BY Numbers DEF AtMost
<1>2. missAge' \in [Channels -> 0..Spacing] /\ denialAge' \in [Channels -> 0..Spacing]
  BY <1>1 DEF TypeOK, Tick, Older
<1>3. row' \in [Probes -> [Channels -> Rows]]
  <2>1. \A r \in Rows : [r EXCEPT !.missAge = AtMost(r.missAge + 1, Spacing)] \in Rows
    BY <1>1 DEF Rows
  <2> QED  BY <2>1 DEF TypeOK, Tick, Older
<1>4. queued' \in Nat /\ booked' \in [1..Spacing -> Nat]
  <2>1. \A k \in 1..Spacing : (IF k < Spacing THEN booked[k + 1] ELSE 0) \in Nat
    BY Numbers DEF TypeOK
  <2>2. 1 \in 1..Spacing
    BY FollowProbeAssumption
  <2>3. queued + booked[1] \in Nat
    <3>1. queued \in Nat /\ booked[1] \in Nat
      BY <2>2 DEF TypeOK
    <3> QED  BY <3>1
  <2> QED  BY <2>1, <2>3 DEF Tick
<1> QED  BY <1>2, <1>3, <1>4 DEF TypeOK, Tick, kick, flags, budgets

LEMMA StepType == TypeOK /\ [Next]_vars => TypeOK'
<1> SUFFICES ASSUME TypeOK, [Next]_vars PROVE TypeOK'
  OBVIOUS
<1>1. CASE UNCHANGED vars
  BY <1>1 DEF TypeOK, vars, kick, cache, jobs, local, clues, flags, budgets
<1>2. CASE Next
  BY <1>2, StartType, AskType, ApplyType, RestType, OutsideType, FollowedType, TickType
     DEF Next, RunStep
<1> QED  BY <1>1, <1>2

-----------------------------------------------------------------------------
(* The bookkeeping, action by action.  *)

LEMMA StartKeeps == ASSUME FollowInv, NEW p \in Probes, Start(p) PROVE Bookkept'
<1> USE DEF FollowInv, Bookkept
<1>1. /\ pc[p] = "idle" /\ pc' = [pc EXCEPT ![p] = "ask"]
      /\ row' = [row EXCEPT ![p] = [c \in Channels |->
                  [follower |-> follower[c], misses |-> misses[c], missAge |-> missAge[c]]]]
      /\ todo' = [todo EXCEPT ![p] = Channels]
      /\ touched' = [touched EXCEPT ![p] = {}]
      /\ UNCHANGED <<follower, misses, missAge, booked, channel, decision, awaiting, changed,
                     denials, denialAge, silent, cut, overwrote, unsynced>>
  BY DEF Start, Goto, cache, flags
<1>2. /\ pc'[p] = "ask" /\ todo'[p] = Channels
      /\ \A q \in Probes \ {p} : /\ pc'[q] = pc[q] /\ todo'[q] = todo[q]
                                 /\ row'[q] = row[q] /\ touched'[q] = touched[q]
  BY <1>1 DEF TypeOK
<1>3. Placed'
  BY <1>1, <1>2 DEF Placed
<1>4. RowCurrent'
  <2> SUFFICES ASSUME NEW q \in Running', NEW c \in Channels,
                      c \in (todo'[q] \cup channel'[q]) \ touched'[q]
               PROVE  /\ row'[q][c].follower = follower[c] /\ row'[q][c].misses = misses[c]
                      /\ row'[q][c].missAge = missAge[c]
    BY <1>1 DEF RowCurrent
  <2>1. CASE q = p
    BY <1>1, <2>1 DEF TypeOK
  <2>2. CASE q # p
    BY <1>1, <1>2, <2>2 DEF RowCurrent, Running
  <2> QED  BY <2>1, <2>2
<1>5. Decided'
  BY <1>1, <1>2 DEF Decided
<1>6. NoMiss' /\ Counted'
  BY <1>1 DEF NoMiss, Counted
<1>7. Doubted'
  BY <1>1, <1>2 DEF Doubted, Will
<1>8. ChangeAnnounced'
  BY <1>1, <1>2 DEF ChangeAnnounced, Running
<1> QED  BY <1>3, <1>4, <1>5, <1>6, <1>7, <1>8

LEMMA UsableKeeps ==
  ASSUME FollowInv, NEW p \in Probes, NEW c \in Channels, AskAbout(p, c),
         NEW yes \in BOOLEAN, Usable(p, c, yes)
  PROVE  Bookkept'
<1> USE DEF FollowInv, Bookkept, AskAbout
<1> DEFINE d == Decide(row[p][c], yes)
<1>1. /\ pc' = [pc EXCEPT ![p] = "apply"] /\ channel' = [channel EXCEPT ![p] = {c}]
      /\ decision' = [decision EXCEPT ![p] = d] /\ silent' = silent \ {c}
      /\ UNCHANGED <<follower, misses, missAge, touched>> /\ NoteDenial(c, yes)
  BY DEF Usable, Goto, cache
<1>2. /\ pc'[p] = "apply" /\ channel'[p] = {c} /\ decision'[p] = d
      /\ todo'[p] = todo[p] \ {c}
      /\ \A q \in Probes \ {p} :
           /\ pc'[q] = pc[q] /\ channel'[q] = channel[q] /\ todo'[q] = todo[q]
           /\ decision'[q] = decision[q] /\ awaiting'[q] = awaiting[q]
           /\ changed'[q] = changed[q]
  BY <1>1 DEF TypeOK, Usable
<1>3. /\ changed'[p] = (changed[p] \/ Changes(row[p][c], d))
      /\ awaiting'[p] = (awaiting[p] \/ (d.follower /\ d.misses > 0))
  BY <1>2 DEF TypeOK, Usable
<1>4. d \in Decisions /\ DecidedFrom(row[p][c], d) /\ (d.counts => ~yes /\ Spaced(row[p][c]))
  BY DecideType DEF TypeOK
<1> HIDE DEF d
<1>5. /\ \A e \in Channels : denials'[e] >= denials[e]
      /\ denials' \in [Channels -> 0..Confirmations]
  BY <1>1, NoteType
<1>14. /\ denials \in [Channels -> 0..Confirmations] /\ denialAge \in [Channels -> 0..Spacing]
      /\ missAge \in [Channels -> 0..Spacing] /\ misses \in [Channels -> 0..(Confirmations - 1)]
      /\ row[p][c] \in Rows
  BY DEF TypeOK
<1>15. \A e \in Channels : denials[e] \in Nat /\ denials'[e] \in Nat
  BY <1>5, <1>14, Numbers
<1>6. Placed'
  BY <1>1, <1>2 DEF Placed
<1>7. RowCurrent'
  BY <1>1, <1>2 DEF RowCurrent, Running, Placed
<1>8. NoMiss'
  BY <1>1 DEF NoMiss
<1>9. Doubted'
  <2> SUFFICES ASSUME NEW e \in Channels, follower[e], misses[e] > 0, ~Pending', e \notin silent'
               PROVE  \E q \in Probes : Will(q, e)'
    BY <1>1 DEF Doubted
  <2>1. Pending' = Pending
    BY DEF Pending
  <2>2. CASE e = c
    BY <1>2, <2>2 DEF Will
  <2>3. CASE e # c
    <3>1. PICK q \in Probes : Will(q, e)
      BY <1>1, <2>1, <2>3 DEF Doubted
    <3>2. CASE q = p
      BY <1>2, <1>3, <2>3, <3>1, <3>2 DEF Will, Placed
    <3>3. CASE q # p
      BY <1>2, <3>1, <3>3 DEF Will
    <3> QED  BY <3>2, <3>3
  <2> QED  BY <2>2, <2>3
<1>10. ChangeAnnounced'
  BY <1>1, <1>2, <1>3 DEF ChangeAnnounced, Running
<1>11. ~yes /\ Spaced(row[p][c]) /\ c \notin touched[p] /\ ~overwrote
         => denials'[c] >= row[p][c].misses + 1
  <2> SUFFICES ASSUME ~yes, Spaced(row[p][c]), c \notin touched[p], ~overwrote
               PROVE  denials'[c] >= row[p][c].misses + 1
    OBVIOUS
  <2>1. p \in Running
    BY DEF Running
  <2>2. row[p][c].misses = misses[c] /\ row[p][c].missAge = missAge[c]
    BY <2>1 DEF RowCurrent
  <2>3. missAge[c] >= Spacing /\ misses[c] + 1 <= Confirmations
    BY <1>14, <2>2, Numbers DEF Spaced
  <2>4. denials[c] >= misses[c]
    BY DEF Counted
  <2>5. CASE denialAge[c] >= Spacing
    <3>1. denials'[c] = AtMost(denials[c] + 1, Confirmations)
      BY <1>1, <1>14, <2>5 DEF NoteDenial
    <3> QED  BY <1>14, <2>2, <2>3, <2>4, <3>1, Numbers DEF AtMost
  <2>6. CASE ~(denialAge[c] >= Spacing)
    <3>1. denialAge[c] < missAge[c]
      BY <1>14, <2>3, <2>6, Numbers
    <3>2. denials[c] >= misses[c] + 1
      BY <3>1 DEF Counted
    <3> QED  BY <1>5, <1>14, <1>15, <2>2, <3>2, Numbers
  <2> QED  BY <2>5, <2>6
<1>12. Decided'
  <2> SUFFICES ASSUME NEW q \in Probes, NEW e \in Channels, pc'[q] = "apply", e \in channel'[q]
               PROVE  /\ DecidedFrom(row[q][e], decision'[q])
                      /\ decision'[q].follower # row[q][e].follower => changed'[q]
                      /\ decision'[q].follower /\ decision'[q].misses > 0 => awaiting'[q]
                      /\ decision'[q].counts /\ e \notin touched[q] /\ ~overwrote
                           => denials'[e] >= row[q][e].misses + 1
    BY <1>1 DEF Decided
  <2>1. CASE q = p
    <3>1. e = c
      BY <1>2, <2>1
    <3> QED  BY <1>2, <1>3, <1>4, <1>11, <2>1, <3>1 DEF Changes
  <2>2. CASE q # p
    <3>1. pc[q] = "apply" /\ e \in channel[q]
      BY <1>2, <2>2
    <3>2. row[q][e].misses \in Nat
      BY Numbers DEF TypeOK, Rows
    <3>3. denials[e] >= row[q][e].misses + 1 => denials'[e] >= row[q][e].misses + 1
      BY <1>5, <1>15, <3>2
    <3> QED  BY <1>2, <2>2, <3>1, <3>3 DEF Decided
  <2> QED  BY <2>1, <2>2
<1>13. Counted'
  <2> SUFFICES ASSUME ~overwrote, NEW e \in Channels
               PROVE  /\ denials'[e] >= misses[e]
                      /\ denialAge'[e] < missAge[e] => denials'[e] >= misses[e] + 1
    BY <1>1 DEF Counted
  <2>1. /\ denials[e] >= misses[e]
        /\ denialAge[e] < missAge[e] => denials[e] >= misses[e] + 1
    BY DEF Counted
  <2>2. CASE ~yes /\ denialAge[c] >= Spacing /\ e = c
    <3>1. denials'[c] = AtMost(denials[c] + 1, Confirmations)
      BY <1>1, <1>14, <2>2 DEF NoteDenial
    <3>2. denials[c] \in 0..Confirmations /\ misses[c] \in 0..(Confirmations - 1)
      BY <1>14
    <3> QED  BY <2>1, <2>2, <3>1, <3>2, Numbers DEF AtMost
  <2>3. CASE ~(~yes /\ denialAge[c] >= Spacing /\ e = c)
    <3>1. denials'[e] = denials[e] /\ denialAge'[e] = denialAge[e]
      BY <1>1, <1>14, <2>3 DEF NoteDenial
    <3> QED  BY <2>1, <3>1
  <2> QED  BY <2>2, <2>3
<1> QED  BY <1>6, <1>7, <1>8, <1>9, <1>10, <1>12, <1>13

LEMMA UnavailableKeeps ==
  ASSUME FollowInv, NEW p \in Probes, NEW c \in Channels, AskAbout(p, c), Unavailable(p, c)
  PROVE  Bookkept'
<1> USE DEF FollowInv, Bookkept, AskAbout
<1>1. /\ silent' = silent \cup {c}
      /\ UNCHANGED <<follower, misses, missAge, touched, pc, channel, decision, awaiting, changed,
                     denials, denialAge>>
  BY DEF Unavailable
<1>2. /\ todo'[p] = todo[p] \ {c}
      /\ \A q \in Probes \ {p} : todo'[q] = todo[q]
  BY DEF TypeOK
<1>3. Placed' /\ RowCurrent'
  BY <1>1, <1>2 DEF Placed, RowCurrent, Running
<1>4. Decided' /\ NoMiss' /\ Counted'
  BY <1>1 DEF Decided, NoMiss, Counted
<1>5. Doubted'
  BY <1>1, <1>2 DEF Doubted, Will, Pending
<1>6. ChangeAnnounced'
  BY <1>1 DEF ChangeAnnounced, Running
<1> QED  BY <1>3, <1>4, <1>5, <1>6

LEMMA ApplyKeeps == ASSUME FollowInv, NEW p \in Probes, Apply(p) PROVE Bookkept'
<1>1. PICK c \in Channels : WriteRow(p, c)
  BY ApplyCases DEF FollowInv
<1> USE DEF FollowInv, Bookkept
<1> DEFINE d == decision[p]
           r == row[p][c]
<1>2. /\ pc[p] = "apply" /\ channel[p] = {c} /\ c \notin todo[p]
      /\ pc'[p] = "ask" /\ channel'[p] = {} /\ todo' = todo /\ row' = row
      /\ changed' = changed /\ awaiting' = awaiting /\ booked' = booked
      /\ \A q \in Probes \ {p} :
           pc'[q] = pc[q] /\ channel'[q] = channel[q] /\ decision'[q] = decision[q]
  BY <1>1 DEF WriteRow, Placed, TypeOK, Goto
<1>3. /\ follower'[c] = d.follower /\ misses'[c] = d.misses
      /\ missAge'[c] = IF d.counts THEN 0 ELSE missAge[c]
      /\ \A e \in Channels \ {c} :
           /\ follower'[e] = follower[e] /\ misses'[e] = misses[e] /\ missAge'[e] = missAge[e]
           /\ denials'[e] = denials[e] /\ denialAge'[e] = denialAge[e]
  BY <1>1 DEF WriteRow, TypeOK
<1>4. /\ touched'[p] = touched[p] \/ touched'[p] = touched[p] \cup {c}
      /\ \A q \in Probes \ {p} : pc[q] # "idle" => touched'[q] = touched[q] \cup {c}
      /\ \A q \in Probes : touched[q] \subseteq touched'[q]
  BY <1>1 DEF WriteRow, Touch, TypeOK, Running
<1>5. d \in Decisions /\ r \in Rows /\ overwrote' = (overwrote \/ c \in touched[p])
  BY <1>1 DEF WriteRow, TypeOK, Decisions
<1>6. /\ DecidedFrom(r, d)
      /\ d.follower # r.follower => changed[p]
      /\ d.follower /\ d.misses > 0 => awaiting[p]
      /\ d.counts /\ c \notin touched[p] /\ ~overwrote => denials[c] >= r.misses + 1
  BY <1>2 DEF Decided
<1>7. p \in Running
  BY <1>2 DEF Running
<1>8. c \notin touched[p] => /\ r.follower = follower[c] /\ r.misses = misses[c]
                             /\ r.missAge = missAge[c]
  BY <1>2, <1>7 DEF RowCurrent
<1> HIDE DEF d, r
<1>9. Placed'
  BY <1>2 DEF Placed
<1>10. RowCurrent'
  <2> SUFFICES ASSUME NEW q \in Running', NEW e \in Channels,
                      e \in (todo'[q] \cup channel'[q]) \ touched'[q]
               PROVE  /\ row[q][e].follower = follower'[e] /\ row[q][e].misses = misses'[e]
                      /\ row[q][e].missAge = missAge'[e]
    BY <1>2 DEF RowCurrent
  <2>1. q \in Running /\ e # c
    BY <1>2, <1>4, <1>7 DEF Running
  <2>2. e \in (todo[q] \cup channel[q]) \ touched[q]
    BY <1>2, <1>4 DEF Running
  <2> QED  BY <1>3, <2>1, <2>2 DEF RowCurrent
<1>11. Decided'
  <2> SUFFICES ASSUME NEW q \in Probes, NEW e \in Channels, pc'[q] = "apply", e \in channel'[q]
               PROVE  /\ DecidedFrom(row[q][e], decision'[q])
                      /\ decision'[q].follower # row[q][e].follower => changed[q]
                      /\ decision'[q].follower /\ decision'[q].misses > 0 => awaiting[q]
                      /\ decision'[q].counts /\ e \notin touched'[q] /\ ~overwrote'
                           => denials'[e] >= row[q][e].misses + 1
    BY <1>2 DEF Decided
  <2>1. q # p /\ pc[q] = "apply" /\ e \in channel[q] /\ decision'[q] = decision[q]
    BY <1>2
  <2>2. e \notin touched'[q] /\ ~overwrote' => e # c /\ e \notin touched[q] /\ ~overwrote
    BY <1>4, <1>5, <2>1
  <2> QED  BY <1>3, <2>1, <2>2 DEF Decided
<1>12. NoMiss'
  BY <1>3, <1>6 DEF NoMiss, DecidedFrom
<1>13. Counted'
  <2> SUFFICES ASSUME ~overwrote', NEW e \in Channels
               PROVE  /\ denials'[e] >= misses'[e]
                      /\ denialAge'[e] < missAge'[e] => denials'[e] >= misses'[e] + 1
    BY DEF Counted
  <2>1. ~overwrote /\ c \notin touched[p]
    BY <1>5
  <2>2. /\ denials[e] >= misses[e]
        /\ denialAge[e] < missAge[e] => denials[e] >= misses[e] + 1
    BY <2>1 DEF Counted
  <2>3. CASE e # c
    BY <1>3, <2>2, <2>3
  <2>4. CASE e = c
    <3>1. /\ d.misses \in Nat /\ r.misses \in Nat /\ denials[c] \in Nat
          /\ denialAge[c] \in Nat /\ missAge[c] \in 0..Spacing
      BY <1>5, Numbers DEF TypeOK, Decisions, Rows
    <3>2. CASE d.misses = 0
      <4>1. denials'[c] = 0 /\ denialAge'[c] = Spacing
        BY <1>1, <3>2 DEF WriteRow, TypeOK, d
      <4> QED  BY <1>3, <2>4, <3>1, <3>2, <4>1, Numbers
    <3>3. CASE d.misses # 0
      <4>1. denials'[c] = denials[c] /\ denialAge'[c] = denialAge[c]
        BY <1>1, <3>3 DEF WriteRow, d
      <4>2. d.misses = IF d.counts THEN r.misses + 1 ELSE r.misses
        BY <1>6, <3>1, <3>3 DEF DecidedFrom
      <4>3. CASE d.counts
        BY <1>3, <1>6, <2>1, <2>4, <3>1, <4>1, <4>2, <4>3
      <4>4. CASE ~d.counts
        BY <1>3, <1>8, <2>1, <2>2, <2>4, <4>1, <4>2, <4>4
      <4> QED  BY <4>3, <4>4
    <3> QED  BY <3>2, <3>3
  <2> QED  BY <2>3, <2>4
<1>14. Doubted'
  <2> SUFFICES ASSUME NEW e \in Channels, follower'[e], misses'[e] > 0, ~Pending', e \notin silent'
               PROVE  \E q \in Probes : Will(q, e)'
    BY DEF Doubted
  <2>1. Pending' = Pending /\ silent' = silent
    BY <1>1 DEF WriteRow, Pending
  <2>2. CASE e = c
    <3>1. awaiting'[p]
      BY <1>2, <1>3, <1>6, <2>2
    <3> QED  BY <1>2, <3>1 DEF Will
  <2>3. CASE e # c
    <3>1. PICK q \in Probes : Will(q, e)
      BY <1>3, <2>1, <2>3 DEF Doubted
    <3>2. CASE q = p
      BY <1>2, <2>3, <3>1, <3>2 DEF Will
    <3>3. CASE q # p
      BY <1>2, <3>1, <3>3 DEF Will
    <3> QED  BY <3>2, <3>3
  <2> QED  BY <2>2, <2>3
<1>15. ChangeAnnounced'
  <2>1. cut' = cut /\ unsynced' = (unsynced \/ d.follower # follower[c])
    BY <1>1 DEF WriteRow, d
  <2>2. \A q \in Probes : q \in Running => q \in Running'
    BY <1>2 DEF Running
  <2>3. d.follower # follower[c] /\ ~overwrote' => changed[p]
    BY <1>5, <1>6, <1>8
  <2> QED  BY <1>2, <1>5, <1>7, <2>1, <2>2, <2>3 DEF ChangeAnnounced, Running
<1> QED  BY <1>9, <1>10, <1>11, <1>12, <1>13, <1>14, <1>15

(* Between the last question and the end of the run.  *)
LEMMA CheckKeeps == ASSUME FollowInv, NEW p \in Probes, CheckQueue(p) PROVE Bookkept'
<1> USE DEF FollowInv, Bookkept
<1>1. /\ pc[p] = "ask" /\ todo[p] = {} /\ channel[p] = {}
      /\ UNCHANGED <<cache, jobs, local, clues, flags, unsynced>>
      /\ \A q \in Probes \ {p} : pc'[q] = pc[q]
  BY DEF CheckQueue, Goto, Placed, TypeOK
<1>2. pc'[p] = IF awaiting[p] /\ ~Pending THEN "book" ELSE "announce"
  BY DEF CheckQueue, Goto, AlreadyQueued, TypeOK
<1>3. UNCHANGED <<follower, misses, missAge, queued, booked, todo, row, channel, decision, awaiting,
                  changed, touched, denials, denialAge, silent, cut, overwrote, unsynced>>
  BY <1>1 DEF cache, jobs, local, clues, flags
<1>4. Placed' /\ RowCurrent' /\ Decided'
  BY <1>1, <1>2, <1>3 DEF Placed, RowCurrent, Decided, Running
<1>5. NoMiss' /\ Counted'
  BY <1>3 DEF NoMiss, Counted
<1>6. Doubted'
  BY <1>1, <1>2, <1>3 DEF Doubted, Will, Pending
<1>7. ChangeAnnounced'
  BY <1>1, <1>2, <1>3 DEF ChangeAnnounced, Running
<1> QED  BY <1>4, <1>5, <1>6, <1>7

LEMMA BookKeeps == ASSUME FollowInv, NEW p \in Probes, Book(p) PROVE Bookkept'
<1> USE DEF FollowInv, Bookkept
<1>1. /\ pc[p] = "book" /\ pc'[p] = "announce"
      /\ \A q \in Probes \ {p} : pc'[q] = pc[q]
  BY DEF Book, Goto, TypeOK
<1>2. UNCHANGED <<follower, misses, missAge, queued, todo, row, channel, decision, awaiting,
                  changed, touched, denials, denialAge, silent, cut, overwrote, unsynced>>
  BY DEF Book, cache, local, clues, flags
<1>3. Pending'
  <2>1. booked[Spacing] \in Nat /\ booked'[Spacing] = booked[Spacing] + 1
    BY Numbers DEF Book, TypeOK
  <2> QED  BY <2>1, Numbers DEF Pending
<1>4. Placed' /\ RowCurrent' /\ Decided'
  BY <1>1, <1>2 DEF Placed, RowCurrent, Decided, Running
<1>5. NoMiss' /\ Counted'
  BY <1>2 DEF NoMiss, Counted
<1>6. Doubted' /\ ChangeAnnounced'
  BY <1>1, <1>2, <1>3 DEF Doubted, ChangeAnnounced, Running
<1> QED  BY <1>4, <1>5, <1>6

(* A run that leaves takes its local state with it.  *)
LEMMA LeaveKeeps ==
  ASSUME FollowInv, NEW p \in Probes, Leave(p),
         UNCHANGED <<follower, misses, missAge, touched, denials, denialAge, silent, overwrote>>
  PROVE  Placed' /\ RowCurrent' /\ Decided' /\ NoMiss' /\ Counted'
<1> USE DEF FollowInv, Bookkept
<1>1. /\ pc'[p] = "idle" /\ channel'[p] = {}
      /\ \A q \in Probes \ {p} :
           /\ pc'[q] = pc[q] /\ channel'[q] = channel[q] /\ todo'[q] = todo[q]
           /\ row'[q] = row[q] /\ decision'[q] = decision[q] /\ awaiting'[q] = awaiting[q]
           /\ changed'[q] = changed[q]
  BY DEF Leave, Goto, TypeOK
<1>2. Placed'
  BY <1>1 DEF Placed
<1>3. RowCurrent'
  BY <1>1 DEF RowCurrent, Running
<1>4. Decided'
  BY <1>1 DEF Decided
<1> QED  BY <1>2, <1>3, <1>4 DEF NoMiss, Counted

LEMMA AnnounceKeeps == ASSUME FollowInv, NEW p \in Probes, Announce(p) PROVE Bookkept'
<1> USE DEF FollowInv, Bookkept
<1>1. /\ pc[p] = "announce" /\ Leave(p) /\ unsynced' = (unsynced /\ ~changed[p])
      /\ UNCHANGED <<follower, misses, missAge, queued, booked, touched, denials, denialAge,
                     silent, cut, overwrote>>
  BY DEF Announce, cache, jobs, clues, flags
<1>2. \A q \in Probes \ {p} :
        /\ pc'[q] = pc[q] /\ channel'[q] = channel[q] /\ todo'[q] = todo[q]
        /\ awaiting'[q] = awaiting[q] /\ changed'[q] = changed[q]
  BY <1>1 DEF Leave, Goto, TypeOK
<1>3. Placed' /\ RowCurrent' /\ Decided' /\ NoMiss' /\ Counted'
  BY <1>1, LeaveKeeps
<1>4. Doubted'
  BY <1>1, <1>2 DEF Doubted, Will, Pending
<1>5. ChangeAnnounced'
  BY <1>1, <1>2 DEF ChangeAnnounced, Running
<1> QED  BY <1>3, <1>4, <1>5

LEMMA CutKeeps == ASSUME FollowInv, NEW p \in Probes, CutShort(p) PROVE Bookkept'
<1> USE DEF FollowInv, Bookkept
<1>1. /\ Leave(p) /\ queued' = queued + 1 /\ cut'
      /\ UNCHANGED <<follower, misses, missAge, touched, denials, denialAge, silent, overwrote>>
  BY DEF CutShort, cache, clues
<1>2. Placed' /\ RowCurrent' /\ Decided' /\ NoMiss' /\ Counted'
  BY <1>1, LeaveKeeps
<1>3. queued \in Nat
  BY DEF TypeOK
<1> QED  BY <1>1, <1>2, <1>3 DEF Doubted, ChangeAnnounced, Pending

(* Steps that leave the rows, the runs and the notes of them alone; a job  *)
(* may be queued.                                                          *)
LEMMA OutsideKeeps ==
  ASSUME FollowInv, UNCHANGED <<pc, local, follower, misses, missAge, touched, denials, denialAge,
                                silent, cut, overwrote, unsynced>>,
         Pending => Pending'
  PROVE  Bookkept'
<1> USE DEF FollowInv, Bookkept, local
<1>1. Placed' /\ RowCurrent' /\ Decided' /\ NoMiss' /\ Counted'
  BY DEF Placed, RowCurrent, Decided, NoMiss, Counted, Running
<1>2. Doubted' /\ ChangeAnnounced'
  BY DEF Doubted, Will, ChangeAnnounced, Running
<1> QED  BY <1>1, <1>2

(* The event sets one flag.  *)
LEMMA FollowedFlags ==
  ASSUME TypeOK, NEW c \in Channels, Followed(c)
  PROVE  /\ follower'[c]
         /\ \A e \in Channels : e # c => follower'[e] = follower[e]
<1>1. follower \in [Channels -> BOOLEAN]
  BY DEF TypeOK
<1>2. follower' = [follower EXCEPT ![c] = TRUE]
  BY DEF Followed
<1>3. follower'[c]
  BY <1>1, <1>2
<1>4. ASSUME NEW e \in Channels, e # c PROVE follower'[e] = follower[e]
  BY <1>1, <1>2, <1>4
<1> QED  BY <1>3, <1>4

LEMMA FollowedKeeps == ASSUME FollowInv, NEW c \in Channels, Followed(c) PROVE Bookkept'
<1>0. \A e \in Channels : e # c => follower'[e] = follower[e]
  BY FollowedFlags DEF FollowInv
<1> USE DEF FollowInv, Bookkept
<1>1. /\ follower' = [follower EXCEPT ![c] = TRUE] /\ ~unsynced'
      /\ UNCHANGED <<misses, missAge, queued, booked, pc, todo, row, channel, decision, awaiting,
                     changed, denials, denialAge, silent, cut, overwrote>>
      /\ Touch({}, {c})
  BY DEF Followed, jobs, local, flags
<1>2. /\ \A q \in Running : touched'[q] = touched[q] \cup {c}
      /\ \A q \in Probes : touched[q] \subseteq touched'[q]
  BY <1>1 DEF Touch, Running
<1>3. Placed' /\ NoMiss' /\ Counted' /\ ChangeAnnounced'
  BY <1>1 DEF Placed, NoMiss, Counted, ChangeAnnounced, TypeOK
<1>4. RowCurrent'
  <2>1. Running' = Running
    BY <1>1 DEF Running
  <2> SUFFICES ASSUME NEW q \in Running, NEW e \in Channels,
                      e \in (todo[q] \cup channel[q]) \ touched'[q]
               PROVE  /\ row[q][e].follower = follower'[e] /\ row[q][e].misses = misses[e]
                      /\ row[q][e].missAge = missAge[e]
    BY <1>1, <2>1 DEF RowCurrent
  <2>2. e # c /\ e \notin touched[q]
    BY <1>2 DEF Running
  <2>3. /\ row[q][e].follower = follower[e] /\ row[q][e].misses = misses[e]
        /\ row[q][e].missAge = missAge[e]
    BY <2>2 DEF RowCurrent
  <2> QED  BY <1>0, <2>2, <2>3
<1>5. Decided'
  BY <1>1, <1>2 DEF Decided
<1>6. Doubted'
  <2> SUFFICES ASSUME NEW e \in Channels, follower'[e], misses[e] > 0, ~Pending, e \notin silent
               PROVE  \E q \in Probes : Will(q, e)
    BY <1>1 DEF Doubted, Will, Pending
  <2>1. follower[e]
    BY DEF NoMiss
  <2> QED  BY <2>1 DEF Doubted
<1> QED  BY <1>3, <1>4, <1>5, <1>6

LEMMA TickKeeps == ASSUME FollowInv, Tick PROVE Bookkept'
<1> USE DEF FollowInv, Bookkept
<1>1. /\ missAge' = [c \in Channels |-> Older(missAge[c])]
      /\ denialAge' = [c \in Channels |-> Older(denialAge[c])]
      /\ UNCHANGED <<follower, misses, pc, todo, channel, decision, awaiting, changed, touched,
                     denials, silent, cut, overwrote, unsynced>>
  BY DEF Tick, flags
<1>2. \A p \in Probes, c \in Channels :
        /\ row'[p][c].follower = row[p][c].follower /\ row'[p][c].misses = row[p][c].misses
        /\ row'[p][c].missAge = Older(row[p][c].missAge)
  <2> SUFFICES ASSUME NEW p \in Probes, NEW c \in Channels
               PROVE  /\ row'[p][c].follower = row[p][c].follower
                      /\ row'[p][c].misses = row[p][c].misses
                      /\ row'[p][c].missAge = Older(row[p][c].missAge)
    OBVIOUS
  <2>1. row[p][c] \in Rows
    BY DEF TypeOK
  <2>2. row'[p][c] = [row[p][c] EXCEPT !.missAge = Older(row[p][c].missAge)]
    BY DEF Tick
  <2> QED  BY <2>1, <2>2 DEF Rows
<1>3. \A m, n \in 0..Spacing : Older(m) < Older(n) => m < n
  BY Numbers DEF Older, AtMost
<1>4. Placed' /\ NoMiss'
  BY <1>1 DEF Placed, NoMiss
<1>5. RowCurrent'
  BY <1>1, <1>2 DEF RowCurrent, Running
<1>6. Decided'
  BY <1>1, <1>2 DEF Decided, DecidedFrom
<1>7. Counted'
  BY <1>1, <1>3 DEF Counted, TypeOK
<1>8. Pending => Pending'
  <2>1. queued \in Nat /\ booked \in [1..Spacing -> Nat]
    BY DEF TypeOK
  <2>2. 1 \in 1..Spacing
    BY FollowProbeAssumption
  <2>3. queued' = queued + booked[1]
    BY DEF Tick
  <2>4. CASE queued > 0 \/ booked[1] > 0
    BY <2>1, <2>2, <2>3, <2>4 DEF Pending
  <2>5. ASSUME NEW k \in 1..Spacing, k # 1, booked[k] > 0 PROVE Pending'
    <3>1. k - 1 \in 1..Spacing /\ k - 1 < Spacing /\ (k - 1) + 1 = k
      BY <2>5, Numbers
    <3>2. booked'[k - 1] = booked[k]
      BY <3>1 DEF Tick
    <3> QED  BY <2>5, <3>1, <3>2 DEF Pending
  <2> QED  BY <2>4, <2>5 DEF Pending
<1>9. Doubted'
  BY <1>1, <1>8 DEF Doubted, Will
<1>10. ChangeAnnounced'
  BY <1>1 DEF ChangeAnnounced, Running
<1> QED  BY <1>4, <1>5, <1>6, <1>7, <1>9, <1>10

LEMMA StepKeeps == FollowInv /\ [Next]_vars => FollowInv'
<1> SUFFICES ASSUME FollowInv, [Next]_vars PROVE Bookkept'
  BY StepType DEF FollowInv
<1>1. ASSUME NEW p \in Probes, Ask(p) PROVE Bookkept'
  BY <1>1, AskCases, UsableKeeps, UnavailableKeeps DEF FollowInv
<1>2. CASE Reconcile \/ Recheck
  <2>1. queued \in Nat
    BY DEF FollowInv, TypeOK
  <2>2. queued' = queued + 1
    BY <1>2 DEF Reconcile, Recheck
  <2>3. Pending'
    BY <2>1, <2>2 DEF Pending
  <2>4. UNCHANGED <<pc, local, follower, misses, missAge, touched, denials, denialAge, silent, cut,
                    overwrote, unsynced>>
    BY <1>2 DEF Reconcile, Recheck, cache, clues, flags
  <2> QED  BY <2>3, <2>4, OutsideKeeps
<1>3. ASSUME NEW c \in Channels, Follow(c) \/ Unfollow(c) \/ Ripen(c) PROVE Bookkept'
  <2>1. UNCHANGED <<queued, booked, pc, local, follower, misses, missAge, touched, denials,
                    denialAge, silent, cut, overwrote, unsynced>>
    BY <1>3 DEF Follow, Unfollow, Ripen, cache, jobs, clues, flags
  <2> QED  BY <2>1, OutsideKeeps DEF Pending
<1>4. CASE UNCHANGED vars
  <2>1. UNCHANGED <<queued, booked, pc, local, follower, misses, missAge, touched, denials,
                    denialAge, silent, cut, overwrote, unsynced>>
    BY <1>4 DEF vars, cache, jobs, clues, flags
  <2> QED  BY <2>1, OutsideKeeps DEF Pending
<1> QED  BY <1>1, <1>2, <1>3, <1>4, StartKeeps, ApplyKeeps, CheckKeeps, BookKeeps, AnnounceKeeps,
            CutKeeps, FollowedKeeps, TickKeeps
         DEF Next, RunStep

-----------------------------------------------------------------------------
THEOREM FollowsKept == Spec => []FollowInv
<1>1. Init => FollowInv
  BY InitInv
<1> QED  BY <1>1, StepKeeps, PTL DEF Spec

(* Type correctness: the stored count stays below the number that removes. *)
THEOREM ProbeTypes == Spec => []TypeOK
<1>1. FollowInv => TypeOK
  BY DEF FollowInv
<1> QED  BY <1>1, FollowsKept, PTL

(* A change of the flag is followed by a player_sync (follow_sync.rs, the  *)
(* end of a run).                                                          *)
THEOREM ChangesAnnounced == Spec => []ChangeAnnounced
<1>1. FollowInv => ChangeAnnounced
  BY DEF FollowInv, Bookkept
<1> QED  BY <1>1, FollowsKept, PTL

(* A follow in doubt has its next observation booked or a run on its way.  *)
THEOREM DoubtsBooked == Spec => []DoubtIsBooked
<1>1. FollowInv => DoubtIsBooked
  BY DEF FollowInv, Bookkept, Doubted, DoubtIsBooked, Will, Running
<1> QED  BY <1>1, FollowsKept, PTL

(* Who leaves the flags alone.  *)
LEMMA OthersKeepFlag ==
  /\ \A p \in Probes :
       Start(p) \/ Ask(p) \/ CheckQueue(p) \/ Book(p) \/ Announce(p) \/ CutShort(p)
         => UNCHANGED follower
  /\ Reconcile \/ Recheck \/ Tick => UNCHANGED follower
  /\ \A c \in Channels : Follow(c) \/ Unfollow(c) \/ Ripen(c) => UNCHANGED follower
<1>1. ASSUME NEW p \in Probes, Ask(p) PROVE UNCHANGED follower
  BY <1>1 DEF Ask, Usable, Unavailable, cache
<1>2. ASSUME NEW p \in Probes,
             Start(p) \/ CheckQueue(p) \/ Book(p) \/ Announce(p) \/ CutShort(p)
      PROVE  UNCHANGED follower
  BY <1>2 DEF Start, CheckQueue, Book, Announce, CutShort, cache
<1>3. Reconcile \/ Recheck \/ Tick => UNCHANGED follower
  BY DEF Reconcile, Recheck, Tick, cache
<1>4. ASSUME NEW c \in Channels, Follow(c) \/ Unfollow(c) \/ Ripen(c) PROVE UNCHANGED follower
  BY <1>4 DEF Follow, Unfollow, Ripen, cache
<1> QED  BY <1>1, <1>2, <1>3, <1>4

(* Only a run's write takes a follow away, and it has the denials.         *)
THEOREM RemovalsAreEarned == Spec => RemovalsEarned
<1>1. ASSUME FollowInv, [Next]_vars, NEW c \in Channels, Removed(c), ~overwrote'
      PROVE  denials[c] >= Confirmations
  <2>1. \E p \in Probes : Apply(p)
    <3>1. UNCHANGED follower \/ (\E p \in Probes : Apply(p)) \/ \E e \in Channels : Followed(e)
      BY <1>1, OthersKeepFlag DEF Next, RunStep, vars, cache
    <3>2. ~\E e \in Channels : Followed(e)
      BY <1>1, FollowedFlags DEF Removed, FollowInv
    <3> QED  BY <1>1, <3>1, <3>2 DEF Removed
  <2>2. PICK p \in Probes, e \in Channels : WriteRow(p, e)
    BY <1>1, <2>1, ApplyCases DEF FollowInv
  <2>3. e = c /\ ~decision[p].follower /\ follower[c]
    BY <1>1, <2>2 DEF WriteRow, Removed, FollowInv, TypeOK
  <2>4. c \notin touched[p] /\ ~overwrote /\ pc[p] = "apply" /\ c \in channel[p]
    BY <1>1, <2>2, <2>3 DEF WriteRow
  <2>5. row[p][c].follower
    BY <1>1, <2>3, <2>4 DEF FollowInv, Bookkept, RowCurrent, Running
  <2>6. decision[p].counts /\ row[p][c].misses + 1 >= Confirmations
    BY <1>1, <2>3, <2>4, <2>5 DEF FollowInv, Bookkept, Decided, DecidedFrom
  <2>7. denials[c] >= row[p][c].misses + 1
    BY <1>1, <2>4, <2>6 DEF FollowInv, Bookkept, Decided
  <2>8. row[p][c].misses \in Nat /\ denials[c] \in Nat
    BY <1>1, Numbers DEF FollowInv, TypeOK, Rows
  <2> QED  BY <2>6, <2>7, <2>8, Numbers
<1>2. FollowInv /\ [Next]_vars
        => [\A c \in Channels : Removed(c) /\ ~overwrote' => denials[c] >= Confirmations]_vars
  BY <1>1
<1> QED  BY <1>2, FollowsKept, PTL DEF Spec, RemovalsEarned

-----------------------------------------------------------------------------
(* Subscriptions.  *)

(* The event of the last payment is on its way.  *)
Newest(e) == e.kind = "payment" /\ e.newest

OneNewest == \A e, f \in onTheWay : Newest(e) /\ Newest(f) => e = f

(* It brings the day that is paid to, and is as old as the payment.        *)
Told ==
  \A e \in onTheWay : Newest(e) =>
    /\ e.until \in {NoDate, paid}
    /\ paid = Period - (Delay - e.left)

(* The date reaches as far as the payment, or is as late as its event.     *)
Covered ==
  Active /\ ~doubt =>
    /\ expires # NoDate
    /\ \/ expires >= paid
       \/ \E e \in onTheWay : Newest(e) /\ expires >= e.left - Delay

(* A badge or a card leaves Near days, which pass one by one.              *)
Proven == ~doubt /\ proven <= Keep => expires # NoDate /\ expires >= Near - proven

SweepInv == SubTypeOK /\ OneNewest /\ Told /\ Covered /\ Proven

-----------------------------------------------------------------------------
(* What a date and an event become when a day passes.  *)
Aged(e) ==
  IF e.kind = "badge" THEN [e EXCEPT !.left = @ - 1]
  ELSE [e EXCEPT !.left = @ - 1, !.until = Yesterday(@)]

LEMMA DatesAge ==
  ASSUME NEW d \in Dates \cup {NoDate}
  PROVE  /\ Yesterday(d) \in Dates \cup {NoDate}
         /\ Yesterday(d) = NoDate <=> d = NoDate
         /\ d # NoDate /\ d > Oldest => Yesterday(d) = d - 1
BY SubscribersAssumption DEF Yesterday, Dates, Oldest, Grace, Keep

LEMMA EventsAge ==
  ASSUME NEW e \in Payments \cup Badges, e.left > 0
  PROVE  /\ Aged(e) \in Payments \cup Badges
         /\ Aged(e).kind = e.kind
         /\ Aged(e).left = e.left - 1
         /\ e.kind = "payment" => /\ Aged(e).newest = e.newest
                                  /\ Aged(e).until = Yesterday(e.until)
<1>1. CASE e \in Payments
  <2>1. e.until \in Dates \cup {NoDate} /\ e.left \in 0..Delay /\ e.kind = "payment"
    BY <1>1 DEF Payments
  <2>2. Yesterday(e.until) \in Dates \cup {NoDate}
    BY <2>1, DatesAge
  <2>3. e.left - 1 \in 0..Delay
    BY <2>1, SubscribersAssumption DEF Grace
  <2> QED  BY <1>1, <2>1, <2>2, <2>3 DEF Aged, Payments
<1>2. CASE e \in Badges
  BY <1>2, SubscribersAssumption DEF Aged, Badges, Grace
<1> QED  BY <1>1, <1>2

LEMMA EventsSuperseded ==
  ASSUME NEW e \in Payments \cup Badges
  PROVE  Superseded(e) \in Payments \cup Badges /\ ~Newest(Superseded(e))
<1>1. CASE e \in Payments
  BY <1>1 DEF Superseded, Newest, Payments
<1>2. CASE e \in Badges
  BY <1>2 DEF Superseded, Newest, Badges
<1> QED  BY <1>1, <1>2

(* A badge and a card move a date later, and leave Near days.              *)
LEMMA ProofsExtend ==
  ASSUME NEW d \in Dates \cup {NoDate}
  PROVE  /\ BadgeDate(d) \in Dates /\ BadgeDate(d) >= Near /\ (d # NoDate => BadgeDate(d) >= d)
         /\ CardDate(d) \in Dates /\ CardDate(d) >= Near /\ (d # NoDate => CardDate(d) >= d)
BY SubscribersAssumption DEF BadgeDate, CardDate, Dates, Oldest, Grace, Keep, Near

-----------------------------------------------------------------------------
LEMMA InitSweep == SubInit => SweepInv
<1> SUFFICES ASSUME SubInit PROVE SweepInv
  OBVIOUS
<1>1. SubTypeOK
  <2>1. paid \in -1..Period /\ proven \in 0..(Keep + 1)
    BY SubscribersAssumption DEF SubInit, Keep
  <2>2. subscriber \in BOOLEAN /\ doubt \in BOOLEAN
    BY DEF SubInit
  <2> QED  BY <2>1, <2>2 DEF SubInit, SubTypeOK
<1>2. OneNewest /\ Told
  BY DEF SubInit, OneNewest, Told
<1>3. ~Active /\ ~(proven <= Keep)
  BY DEF SubInit, Active, Keep
<1> QED  BY <1>1, <1>2, <1>3 DEF SweepInv, Covered, Proven

LEMMA PayKeeps == SweepInv /\ Pay => SweepInv'
<1> SUFFICES ASSUME SweepInv, Pay PROVE SweepInv'
  OBVIOUS
<1> USE SubscribersAssumption DEF SweepInv
<1>1. PICK end \in {Period, NoDate} :
        /\ ~Active \/ paid = 0
        /\ paid' = Period /\ doubt' = (doubt \/ ~Active)
        /\ onTheWay' = {Superseded(e) : e \in onTheWay}
             \cup {[kind |-> "payment", until |-> end, newest |-> TRUE, left |-> Delay]}
        /\ UNCHANGED <<subscriber, expires, proven>>
  BY DEF Pay
<1> DEFINE new == [kind |-> "payment", until |-> end, newest |-> TRUE, left |-> Delay]
<1>2. new \in Payments /\ Newest(new)
  BY DEF Payments, Dates, Oldest, Grace, Keep, Newest
<1>3. \A e \in onTheWay' : e \in Payments \cup Badges /\ (Newest(e) => e = new)
  BY <1>1, <1>2, EventsSuperseded DEF SubTypeOK
<1>4. SubTypeOK'
  BY <1>1, <1>3 DEF SubTypeOK
<1>5. OneNewest'
  BY <1>3 DEF OneNewest
<1>6. Told'
  BY <1>1, <1>3 DEF Told
<1>7. Covered'
  <2> SUFFICES ASSUME ~doubt' PROVE expires # NoDate /\ expires >= 0
    BY <1>1, <1>2 DEF Covered, Grace
  <2>1. paid = 0 /\ Active /\ ~doubt
    BY <1>1 DEF SubTypeOK, Active
  <2>2. \A e \in onTheWay : ~Newest(e)
    <3> SUFFICES ASSUME NEW e \in onTheWay, Newest(e) PROVE FALSE
      OBVIOUS
    <3>1. e.left \in 0..Delay /\ 0 = Period - (Delay - e.left)
      BY <2>1 DEF Told, SubTypeOK, Payments, Badges, Newest
    <3> QED  BY <3>1 DEF Grace
  <2> QED  BY <2>1, <2>2 DEF Covered
<1>8. Proven'
  BY <1>1 DEF Proven, SubTypeOK
<1> QED  BY <1>4, <1>5, <1>6, <1>7, <1>8

LEMMA DayKeeps == SweepInv /\ Day => SweepInv'
<1> SUFFICES ASSUME SweepInv, Day PROVE SweepInv'
  OBVIOUS
<1> USE SubscribersAssumption DEF SweepInv
<1>1. /\ \A e \in onTheWay : e.left > 0 /\ e \in Payments \cup Badges
      /\ onTheWay' = {Aged(e) : e \in onTheWay}
  BY DEF Day, Aged, SubTypeOK
<1>2. /\ paid \in -1..Period /\ paid' = (IF Active THEN paid - 1 ELSE paid)
      /\ expires \in Dates \cup {NoDate} /\ expires' = Yesterday(expires)
      /\ proven \in 0..(Keep + 1) /\ proven' = (IF proven > Keep THEN proven ELSE proven + 1)
      /\ doubt' = doubt /\ subscriber' = subscriber
  BY DEF Day, SubTypeOK
<1>3. \A e \in onTheWay : Newest(Aged(e)) => Newest(e) /\ e.left \in 1..Delay /\ paid >= 1
  <2> SUFFICES ASSUME NEW e \in onTheWay, Newest(Aged(e))
               PROVE  Newest(e) /\ e.left \in 1..Delay /\ paid >= 1
    OBVIOUS
  <2>1. Newest(e)
    BY <1>1, EventsAge DEF Newest
  <2>2. e.left \in 0..Delay /\ e.left > 0
    BY <1>1 DEF Payments, Badges
  <2>3. paid = Period - (Delay - e.left)
    BY <2>1 DEF Told
  <2> QED  BY <2>1, <2>2, <2>3 DEF Grace
<1>4. SubTypeOK'
  <2>1. onTheWay' \subseteq Payments \cup Badges
    BY <1>1, EventsAge
  <2>2. expires' \in Dates \cup {NoDate}
    BY <1>2, DatesAge
  <2>3. paid' \in -1..Period /\ proven' \in 0..(Keep + 1)
    BY <1>2 DEF Active, Keep, Grace
  <2> QED  BY <1>2, <2>1, <2>2, <2>3 DEF SubTypeOK
<1>5. OneNewest'
  BY <1>1, <1>3 DEF OneNewest
<1>6. Told'
  <2> SUFFICES ASSUME NEW e \in onTheWay, Newest(Aged(e))
               PROVE  /\ Aged(e).until \in {NoDate, paid'}
                      /\ paid' = Period - (Delay - Aged(e).left)
    BY <1>1 DEF Told
  <2>1. Newest(e) /\ e.left \in 1..Delay /\ paid >= 1 /\ e.kind = "payment"
    BY <1>3 DEF Newest
  <2>2. e.until \in {NoDate, paid} /\ paid = Period - (Delay - e.left)
    BY <2>1 DEF Told
  <2>3. paid' = paid - 1
    BY <1>2, <2>1 DEF Active
  <2>4. paid \in Dates /\ paid > Oldest
    BY <1>2, <2>1 DEF Dates, Oldest, Grace, Keep
  <2>5. Aged(e).left = e.left - 1 /\ Aged(e).until = Yesterday(e.until)
    BY <1>1, <2>1, EventsAge
  <2>6. Yesterday(e.until) \in {NoDate, paid - 1}
    BY <2>2, <2>4, DatesAge
  <2>7. paid' = Period - (Delay - (e.left - 1))
    BY <1>2, <2>1, <2>2, <2>3 DEF Grace
  <2> QED  BY <2>3, <2>5, <2>6, <2>7
<1>7. Covered'
  <2> SUFFICES ASSUME Active', ~doubt'
               PROVE  /\ expires' # NoDate
                      /\ \/ expires' >= paid'
                         \/ \E e \in onTheWay' : Newest(e) /\ expires' >= e.left - Delay
    BY DEF Covered
  <2>1. Active /\ ~doubt /\ paid >= 1 /\ paid' = paid - 1
    BY <1>2 DEF Active
  <2>2. CASE expires >= paid
    <3>1. expires \in Dates /\ expires > Oldest
      BY <1>2, <2>1, <2>2 DEF Covered, Oldest, Grace, Dates
    <3> QED  BY <1>2, <2>1, <2>2, <3>1, DatesAge DEF Dates, Oldest, Grace
  <2>3. CASE \E e \in onTheWay : Newest(e) /\ expires >= e.left - Delay
    <3>1. PICK e \in onTheWay : Newest(e) /\ expires >= e.left - Delay
      BY <2>3
    <3>2. e.left \in 0..Delay /\ e.left > 0 /\ e.kind = "payment"
      BY <1>1, <3>1 DEF Payments, Badges, Newest
    <3>3. expires \in Dates /\ expires > Oldest
      BY <1>2, <2>1, <3>1, <3>2 DEF Covered, Oldest, Grace, Dates
    <3>4. expires' = expires - 1
      BY <1>2, <3>3, DatesAge DEF Dates
    <3>5. Aged(e) \in onTheWay' /\ Newest(Aged(e)) /\ Aged(e).left = e.left - 1
      BY <1>1, <3>1, <3>2, EventsAge DEF Newest
    <3>6. expires' >= Aged(e).left - Delay
      BY <3>1, <3>2, <3>3, <3>4, <3>5 DEF Dates, Oldest, Grace
    <3>7. expires' # NoDate
      BY <1>2, <3>3, DatesAge, <3>4 DEF Dates, Oldest, Grace
    <3> QED  BY <3>5, <3>6, <3>7
  <2> QED  BY <2>1, <2>2, <2>3 DEF Covered
<1>8. Proven'
  <2> SUFFICES ASSUME ~doubt, proven' <= Keep
               PROVE  expires' # NoDate /\ expires' >= Near - proven'
    BY <1>2 DEF Proven
  <2>1. proven' = proven + 1 /\ proven + 1 <= Keep
    BY <1>2 DEF Keep
  <2>2. expires # NoDate /\ expires >= Near - proven
    BY <1>2, <2>1 DEF Proven, Keep
  <2>3. expires \in Dates /\ expires > Oldest
    BY <1>2, <2>1, <2>2 DEF Near, Keep, Oldest, Grace, Dates
  <2> QED  BY <1>2, <2>1, <2>2, <2>3, DatesAge DEF Near, Dates, Oldest, Grace
<1> QED  BY <1>4, <1>5, <1>6, <1>7, <1>8

LEMMA ApplyPaymentKeeps ==
  ASSUME NEW e, SweepInv, ApplyPayment(e)
  PROVE  SweepInv'
<1> USE SubscribersAssumption DEF SweepInv
<1>1. /\ e \in Payments /\ e \in onTheWay /\ onTheWay' = onTheWay \ {e}
      /\ expires' = (IF e.until = NoDate THEN expires ELSE e.until)
      /\ doubt' = (~e.newest \/ e.until = NoDate)
      /\ UNCHANGED <<paid, proven>> /\ subscriber' = TRUE
  BY DEF ApplyPayment, SubTypeOK, Badges
<1>2. SubTypeOK'
  BY <1>1 DEF SubTypeOK, Payments
<1>3. OneNewest' /\ Told'
  BY <1>1 DEF OneNewest, Told
<1>4. ~doubt' => expires' = paid /\ paid \in Int /\ paid >= 1
  <2> SUFFICES ASSUME e.newest, e.until # NoDate PROVE e.until = paid /\ paid \in Int /\ paid >= 1
    BY <1>1
  <2>1. e.kind = "payment" /\ e.left \in 0..Delay
    BY <1>1 DEF Payments
  <2> QED  BY <1>1, <2>1 DEF Told, Newest, Grace, SubTypeOK
<1>5. Covered' /\ Proven'
  <2>1. NoDate # paid /\ proven \in Nat
    BY DEF SubTypeOK
  <2> QED  BY <1>1, <1>4, <2>1 DEF Covered, Proven, Near, Keep, Active
<1> QED  BY <1>2, <1>3, <1>5

(* A badge or a card: a later date, the same payments on their way.        *)
LEMMA ProofKeeps ==
  ASSUME SweepInv,
         onTheWay' \subseteq onTheWay,
         \A f \in onTheWay : Newest(f) => f \in onTheWay',
         expires' \in Dates, expires' >= Near, expires # NoDate => expires' >= expires,
         proven' = 0, subscriber' \in BOOLEAN, UNCHANGED <<paid, doubt>>
  PROVE  SweepInv'
<1> USE SubscribersAssumption DEF SweepInv
<1>1. SubTypeOK'
  BY DEF SubTypeOK, Keep
<1>2. OneNewest' /\ Told'
  BY DEF OneNewest, Told
<1>3. expires' \in Int /\ expires' # NoDate /\ paid \in Int
  BY DEF Dates, SubTypeOK, Oldest, Grace, Keep
<1>4. Covered'
  <2> SUFFICES ASSUME Active, ~doubt
               PROVE  \/ expires' >= paid
                      \/ \E f \in onTheWay' : Newest(f) /\ expires' >= f.left - Delay
    BY <1>3 DEF Covered, Active
  <2>1. expires \in Int /\ expires' >= expires
    BY DEF Covered, SubTypeOK, Dates, Oldest, Grace, Keep
  <2>2. CASE expires >= paid
    BY <1>3, <2>1, <2>2
  <2>3. CASE \E f \in onTheWay : Newest(f) /\ expires >= f.left - Delay
    <3>1. PICK f \in onTheWay : Newest(f) /\ expires >= f.left - Delay
      BY <2>3
    <3>2. f.left \in Int /\ f \in onTheWay'
      BY <3>1 DEF SubTypeOK, Payments, Badges
    <3> QED  BY <1>3, <2>1, <3>1, <3>2 DEF Grace
  <2> QED  BY <2>2, <2>3 DEF Covered
<1>5. Proven'
  BY <1>3 DEF Proven, Near
<1> QED  BY <1>1, <1>2, <1>4, <1>5

LEMMA ApplyBadgeKeeps ==
  ASSUME NEW e, SweepInv, ApplyBadge(e)
  PROVE  SweepInv'
<1>1. /\ onTheWay' = onTheWay \ {e} /\ ~Newest(e)
      /\ expires' = BadgeDate(expires) /\ proven' = 0 /\ subscriber' = TRUE
      /\ UNCHANGED <<paid, doubt>>
  BY DEF ApplyBadge, Newest
<1>2. expires \in Dates \cup {NoDate}
  BY DEF SweepInv, SubTypeOK
<1>3. expires' \in Dates /\ expires' >= Near /\ (expires # NoDate => expires' >= expires)
  BY <1>1, <1>2, ProofsExtend
<1> QED  BY <1>1, <1>3, ProofKeeps

LEMMA ApplyCardKeepsInv == SweepInv /\ ApplyCard => SweepInv'
<1> SUFFICES ASSUME SweepInv, ApplyCard PROVE SweepInv'
  OBVIOUS
<1>1. subscriber' \in BOOLEAN /\ UNCHANGED <<paid, onTheWay, doubt>>
  BY DEF ApplyCard
<1>2. CASE Active
  <2>1. expires' = CardDate(expires) /\ proven' = 0
    BY <1>2 DEF ApplyCard
  <2>2. expires \in Dates \cup {NoDate}
    BY DEF SweepInv, SubTypeOK
  <2>3. expires' \in Dates /\ expires' >= Near /\ (expires # NoDate => expires' >= expires)
    BY <2>1, <2>2, ProofsExtend
  <2> QED  BY <1>1, <2>1, <2>3, ProofKeeps
<1>3. CASE ~Active
  BY <1>1, <1>3
     DEF ApplyCard, SweepInv, SubTypeOK, OneNewest, Told, Covered, Proven, Active
<1> QED  BY <1>2, <1>3

LEMMA StepKeepsSweepInv == SweepInv /\ [SubNext]_subVars => SweepInv'
<1> SUFFICES ASSUME SweepInv, [SubNext]_subVars PROVE SweepInv'
  OBVIOUS
<1>1. CASE Pay
  BY <1>1, PayKeeps
<1>2. CASE Chat
  <2>1. /\ onTheWay' = onTheWay \cup {[kind |-> "badge", left |-> Delay]}
        /\ UNCHANGED <<paid, subscriber, expires, doubt, proven>>
    BY <1>2 DEF Chat
  <2>2. [kind |-> "badge", left |-> Delay] \in Badges
        /\ ~Newest([kind |-> "badge", left |-> Delay])
    BY SubscribersAssumption DEF Badges, Newest, Grace
  <2> QED  BY <2>1, <2>2 DEF SweepInv, SubTypeOK, OneNewest, Told, Covered, Proven, Active
<1>3. CASE Day
  BY <1>3, DayKeeps
<1>4. CASE ApplyEvent
  BY <1>4, ApplyPaymentKeeps, ApplyBadgeKeeps DEF ApplyEvent
<1>5. CASE ApplyCard
  BY <1>5, ApplyCardKeepsInv
<1>6. CASE Sweep
  BY <1>6 DEF Sweep, SweepInv, SubTypeOK, OneNewest, Told, Covered, Proven, Active
<1>7. CASE UNCHANGED subVars
  BY <1>7 DEF subVars, SweepInv, SubTypeOK, OneNewest, Told, Covered, Proven, Active
<1> QED  BY <1>1, <1>2, <1>3, <1>4, <1>5, <1>6, <1>7 DEF SubNext

THEOREM SweepSafe == SubSpec => []SweepInv
<1>1. SubInit => SweepInv
  BY InitSweep
<1>2. SweepInv /\ [SubNext]_subVars => SweepInv'
  BY StepKeepsSweepInv
<1> QED  BY <1>1, <1>2, PTL DEF SubSpec

-----------------------------------------------------------------------------
(* No step but the sweep takes the flag, and it finds a lapsed date.       *)
LEMMA OnlySweepTakes ==
  ASSUME SweepInv, [SubNext]_subVars, subscriber, ~subscriber'
  PROVE  Sweep
BY DEF SubNext, subVars, Pay, Chat, Day, ApplyEvent, ApplyPayment, ApplyBadge, ApplyCard, SweepInv, SubTypeOK

(* Whoever pays, and whose payment was told, is kept, and whoever a badge  *)
(* or a card proved in the last Keep days (webhooks.rs renewal and badges, *)
(* reconcile.rs sweep).                                                    *)
THEOREM PayersKept == SubSpec => PayingKept
<1>1. SweepInv /\ [SubNext]_subVars
        => [subscriber /\ ~subscriber' /\ ~doubt => ~Active /\ proven > Keep]_subVars
  <2> SUFFICES ASSUME SweepInv, [SubNext]_subVars, subscriber, ~subscriber', ~doubt
               PROVE  ~Active /\ proven > Keep
    OBVIOUS
  <2>1. expires # NoDate /\ expires < -Grace
    BY OnlySweepTakes DEF Sweep, Lapsed
  <2>2. ASSUME Active PROVE FALSE
    <3>1. paid \in Int /\ paid >= 0 /\ expires \in Int
      BY <2>1, <2>2 DEF SweepInv, SubTypeOK, Active, Dates, Oldest, Grace, Keep
    <3>2. \A e \in onTheWay : e.left \in Nat
      BY SubscribersAssumption DEF SweepInv, SubTypeOK, Payments, Badges, Grace
    <3> QED  BY <2>1, <2>2, <3>1, <3>2, SubscribersAssumption DEF SweepInv, Covered, Grace
  <2>3. proven > Keep
    <3>1. proven \in 0..(Keep + 1) /\ expires \in Int
      BY <2>1, SubscribersAssumption DEF SweepInv, SubTypeOK, Dates, Oldest, Grace, Keep
    <3> QED  BY <2>1, <3>1 DEF SweepInv, Proven, Grace, Keep, Near
  <2> QED  BY <2>2, <2>3
<1> QED  BY <1>1, SweepSafe, PTL DEF SubSpec, PayingKept
=============================================================================
