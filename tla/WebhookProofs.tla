---------------------------- MODULE WebhookProofs ----------------------------
(* Proofs that no event is counted twice between two retries, and that     *)
(* every fact that was written is announced, for every set of events and   *)
(* handlers and any mix of kinds.                                          *)
EXTENDS Webhook, TLAPS

(* A handler holds its event from the INSERT into the log to its answer.  *)
Holds(h) == at[h] \in {"working", "failed"}

Counting == {"add", "bucket"}
CountsLater(s) == \E i \in 1..Len(s) : s[i] \in Counting
CountsAtMostOnce(s) ==
  \A i, j \in 1..Len(s) : s[i] \in Counting /\ s[j] \in Counting => i = j

Typed ==
  /\ kind \in [Events -> Kinds]
  /\ log \subseteq Events
  /\ at \in [Handlers -> {"idle", "received", "working", "failed"}]
  /\ event \in [Handlers -> SUBSET Events]
  /\ todo \in [Handlers -> Seq(Statements)]
  /\ times \in [Events -> Nat]

OneEvent == \A h \in Handlers : \A d, e \in event[h] : d = e

(* What is held is logged, and held by one handler only.  *)
HeldIsLogged == \A h \in Handlers : Holds(h) => event[h] \subseteq log
HeldOnce ==
  \A g, h \in Handlers : g # h /\ Holds(g) /\ Holds(h) => event[g] \cap event[h] = {}

(* What is not logged has not been counted since it was last reopened.  *)
UnloggedIsFresh == \A e \in Events \ log : times[e] = 0

(* A handler counts once, and not after its event has been counted.  *)
CountsOnce == \A h \in Handlers : CountsAtMostOnce(todo[h])
CountsFirst ==
  \A h \in Handlers : at[h] = "working" /\ CountsLater(todo[h])
    => \A e \in event[h] : times[e] = 0

ClaimInv ==
  /\ Typed /\ OneEvent /\ HeldIsLogged /\ HeldOnce /\ UnloggedIsFresh
  /\ CountsOnce /\ CountsFirst /\ CountedOnce

-----------------------------------------------------------------------------
(* No arm of apply_event counts its event twice.  *)
LEMMA ProgramCountsOnce ==
  ASSUME NEW k \in Kinds
  PROVE  Program(k) \in Seq(Statements) /\ CountsAtMostOnce(Program(k))
<1>1. CASE k = "set"
  BY <1>1 DEF Program, Chats, Statements, CountsAtMostOnce, Counting
<1>2. CASE k = "add"
  BY <1>2 DEF Program, Chats, Statements, CountsAtMostOnce, Counting
<1>3. CASE k = "gifts"
  <2> DEFINE p == <<"add", "announce", "grant", "announce_giftee">>
  <2>1. Program(k) = p
    BY <1>3 DEF Program, Chats
  <2>2. /\ p \in Seq(Statements) /\ Len(p) = 4
        /\ p[2] \notin Counting /\ p[3] \notin Counting /\ p[4] \notin Counting
    BY DEF Statements, Counting
  <2>3. CountsAtMostOnce(p)
    <3> HIDE DEF p
    <3> QED  BY <2>2 DEF CountsAtMostOnce
  <2> QED  BY <2>1, <2>2, <2>3
<1>4. CASE k \in Chats
  <2> DEFINE p == <<"count", "bucket", "badges", "floors", "announce_changes">>
  <2>1. Program(k) = p
    BY <1>4 DEF Program, Chats
  <2>2. /\ p \in Seq(Statements) /\ Len(p) = 5 /\ p[1] \notin Counting
        /\ p[3] \notin Counting /\ p[4] \notin Counting /\ p[5] \notin Counting
    BY DEF Statements, Counting
  <2>3. CountsAtMostOnce(p)
    <3> HIDE DEF p
    <3> QED  BY <2>2 DEF CountsAtMostOnce
  <2> QED  BY <2>1, <2>2, <2>3
<1> QED  BY <1>1, <1>2, <1>3, <1>4 DEF Kinds

(* What is left of a program after its first statement.  *)
LEMMA TailCounts ==
  ASSUME NEW s \in Seq(Statements), s # <<>>, CountsAtMostOnce(s)
  PROVE  /\ Tail(s) \in Seq(Statements) /\ CountsAtMostOnce(Tail(s))
         /\ CountsLater(Tail(s)) => CountsLater(s)
         /\ Head(s) \in Counting => CountsLater(s) /\ ~CountsLater(Tail(s))
<1>1. /\ Tail(s) \in Seq(Statements) /\ Len(Tail(s)) = Len(s) - 1
      /\ Len(s) \in Nat /\ Len(s) > 0 /\ Head(s) = s[1]
      /\ \A i \in 1..Len(Tail(s)) : Tail(s)[i] = s[i + 1]
  OBVIOUS
<1>2. \A i \in 1..Len(Tail(s)) : i + 1 \in 1..Len(s) /\ i + 1 # 1
  BY <1>1
<1>3. CountsAtMostOnce(Tail(s))
  BY <1>1, <1>2 DEF CountsAtMostOnce
<1>4. CountsLater(Tail(s)) => CountsLater(s)
  BY <1>1, <1>2 DEF CountsLater
<1>5. ASSUME Head(s) \in Counting
      PROVE  CountsLater(s) /\ ~CountsLater(Tail(s))
  BY <1>1, <1>2, <1>5 DEF CountsLater, CountsAtMostOnce
<1> QED  BY <1>1, <1>3, <1>4, <1>5

LEMMA EmptyCounts ==
  <<>> \in Seq(Statements) /\ CountsAtMostOnce(<<>>) /\ ~CountsLater(<<>>)
BY DEF CountsAtMostOnce, CountsLater

LEMMA InitClaim == Init => ClaimInv
<1> SUFFICES ASSUME Init PROVE ClaimInv
  OBVIOUS
<1>1. Typed
  BY EmptyCounts, WebhookAssumption DEF Init, Typed
<1> QED  BY <1>1, EmptyCounts DEF Init, ClaimInv, OneEvent, HeldIsLogged, HeldOnce, Holds,
            UnloggedIsFresh, CountsOnce, CountsFirst, CountedOnce

-----------------------------------------------------------------------------
(* The handler is done; the log stays.  *)
LEMMA FreeClaim ==
  ASSUME ClaimInv, NEW h \in Handlers, Free(h), UNCHANGED <<kind, log, times>>
  PROVE  ClaimInv'
<1>1. Typed'
  BY EmptyCounts DEF ClaimInv, Typed, Free
<1>2. \A g \in Handlers : Holds(g)' => g # h /\ Holds(g) /\ event'[g] = event[g]
  BY DEF ClaimInv, Typed, Free, Holds
<1>3. OneEvent'
  BY DEF ClaimInv, Typed, OneEvent, Free
<1>4. HeldIsLogged' /\ HeldOnce'
  BY <1>2 DEF ClaimInv, HeldIsLogged, HeldOnce
<1>5. UnloggedIsFresh' /\ CountedOnce'
  BY DEF ClaimInv, UnloggedIsFresh, CountedOnce
<1>6. \A g \in Handlers : todo'[g] = IF g = h THEN <<>> ELSE todo[g]
  BY DEF ClaimInv, Typed, Free
<1>7. CountsOnce'
  BY <1>6, EmptyCounts DEF ClaimInv, CountsOnce
<1>8. CountsFirst'
  <2> SUFFICES ASSUME NEW g \in Handlers, at'[g] = "working", CountsLater(todo'[g]),
                      NEW e \in event'[g]
               PROVE  times'[e] = 0
    BY DEF CountsFirst
  <2>1. g # h /\ at[g] = "working" /\ todo'[g] = todo[g] /\ event'[g] = event[g]
    BY <1>6 DEF ClaimInv, Typed, Free
  <2> QED  BY <2>1 DEF ClaimInv, CountsFirst
<1> QED  BY <1>1, <1>3, <1>4, <1>5, <1>7, <1>8 DEF ClaimInv

(* A statement is done that counts nothing.  *)
LEMMA StatementClaim ==
  ASSUME ClaimInv, NEW h \in Handlers, NEW s, Does(h, s),
         UNCHANGED <<kind, log, at, event, times>>
  PROVE  ClaimInv'
<1>1. /\ todo[h] \in Seq(Statements) /\ todo[h] # <<>> /\ CountsAtMostOnce(todo[h])
      /\ \A g \in Handlers : todo'[g] = IF g = h THEN Tail(todo[h]) ELSE todo[g]
  BY DEF ClaimInv, Typed, CountsOnce, Does
<1>2. /\ Tail(todo[h]) \in Seq(Statements) /\ CountsAtMostOnce(Tail(todo[h]))
      /\ CountsLater(Tail(todo[h])) => CountsLater(todo[h])
  BY <1>1, TailCounts
<1>3. Typed'
  BY <1>2 DEF ClaimInv, Typed, Does
<1>4. OneEvent' /\ HeldIsLogged' /\ HeldOnce' /\ UnloggedIsFresh' /\ CountedOnce'
  BY DEF ClaimInv, OneEvent, HeldIsLogged, HeldOnce, Holds, UnloggedIsFresh, CountedOnce
<1>5. CountsOnce'
  BY <1>1, <1>2 DEF ClaimInv, CountsOnce
<1>6. CountsFirst'
  <2> SUFFICES ASSUME NEW g \in Handlers, at[g] = "working", CountsLater(todo'[g]),
                      NEW e \in event[g]
               PROVE  times[e] = 0
    BY DEF CountsFirst
  <2>1. CountsLater(todo[g])
    BY <1>1, <1>2
  <2> QED  BY <2>1 DEF ClaimInv, CountsFirst
<1> QED  BY <1>3, <1>4, <1>5, <1>6 DEF ClaimInv

(* A statement is done that counts the event.  *)
LEMMA CountClaim ==
  ASSUME ClaimInv, NEW h \in Handlers, NEW s \in Counting, Does(h, s), Counted(h),
         UNCHANGED <<kind, log, at, event>>
  PROVE  ClaimInv'
<1>1. /\ todo[h] \in Seq(Statements) /\ todo[h] # <<>> /\ CountsAtMostOnce(todo[h])
      /\ Head(todo[h]) \in Counting /\ at[h] = "working"
      /\ \A g \in Handlers : todo'[g] = IF g = h THEN Tail(todo[h]) ELSE todo[g]
  BY DEF ClaimInv, Typed, CountsOnce, Does
<1>2. /\ Tail(todo[h]) \in Seq(Statements) /\ CountsAtMostOnce(Tail(todo[h]))
      /\ CountsLater(todo[h]) /\ ~CountsLater(Tail(todo[h]))
  BY <1>1, TailCounts
<1>3. /\ event[h] \subseteq log
      /\ \A e \in event[h] : times[e] = 0
      /\ \A g \in Handlers : g # h /\ Holds(g) => event[g] \cap event[h] = {}
  BY <1>1, <1>2 DEF ClaimInv, HeldIsLogged, HeldOnce, CountsFirst, Holds
<1>4. times \in [Events -> Nat]
  BY DEF ClaimInv, Typed
<1>5. /\ times' \in [Events -> Nat]
      /\ \A e \in Events : times'[e] = times[e] + (IF e \in event[h] THEN 1 ELSE 0)
  BY <1>4 DEF Counted
<1>6. Typed'
  BY <1>2, <1>5 DEF ClaimInv, Typed, Does
<1>7. OneEvent' /\ HeldIsLogged' /\ HeldOnce'
  BY DEF ClaimInv, OneEvent, HeldIsLogged, HeldOnce, Holds
<1>8. UnloggedIsFresh'
  BY <1>3, <1>4, <1>5 DEF ClaimInv, UnloggedIsFresh
<1>9. CountedOnce'
  BY <1>3, <1>4, <1>5 DEF ClaimInv, CountedOnce
<1>10. CountsOnce'
  BY <1>1, <1>2 DEF ClaimInv, CountsOnce
<1>11. CountsFirst'
  <2> SUFFICES ASSUME NEW g \in Handlers, at[g] = "working", CountsLater(todo'[g]),
                      NEW e \in event[g]
               PROVE  times'[e] = 0
    BY DEF CountsFirst
  <2>1. g # h /\ CountsLater(todo[g])
    BY <1>1, <1>2
  <2>2. e \in Events /\ e \notin event[h]
    BY <1>3, <2>1 DEF ClaimInv, Typed, Holds
  <2>3. times[e] = 0
    BY <2>1 DEF ClaimInv, CountsFirst
  <2> QED  BY <1>4, <1>5, <2>2, <2>3
<1> QED  BY <1>6, <1>7, <1>8, <1>9, <1>10, <1>11 DEF ClaimInv

-----------------------------------------------------------------------------
LEMMA DeliverClaim ==
  ASSUME ClaimInv, NEW h \in Handlers, NEW e \in Events, Deliver(h, e)
  PROVE  ClaimInv'
<1>1. /\ at' = [at EXCEPT ![h] = "received"] /\ event' = [event EXCEPT ![h] = {e}]
      /\ UNCHANGED <<kind, log, todo, times>>
  BY DEF Deliver, delivery, clues
<1>2. Typed' /\ OneEvent'
  BY <1>1 DEF ClaimInv, Typed, OneEvent
<1>3. \A g \in Handlers : Holds(g)' => g # h /\ Holds(g) /\ event'[g] = event[g]
  BY <1>1 DEF ClaimInv, Typed, Holds
<1>4. HeldIsLogged' /\ HeldOnce'
  BY <1>1, <1>3 DEF ClaimInv, HeldIsLogged, HeldOnce
<1>5. UnloggedIsFresh' /\ CountedOnce' /\ CountsOnce'
  BY <1>1 DEF ClaimInv, UnloggedIsFresh, CountedOnce, CountsOnce
<1>6. CountsFirst'
  BY <1>1 DEF ClaimInv, Typed, CountsFirst
<1> QED  BY <1>2, <1>4, <1>5, <1>6 DEF ClaimInv

(* The one step that takes hold of an event: nobody holds it yet, since it *)
(* is not in the log.                                                      *)
LEMMA ClaimClaim ==
  ASSUME ClaimInv, NEW h \in Handlers, Claim(h)
  PROVE  ClaimInv'
<1>1. PICK e \in event[h] :
        /\ at[h] = "received" /\ Unseen(e)
        /\ log' = log \cup {e}
        /\ at' = [at EXCEPT ![h] = "working"]
        /\ todo' = [todo EXCEPT ![h] = Program(kind[e])]
        /\ UNCHANGED <<kind, event, times>>
  BY DEF Claim, clues
<1>2. e \in Events /\ e \notin log /\ kind[e] \in Kinds /\ times[e] = 0 /\ event[h] = {e}
  BY <1>1 DEF ClaimInv, Typed, OneEvent, Unseen, UnloggedIsFresh
<1>3. Program(kind[e]) \in Seq(Statements) /\ CountsAtMostOnce(Program(kind[e]))
  BY <1>2, ProgramCountsOnce
<1>4. Typed' /\ OneEvent'
  BY <1>1, <1>2, <1>3 DEF ClaimInv, Typed, OneEvent
<1>5. \A g \in Handlers : Holds(g)' => g = h \/ Holds(g)
  BY <1>1 DEF ClaimInv, Typed, Holds
<1>6. \A g \in Handlers : g # h /\ Holds(g) => e \notin event[g]
  BY <1>2 DEF ClaimInv, HeldIsLogged
<1>7. HeldIsLogged'
  BY <1>1, <1>2, <1>5 DEF ClaimInv, HeldIsLogged
<1>8. HeldOnce'
  BY <1>1, <1>2, <1>5, <1>6 DEF ClaimInv, HeldOnce
<1>9. UnloggedIsFresh' /\ CountedOnce'
  BY <1>1 DEF ClaimInv, UnloggedIsFresh, CountedOnce
<1>10. CountsOnce'
  BY <1>1, <1>3 DEF ClaimInv, Typed, CountsOnce
<1>11. CountsFirst'
  BY <1>1, <1>2 DEF ClaimInv, Typed, CountsFirst
<1> QED  BY <1>4, <1>7, <1>8, <1>9, <1>10, <1>11 DEF ClaimInv

LEMMA FailClaim ==
  ASSUME ClaimInv, NEW h \in Handlers, Fail(h)
  PROVE  ClaimInv'
<1>1. /\ at[h] = "working" /\ at' = [at EXCEPT ![h] = "failed"]
      /\ todo' = [todo EXCEPT ![h] = <<>>]
      /\ UNCHANGED <<kind, log, event, times>>
  BY DEF Fail, delivery, clues
<1>2. Typed' /\ OneEvent'
  BY <1>1, EmptyCounts DEF ClaimInv, Typed, OneEvent
<1>3. \A g \in Handlers : Holds(g)' => Holds(g)
  BY <1>1 DEF ClaimInv, Typed, Holds
<1>4. HeldIsLogged' /\ HeldOnce'
  BY <1>1, <1>3 DEF ClaimInv, HeldIsLogged, HeldOnce
<1>5. UnloggedIsFresh' /\ CountedOnce'
  BY <1>1 DEF ClaimInv, UnloggedIsFresh, CountedOnce
<1>6. CountsOnce'
  BY <1>1, EmptyCounts DEF ClaimInv, Typed, CountsOnce
<1>7. CountsFirst'
  BY <1>1, EmptyCounts DEF ClaimInv, Typed, CountsFirst
<1> QED  BY <1>2, <1>4, <1>5, <1>6, <1>7 DEF ClaimInv

(* The event is let go: what others hold stays logged.  *)
LEMMA ReopenClaim ==
  ASSUME ClaimInv, NEW h \in Handlers, Reopen(h)
  PROVE  ClaimInv'
<1>1. PICK e \in event[h] :
        /\ at[h] = "failed" /\ Free(h)
        /\ log' = log \ {e}
        /\ times' = [times EXCEPT ![e] = 0]
        /\ UNCHANGED kind
  BY DEF Reopen, Reopened
<1>2. times \in [Events -> Nat] /\ e \in Events
  BY <1>1 DEF ClaimInv, Typed
<1>3. Typed' /\ OneEvent'
  BY <1>1, <1>2, EmptyCounts DEF ClaimInv, Typed, OneEvent, Free
<1>4. \A g \in Handlers : Holds(g)' =>
        g # h /\ Holds(g) /\ event'[g] = event[g] /\ e \notin event[g]
  BY <1>1 DEF ClaimInv, Typed, Free, Holds, HeldOnce
<1>5. HeldIsLogged' /\ HeldOnce'
  BY <1>1, <1>4 DEF ClaimInv, HeldIsLogged, HeldOnce
<1>6. UnloggedIsFresh' /\ CountedOnce'
  BY <1>1, <1>2 DEF ClaimInv, UnloggedIsFresh, CountedOnce
<1>7. \A g \in Handlers : todo'[g] = IF g = h THEN <<>> ELSE todo[g]
  BY <1>1 DEF ClaimInv, Typed, Free
<1>8. CountsOnce'
  BY <1>7, EmptyCounts DEF ClaimInv, CountsOnce
<1>9. CountsFirst'
  <2> SUFFICES ASSUME NEW g \in Handlers, at'[g] = "working", CountsLater(todo'[g]),
                      NEW d \in event'[g]
               PROVE  times'[d] = 0
    BY DEF CountsFirst
  <2>1. g # h /\ at[g] = "working" /\ todo'[g] = todo[g] /\ event'[g] = event[g]
    BY <1>1, <1>7 DEF ClaimInv, Typed, Free
  <2>2. times[d] = 0 /\ d \in Events
    BY <2>1 DEF ClaimInv, Typed, CountsFirst
  <2> QED  BY <1>1, <1>2, <2>2
<1> QED  BY <1>3, <1>5, <1>6, <1>8, <1>9 DEF ClaimInv

-----------------------------------------------------------------------------
LEMMA NextClaim == ClaimInv /\ [Next]_vars => ClaimInv'
<1> SUFFICES ASSUME ClaimInv, [Next]_vars PROVE ClaimInv'
  OBVIOUS
<1> USE DEF handler, delivery, clues
<1>1. ASSUME NEW e \in Events, NEW h \in Handlers, Deliver(h, e) PROVE ClaimInv'
  BY <1>1, DeliverClaim
<1>2. ASSUME NEW h \in Handlers, Serve(h) PROVE ClaimInv'
  <2>1. CASE Claim(h)
    BY <2>1, ClaimClaim
  <2>2. CASE Duplicate(h) \/ Finish(h)
    <3>1. Free(h) /\ UNCHANGED <<kind, log, times>>
      BY <2>2 DEF Duplicate, Finish
    <3> QED  BY <3>1, FreeClaim
  <2>3. CASE Add(h) \/ Bucket(h)
    <3>1. \E s \in Counting : Does(h, s) /\ Counted(h) /\ UNCHANGED <<kind, log, at, event>>
      BY <2>3 DEF Add, Bucket, Counting
    <3> QED  BY <3>1, CountClaim
  <2>4. CASE Set(h) \/ Grant(h) \/ Count(h) \/ Badges(h) \/ Floors(h) \/ Announce(h)
    <3>1. \E s : Does(h, s) /\ UNCHANGED <<kind, log, at, event, times>>
      BY <2>4 DEF Set, Grant, Count, Badges, Floors, Announce
    <3> QED  BY <3>1, StatementClaim
  <2>5. CASE Reopen(h)
    BY <2>5, ReopenClaim
  <2> QED  BY <1>2, <2>1, <2>2, <2>3, <2>4, <2>5 DEF Serve, Statement
<1>3. ASSUME NEW h \in Handlers, Fail(h) PROVE ClaimInv'
  BY <1>3, FailClaim
<1>4. ASSUME NEW h \in Handlers, ReopenFails(h) \/ CutOff(h) PROVE ClaimInv'
  <2>1. Free(h) /\ UNCHANGED <<kind, log, times>>
    BY <1>4 DEF ReopenFails, CutOff
  <2> QED  BY <2>1, FreeClaim
<1>5. CASE RecountStart \/ RecountWrite \/ ChannelSync \/ Midnight \/ UNCHANGED vars
  <2>1. UNCHANGED <<kind, log, at, event, todo, times>>
    BY <1>5 DEF RecountStart, RecountWrite, ChannelSync, Midnight, vars
  <2> QED  BY <2>1 DEF ClaimInv, Typed, OneEvent, HeldIsLogged, HeldOnce, Holds,
              UnloggedIsFresh, CountsOnce, CountsFirst, CountedOnce
<1> QED  BY <1>1, <1>2, <1>3, <1>4, <1>5 DEF Next

(* No event is counted twice, whichever copies of it arrive and overlap,   *)
(* unless a failed handler gave it back in between.                        *)
THEOREM EventsCountedOnce == Spec => []CountedOnce
<1>1. ClaimInv => CountedOnce
  BY DEF ClaimInv
<1> QED  BY <1>1, InitClaim, NextClaim, PTL DEF Spec

-----------------------------------------------------------------------------
(* Every written fact is announced.  At each moment an unannounced fact    *)
(* has somebody who will announce it: a handler on its way to the          *)
(* statement, a failed one about to give its event back, or Kick, which    *)
(* will send the event again.                                              *)

Has(s, x) == \E i \in 1..Len(s) : s[i] = x

(* Whatever writes a fact comes before the statement that announces it.  *)
Ordered(s) ==
  \A i \in 1..Len(s) :
    /\ s[i] \in {"set", "add"} => \E j \in (i + 1)..Len(s) : s[j] = "announce"
    /\ s[i] = "grant" => \E j \in (i + 1)..Len(s) : s[j] = "announce_giftee"
    /\ s[i] \in {"badges", "floors"}
         => \E j \in (i + 1)..Len(s) : s[j] = "announce_changes"

(* The announcements that are not conditional are of the event's members.  *)
Fits(s, k) ==
  /\ Has(s, "announce") => k \notin Chats
  /\ Has(s, "announce_giftee") => k = "gifts"

WillTell(h, m) ==
  \/ m = "actor" /\ Has(todo[h], "announce")
  \/ m = "giftee" /\ Has(todo[h], "announce_giftee")
  \/ m = "actor" /\ Has(todo[h], "announce_changes") /\ changed[h]

(* The event's program announces m whatever it finds.  *)
Covers(e, m) == kind[e] \notin Chats /\ m \in Members(e)

Owes(h, m) ==
  \/ at[h] = "working" /\ WillTell(h, m)
  \/ at[h] = "failed" /\ \E e \in event[h] : Covers(e, m)

Returns(e, m) == e \notin log /\ kick[e] = "sending" /\ Covers(e, m)

Promised ==
  \A m \in unsynced \ forgotten :
    (\E h \in Handlers : Owes(h, m)) \/ (\E e \in Events : Returns(e, m))

SyncTyped ==
  /\ kick \in [Events -> {"sending", "done"}]
  /\ changed \in [Handlers -> BOOLEAN]
  /\ unsynced \subseteq {"actor", "giftee"}

HasEvent == \A h \in Handlers : at[h] # "idle" => event[h] # {}
InOrder  == \A h \in Handlers : Ordered(todo[h])
ToFit    == \A h \in Handlers : \A e \in event[h] :
              at[h] = "working" => Fits(todo[h], kind[e])

ProgramInv == SyncTyped /\ HasEvent /\ InOrder /\ ToFit

AnnounceInv == ClaimInv /\ ProgramInv /\ Promised

(* The three shapes the arms of apply_event have.  *)
LEMMA WriteShape ==
  ASSUME NEW s, Len(s) = 2, s[1] \in {"set", "add"}, s[2] = "announce"
  PROVE  Ordered(s) /\ Has(s, "announce") /\ ~Has(s, "announce_giftee")
BY DEF Ordered, Has

LEMMA GiftShape ==
  ASSUME NEW s, Len(s) = 4, s[1] = "add", s[2] = "announce", s[3] = "grant",
         s[4] = "announce_giftee"
  PROVE  Ordered(s) /\ Has(s, "announce") /\ Has(s, "announce_giftee")
<1>1. \A i \in 1..Len(s) : i = 1 \/ i = 2 \/ i = 3 \/ i = 4
  OBVIOUS
<1>2. Ordered(s)
  BY <1>1 DEF Ordered
<1> QED  BY <1>2 DEF Has

LEMMA ChatShape ==
  ASSUME NEW s, Len(s) = 5, s[1] = "count", s[2] = "bucket", s[3] = "badges",
         s[4] = "floors", s[5] = "announce_changes"
  PROVE  Ordered(s) /\ ~Has(s, "announce") /\ ~Has(s, "announce_giftee")
<1>1. \A i \in 1..Len(s) : i = 1 \/ i = 2 \/ i = 3 \/ i = 4 \/ i = 5
  OBVIOUS
<1>2. Ordered(s)
  BY <1>1 DEF Ordered
<1> QED  BY <1>1, <1>2 DEF Has

(* The program of an event announces what it writes, and unless it is a    *)
(* chat message, all its members in any case.                              *)
LEMMA ProgramAnnounces ==
  ASSUME NEW k \in Kinds
  PROVE  /\ Ordered(Program(k)) /\ Fits(Program(k), k)
         /\ k \notin Chats => Has(Program(k), "announce")
         /\ k = "gifts" => Has(Program(k), "announce_giftee")
<1>1. CASE k \in {"set", "add"}
  <2>1. Program(k) = <<k, "announce">>  /\ k \notin Chats /\ k # "gifts"
    BY <1>1 DEF Program, Chats
  <2>2. /\ Ordered(Program(k)) /\ Has(Program(k), "announce")
        /\ ~Has(Program(k), "announce_giftee")
    BY <1>1, <2>1, WriteShape, ProgramCountsOnce
  <2> QED  BY <2>1, <2>2 DEF Fits
<1>2. CASE k = "gifts"
  <2>1. /\ Program(k) = <<"add", "announce", "grant", "announce_giftee">>
        /\ k \notin Chats
    BY <1>2 DEF Program, Chats
  <2>2. /\ Ordered(Program(k)) /\ Has(Program(k), "announce")
        /\ Has(Program(k), "announce_giftee")
    BY <2>1, GiftShape, ProgramCountsOnce
  <2> QED  BY <1>2, <2>1, <2>2 DEF Fits
<1>3. CASE k \in Chats
  <2>1. /\ Program(k) = <<"count", "bucket", "badges", "floors", "announce_changes">>
        /\ k # "gifts"
    BY <1>3 DEF Program, Chats
  <2>2. /\ Ordered(Program(k)) /\ ~Has(Program(k), "announce")
        /\ ~Has(Program(k), "announce_giftee")
    BY <2>1, ChatShape, ProgramCountsOnce
  <2> QED  BY <1>3, <2>1, <2>2 DEF Fits
<1> QED  BY <1>1, <1>2, <1>3 DEF Kinds

LEMMA TailAnnounces ==
  ASSUME NEW s \in Seq(Statements), s # <<>>, Ordered(s)
  PROVE  /\ Ordered(Tail(s))
         /\ \A x : Has(s, x) <=> Head(s) = x \/ Has(Tail(s), x)
         /\ Head(s) \in {"set", "add"} => Has(Tail(s), "announce")
         /\ Head(s) = "grant" => Has(Tail(s), "announce_giftee")
         /\ Head(s) \in {"badges", "floors"} => Has(Tail(s), "announce_changes")
<1>1. /\ Tail(s) \in Seq(Statements) /\ Len(Tail(s)) = Len(s) - 1
      /\ Len(s) \in Nat /\ Len(s) > 0 /\ Head(s) = s[1]
      /\ \A i \in 1..Len(Tail(s)) : Tail(s)[i] = s[i + 1]
  OBVIOUS
<1>2. \A j \in 2..Len(s) : j - 1 \in 1..Len(Tail(s)) /\ Tail(s)[j - 1] = s[j]
  BY <1>1
<1>3. \A i \in 1..Len(Tail(s)) : \A j \in ((i + 1) + 1)..Len(s) :
        /\ i + 1 \in 1..Len(s)
        /\ j - 1 \in (i + 1)..Len(Tail(s)) /\ Tail(s)[j - 1] = s[j]
  BY <1>1, <1>2
<1>4. Ordered(Tail(s))
  <2> SUFFICES ASSUME NEW i \in 1..Len(Tail(s))
               PROVE  /\ Tail(s)[i] \in {"set", "add"} =>
                           \E j \in (i + 1)..Len(Tail(s)) : Tail(s)[j] = "announce"
                      /\ Tail(s)[i] = "grant" =>
                           \E j \in (i + 1)..Len(Tail(s)) : Tail(s)[j] = "announce_giftee"
                      /\ Tail(s)[i] \in {"badges", "floors"} =>
                           \E j \in (i + 1)..Len(Tail(s)) : Tail(s)[j] = "announce_changes"
    BY DEF Ordered
  <2>1. i + 1 \in 1..Len(s) /\ Tail(s)[i] = s[i + 1]
    BY <1>1
  <2>2. \A x : (\E j \in ((i + 1) + 1)..Len(s) : s[j] = x)
                 => \E j \in (i + 1)..Len(Tail(s)) : Tail(s)[j] = x
    BY <1>3
  <2> QED  BY <2>1, <2>2 DEF Ordered
<1>5. \A x : Has(s, x) <=> Head(s) = x \/ Has(Tail(s), x)
  <2>1. ASSUME NEW x, Has(s, x) PROVE Head(s) = x \/ Has(Tail(s), x)
    <3>1. PICK i \in 1..Len(s) : s[i] = x
      BY <2>1 DEF Has
    <3>2. CASE i = 1
      BY <1>1, <3>1, <3>2
    <3>3. CASE i # 1
      BY <1>1, <1>2, <3>1, <3>3 DEF Has
    <3> QED  BY <3>2, <3>3
  <2>2. ASSUME NEW x, Head(s) = x \/ Has(Tail(s), x) PROVE Has(s, x)
    <3>1. CASE Head(s) = x
      BY <1>1, <3>1 DEF Has
    <3>2. CASE Has(Tail(s), x)
      <4>1. PICK i \in 1..Len(Tail(s)) : Tail(s)[i] = x
        BY <3>2 DEF Has
      <4>2. i + 1 \in 1..Len(s) /\ s[i + 1] = x
        BY <1>1, <4>1
      <4> QED  BY <4>2 DEF Has
    <3> QED  BY <2>2, <3>1, <3>2
  <2> QED  BY <2>1, <2>2
<1>6. \A x : (\E j \in (1 + 1)..Len(s) : s[j] = x) => Has(Tail(s), x)
  BY <1>2 DEF Has
<1>7. 1 \in 1..Len(s) /\ Head(s) = s[1]
  BY <1>1
<1> QED  BY <1>4, <1>5, <1>6, <1>7 DEF Ordered

LEMMA EmptyAnnounces == Ordered(<<>>) /\ \A x : ~Has(<<>>, x)
BY DEF Ordered, Has

LEMMA InitAnnounce == Init => AnnounceInv
<1> SUFFICES ASSUME Init PROVE AnnounceInv
  OBVIOUS
<1>1. ClaimInv
  BY InitClaim
<1>2. ProgramInv
  BY EmptyAnnounces DEF Init, ProgramInv, SyncTyped, HasEvent, InOrder, ToFit
<1> QED  BY <1>1, <1>2 DEF AnnounceInv, Promised, Init

-----------------------------------------------------------------------------
(* What each step does to the programs.  *)

(* A step of h leaves what another handler owes alone.  *)
LEMMA OthersOwe ==
  ASSUME NEW g, UNCHANGED <<kind, at[g], event[g], todo[g], changed[g]>>, NEW m
  PROVE  Owes(g, m)' <=> Owes(g, m)
BY DEF Owes, WillTell, Covers, Members

(* A fact that loses its promise is found either announced or forgotten.   *)
LEMMA PromiseMoves ==
  ASSUME AnnounceInv, NEW h \in Handlers,
         \A g \in Handlers \ {h} : \A m : Owes(g, m) => Owes(g, m)',
         \A m \in unsynced' \ forgotten' :
           \/ m \in unsynced \ forgotten
              /\ (Owes(h, m) => Owes(h, m)' \/ \E e \in Events : Returns(e, m)')
              /\ \A e \in Events : Returns(e, m) =>
                    Owes(h, m)' \/ \E d \in Events : Returns(d, m)'
           \/ Owes(h, m)'
  PROVE  Promised'
<1> SUFFICES ASSUME NEW m \in unsynced' \ forgotten'
             PROVE  (\E g \in Handlers : Owes(g, m)') \/ \E e \in Events : Returns(e, m)'
  BY DEF Promised
<1>1. CASE Owes(h, m)'
  BY <1>1
<1>2. CASE ~Owes(h, m)'
  <2>1. \/ \E g \in Handlers : Owes(g, m)
        \/ \E e \in Events : Returns(e, m)
    BY <1>2 DEF AnnounceInv, Promised
  <2> QED  BY <1>2, <2>1
<1> QED  BY <1>1, <1>2

LEMMA FreeProgram ==
  ASSUME AnnounceInv, NEW h \in Handlers, Free(h), UNCHANGED <<kind, unsynced>>,
         kick' \in [Events -> {"sending", "done"}]
  PROVE  /\ ProgramInv'
         /\ \A g \in Handlers \ {h} : \A m : Owes(g, m) => Owes(g, m)'
         /\ at'[h] = "idle"
<1> USE DEF AnnounceInv, ClaimInv, Typed, ProgramInv, SyncTyped
<1>1. /\ at' = [at EXCEPT ![h] = "idle"] /\ event' = [event EXCEPT ![h] = {}]
      /\ todo' = [todo EXCEPT ![h] = <<>>]
  BY DEF Free
<1>2. changed' \in [Handlers -> BOOLEAN] /\ changed' = [changed EXCEPT ![h] = FALSE]
  BY DEF Free
<1>3. HasEvent' /\ at'[h] = "idle"
  BY <1>1 DEF HasEvent
<1>4. InOrder'
  BY <1>1, EmptyAnnounces DEF InOrder
<1>5. ToFit'
  BY <1>1 DEF ToFit
<1>6. ASSUME NEW g \in Handlers \ {h}, NEW m, Owes(g, m) PROVE Owes(g, m)'
  <2>1. UNCHANGED <<at[g], event[g], todo[g]>>
    BY <1>1
  <2>2. UNCHANGED changed[g]
    BY <1>2
  <2> QED  BY <1>6, <2>1, <2>2, OthersOwe
<1> QED  BY <1>2, <1>3, <1>4, <1>5, <1>6

(* A statement of h is done: what is left still fits, and the rest of the  *)
(* program announces what the statement wrote.                             *)
LEMMA StatementProgram ==
  ASSUME AnnounceInv, NEW h \in Handlers, NEW s, Does(h, s),
         UNCHANGED <<kind, at, event, kick>>,
         unsynced' \subseteq {"actor", "giftee"},
         changed' \in [Handlers -> BOOLEAN],
         \A g \in Handlers \ {h} : changed'[g] = changed[g]
  PROVE  /\ ProgramInv'
         /\ \A g \in Handlers \ {h} : \A m : Owes(g, m) => Owes(g, m)'
         /\ at[h] = "working" /\ Head(todo[h]) = s
         /\ \A x : Has(todo[h], x) <=> s = x \/ Has(todo'[h], x)
         /\ s \in {"set", "add"} => Has(todo'[h], "announce")
         /\ s = "grant" => Has(todo'[h], "announce_giftee")
         /\ s \in {"badges", "floors"} => Has(todo'[h], "announce_changes")
<1> USE DEF AnnounceInv, ClaimInv, Typed, ProgramInv, SyncTyped
<1>1. /\ todo[h] \in Seq(Statements) /\ todo[h] # <<>> /\ Ordered(todo[h])
      /\ Head(todo[h]) = s /\ at[h] = "working"
      /\ \A g \in Handlers : todo'[g] = IF g = h THEN Tail(todo[h]) ELSE todo[g]
  BY DEF Does, InOrder
<1>2. /\ Ordered(todo'[h])
      /\ \A x : Has(todo[h], x) <=> s = x \/ Has(todo'[h], x)
      /\ s \in {"set", "add"} => Has(todo'[h], "announce")
      /\ s = "grant" => Has(todo'[h], "announce_giftee")
      /\ s \in {"badges", "floors"} => Has(todo'[h], "announce_changes")
  BY <1>1, TailAnnounces
<1>3. InOrder' /\ HasEvent'
  BY <1>1, <1>2 DEF InOrder, HasEvent
<1>4. ToFit'
  <2> SUFFICES ASSUME NEW g \in Handlers, NEW e \in event[g], at[g] = "working"
               PROVE  Fits(todo'[g], kind[e])
    BY DEF ToFit
  <2>1. Fits(todo[g], kind[e])
    BY DEF ToFit
  <2> QED  BY <1>1, <1>2, <2>1 DEF Fits
<1>5. ASSUME NEW g \in Handlers \ {h}, NEW m, Owes(g, m) PROVE Owes(g, m)'
  BY <1>1, <1>5, OthersOwe
<1>6. SyncTyped'
  BY DEF SyncTyped
<1> QED  BY <1>1, <1>2, <1>3, <1>4, <1>5, <1>6

-----------------------------------------------------------------------------
(* The statements keep the promise.  *)

(* A statement that announces nothing, and may write a fact of m0.  *)
LEMMA WriteKeeps ==
  ASSUME AnnounceInv, NEW h \in Handlers, NEW s, Does(h, s), NEW m0 \in {"actor", "giftee"},
         UNCHANGED <<kind, at, event, kick, log, forgotten>>,
         s \notin {"announce", "announce_giftee", "announce_changes"},
         changed' \in [Handlers -> BOOLEAN],
         \A g \in Handlers \ {h} : changed'[g] = changed[g],
         changed[h] => changed'[h],
         \/ unsynced' = unsynced
         \/ unsynced' = unsynced \cup {m0} /\ \/ m0 = "actor" /\ s \in {"set", "add"}
                                              \/ m0 = "giftee" /\ s = "grant"
                                              \/ m0 = "actor" /\ s \in {"badges", "floors"} /\ changed'[h]
  PROVE  ProgramInv' /\ Promised'
<1>1. unsynced' \subseteq {"actor", "giftee"}
  BY DEF AnnounceInv, ProgramInv, SyncTyped
<1>2. /\ ProgramInv'
      /\ \A g \in Handlers \ {h} : \A m : Owes(g, m) => Owes(g, m)'
      /\ at[h] = "working"
      /\ \A x : Has(todo[h], x) <=> s = x \/ Has(todo'[h], x)
      /\ s \in {"set", "add"} => Has(todo'[h], "announce")
      /\ s = "grant" => Has(todo'[h], "announce_giftee")
      /\ s \in {"badges", "floors"} => Has(todo'[h], "announce_changes")
  BY <1>1, StatementProgram
<1>3. ASSUME NEW m, Owes(h, m) PROVE Owes(h, m)'
  <2>1. WillTell(h, m)
    BY <1>2, <1>3 DEF Owes
  <2>2. WillTell(h, m)'
    BY <1>2, <2>1 DEF WillTell
  <2> QED  BY <1>2, <2>2 DEF Owes
<1>4. ASSUME NEW e \in Events, NEW m, Returns(e, m) PROVE Returns(e, m)'
  BY <1>4 DEF Returns, Covers, Members
<1>5. unsynced' # unsynced => unsynced' = unsynced \cup {m0} /\ Owes(h, m0)'
  BY <1>2 DEF Owes, WillTell
<1>6. \A m \in unsynced' \ forgotten' : m \in unsynced \ forgotten \/ Owes(h, m)'
  BY <1>5
<1>7. Promised'
  BY <1>2, <1>3, <1>4, <1>6, PromiseMoves
<1> QED  BY <1>2, <1>7

(* A statement that announces.  *)
LEMMA AnnounceKeeps ==
  ASSUME AnnounceInv, NEW h \in Handlers, Announce(h)
  PROVE  ProgramInv' /\ Promised'
<1> USE DEF delivery, badges, clues
<1>1. PICK s \in {"announce", "announce_giftee", "announce_changes"} :
        /\ Does(h, s)
        /\ s = "announce" => unsynced' = unsynced \ {"actor"}
        /\ s = "announce_giftee" => unsynced' = unsynced \ {"giftee"}
        /\ s = "announce_changes" =>
             unsynced' = IF changed[h] THEN unsynced \ {"actor"} ELSE unsynced
  BY DEF Announce, Does
<1>2. UNCHANGED <<kind, at, event, kick, log, forgotten, changed>>
  BY DEF Announce
<1>3. unsynced' \subseteq unsynced
  BY <1>1
<1>4. /\ unsynced' \subseteq {"actor", "giftee"} /\ changed' \in [Handlers -> BOOLEAN]
  BY <1>2, <1>3 DEF AnnounceInv, ProgramInv, SyncTyped
<1>5. /\ ProgramInv'
      /\ \A g \in Handlers \ {h} : \A m : Owes(g, m) => Owes(g, m)'
      /\ at[h] = "working"
      /\ \A x : Has(todo[h], x) <=> s = x \/ Has(todo'[h], x)
  BY <1>1, <1>2, <1>4, StatementProgram
<1>6. ASSUME NEW m \in unsynced', Owes(h, m) PROVE Owes(h, m)'
  <2>1. WillTell(h, m)
    BY <1>5, <1>6 DEF Owes
  <2>2. WillTell(h, m)'
    BY <1>1, <1>2, <1>5, <1>6, <2>1 DEF WillTell
  <2> QED  BY <1>2, <1>5, <2>2 DEF Owes
<1>7. ASSUME NEW e \in Events, NEW m, Returns(e, m) PROVE Returns(e, m)'
  BY <1>2, <1>7 DEF Returns, Covers, Members
<1>8. Promised'
  BY <1>2, <1>3, <1>5, <1>6, <1>7, PromiseMoves
<1> QED  BY <1>5, <1>8

LEMMA StatementKeeps ==
  ASSUME AnnounceInv, NEW h \in Handlers, Statement(h)
  PROVE  ProgramInv' /\ Promised'
<1> USE DEF delivery, badges, clues, chat, sync
<1>0. changed \in [Handlers -> BOOLEAN]
  BY DEF AnnounceInv, ProgramInv, SyncTyped
<1>1. CASE Set(h)
  <2>1. /\ Does(h, "set") /\ unsynced' = unsynced \cup {"actor"}
        /\ UNCHANGED <<kind, at, event, kick, log, forgotten, changed>>
    BY <1>1 DEF Set
  <2> QED  BY <1>0, <2>1, WriteKeeps
<1>2. CASE Add(h)
  <2>1. /\ Does(h, "add") /\ unsynced' = unsynced \cup {"actor"}
        /\ UNCHANGED <<kind, at, event, kick, log, forgotten, changed>>
    BY <1>2 DEF Add
  <2> QED  BY <1>0, <2>1, WriteKeeps
<1>3. CASE Grant(h)
  <2>1. /\ Does(h, "grant") /\ unsynced' = unsynced \cup {"giftee"}
        /\ UNCHANGED <<kind, at, event, kick, log, forgotten, changed>>
    BY <1>3 DEF Grant
  <2> QED  BY <1>0, <2>1, WriteKeeps
<1>4. CASE Count(h) \/ Bucket(h)
  <2>1. /\ \E s \in {"count", "bucket"} : Does(h, s)
        /\ UNCHANGED <<kind, at, event, kick, log, forgotten, changed, unsynced>>
    BY <1>4 DEF Count, Bucket
  <2> QED  BY <1>0, <2>1, WriteKeeps
<1>5. CASE Badges(h) \/ Floors(h)
  <2>1. /\ \E s \in {"badges", "floors"} : Does(h, s)
        /\ \E new \in BOOLEAN : Wrote(h, new)
        /\ UNCHANGED <<kind, at, event, kick, log, forgotten>>
    BY <1>5 DEF Badges, Floors
  <2>2. PICK new \in BOOLEAN : Wrote(h, new)
    BY <2>1
  <2>3. changed' = [changed EXCEPT ![h] = changed[h] \/ new]
    BY <2>2 DEF Wrote
  <2>4. /\ changed' \in [Handlers -> BOOLEAN]
        /\ \A g \in Handlers \ {h} : changed'[g] = changed[g]
        /\ changed'[h] = (changed[h] \/ new)
    BY <1>0, <2>3
  <2>5. \/ unsynced' = unsynced
        \/ unsynced' = unsynced \cup {"actor"} /\ changed'[h]
    BY <2>2, <2>4 DEF Wrote
  <2> QED  BY <2>1, <2>4, <2>5, WriteKeeps
<1>6. CASE Announce(h)
  BY <1>6, AnnounceKeeps
<1> QED  BY <1>1, <1>2, <1>3, <1>4, <1>5, <1>6 DEF Statement

-----------------------------------------------------------------------------
(* Delivery keeps the promise.  *)

LEMMA DeliverKeeps ==
  ASSUME AnnounceInv, NEW h \in Handlers, NEW e \in Events, Deliver(h, e)
  PROVE  ProgramInv' /\ Promised'
<1> USE DEF AnnounceInv, ClaimInv, Typed, ProgramInv, SyncTyped, delivery, sync
<1>1. /\ at[h] = "idle"
      /\ at' = [at EXCEPT ![h] = "received"] /\ event' = [event EXCEPT ![h] = {e}]
      /\ UNCHANGED <<kind, log, kick, todo, changed, unsynced, forgotten>>
  BY DEF Deliver
<1>2. ProgramInv'
  BY <1>1 DEF HasEvent, InOrder, ToFit
<1>3. ASSUME NEW g \in Handlers \ {h}, NEW m, Owes(g, m) PROVE Owes(g, m)'
  BY <1>1, <1>3, OthersOwe
<1>4. \A m : ~Owes(h, m)
  BY <1>1 DEF Owes
<1>5. ASSUME NEW d \in Events, NEW m, Returns(d, m) PROVE Returns(d, m)'
  BY <1>1, <1>5 DEF Returns, Covers, Members
<1>6. Promised'
  BY <1>1, <1>3, <1>4, <1>5, PromiseMoves
<1> QED  BY <1>2, <1>6

(* What Kick had to return is now what the handler owes.  *)
LEMMA ClaimKeeps ==
  ASSUME AnnounceInv, NEW h \in Handlers, Claim(h)
  PROVE  ProgramInv' /\ Promised'
<1> USE DEF AnnounceInv, ClaimInv, Typed, ProgramInv, SyncTyped, sync
<1>1. PICK e \in event[h] :
        /\ at[h] = "received"
        /\ log' = log \cup {e}
        /\ at' = [at EXCEPT ![h] = "working"]
        /\ todo' = [todo EXCEPT ![h] = Program(kind[e])]
        /\ UNCHANGED <<kind, kick, event, changed, unsynced, forgotten>>
  BY DEF Claim
<1>2. /\ e \in Events /\ kind[e] \in Kinds /\ event[h] = {e}
      /\ at'[h] = "working" /\ todo'[h] = Program(kind[e])
  BY <1>1 DEF OneEvent
<1>3. /\ Ordered(todo'[h]) /\ Fits(todo'[h], kind[e])
      /\ kind[e] \notin Chats => Has(todo'[h], "announce")
      /\ kind[e] = "gifts" => Has(todo'[h], "announce_giftee")
  BY <1>2, ProgramAnnounces
<1>4. \A g \in Handlers \ {h} : UNCHANGED <<at[g], event[g], todo[g], changed[g]>>
  BY <1>1
<1>5. InOrder' /\ HasEvent' /\ SyncTyped'
  BY <1>1, <1>3, <1>4 DEF InOrder, HasEvent
<1>6. ToFit'
  BY <1>1, <1>2, <1>3, <1>4 DEF ToFit
<1>7. ASSUME NEW g \in Handlers \ {h}, NEW m, Owes(g, m) PROVE Owes(g, m)'
  BY <1>1, <1>4, <1>7, OthersOwe
<1>8. \A m : ~Owes(h, m)
  BY <1>1 DEF Owes
<1>9. ASSUME NEW d \in Events, NEW m, Returns(d, m) PROVE Owes(h, m)' \/ Returns(d, m)'
  <2>1. CASE d = e
    <3>1. kind[e] \notin Chats /\ m \in Members(e)
      BY <1>9, <2>1 DEF Returns, Covers
    <3>2. WillTell(h, m)'
      BY <1>3, <3>1 DEF Members, WillTell
    <3> QED  BY <1>2, <3>2 DEF Owes
  <2>2. CASE d # e
    BY <1>1, <1>9, <2>2 DEF Returns, Covers, Members
  <2> QED  BY <2>1, <2>2
<1>10. Promised'
  BY <1>1, <1>7, <1>8, <1>9, PromiseMoves
<1> QED  BY <1>5, <1>6, <1>10

(* The handler has nothing left to announce, and the event it answers for  *)
(* is in the log: nobody else was to bring it back.                        *)
LEMMA AnswerKeeps ==
  ASSUME AnnounceInv, NEW h \in Handlers, Duplicate(h) \/ Finish(h)
  PROVE  ProgramInv' /\ Promised'
<1> USE DEF AnnounceInv, ClaimInv, Typed, ProgramInv, SyncTyped, sync
<1>1. PICK e \in event[h] :
        /\ \/ at[h] = "received" /\ ~Unseen(e)
           \/ at[h] = "working" /\ todo[h] = <<>>
        /\ Ack(e) /\ Free(h)
        /\ UNCHANGED <<kind, log, unsynced, forgotten>>
  BY DEF Duplicate, Finish
<1>2. e \in log /\ e \in Events
  BY <1>1 DEF Unseen, HeldIsLogged, Holds
<1>3. /\ kick' \in [Events -> {"sending", "done"}]
      /\ \A d \in Events \ {e} : kick'[d] = kick[d]
  BY <1>1 DEF Ack
<1>4. /\ ProgramInv'
      /\ \A g \in Handlers \ {h} : \A m : Owes(g, m) => Owes(g, m)'
  BY <1>1, <1>3, FreeProgram
<1>5. \A m : ~Owes(h, m)
  BY <1>1, EmptyAnnounces DEF Owes, WillTell
<1>6. ASSUME NEW d \in Events, NEW m, Returns(d, m) PROVE Returns(d, m)'
  BY <1>1, <1>2, <1>3, <1>6 DEF Returns, Covers, Members
<1>7. Promised'
  BY <1>1, <1>4, <1>5, <1>6, PromiseMoves
<1> QED  BY <1>4, <1>7

(* A failed handler still owes what its event covers; what only a badge    *)
(* told is forgotten.                                                      *)
LEMMA FailKeeps ==
  ASSUME AnnounceInv, NEW h \in Handlers, Fail(h)
  PROVE  ProgramInv' /\ Promised'
<1> USE DEF AnnounceInv, ClaimInv, Typed, ProgramInv, SyncTyped, delivery, clues
<1>1. /\ at[h] = "working" /\ at' = [at EXCEPT ![h] = "failed"]
      /\ todo' = [todo EXCEPT ![h] = <<>>]
      /\ UNCHANGED <<kind, log, kick, event, unsynced>>
  BY DEF Fail
<1>2. /\ changed' = [changed EXCEPT ![h] = FALSE]
      /\ forgotten' = IF changed[h] THEN forgotten \cup {"actor"} ELSE forgotten
  BY DEF Fail
<1>3. changed' \in [Handlers -> BOOLEAN] /\ \A g \in Handlers \ {h} : changed'[g] = changed[g]
  BY <1>2
<1>4. InOrder' /\ HasEvent' /\ SyncTyped'
  BY <1>1, <1>3, EmptyAnnounces DEF InOrder, HasEvent
<1>5. ToFit'
  BY <1>1 DEF ToFit
<1>6. ASSUME NEW g \in Handlers \ {h}, NEW m, Owes(g, m) PROVE Owes(g, m)'
  BY <1>1, <1>3, <1>6, OthersOwe
<1>7. PICK e \in event[h] : Fits(todo[h], kind[e])
  BY <1>1 DEF HasEvent, ToFit
<1>8. ASSUME NEW m \in unsynced' \ forgotten', Owes(h, m) PROVE Owes(h, m)'
  <2>1. WillTell(h, m)
    BY <1>1, <1>8 DEF Owes
  <2>2. ~(m = "actor" /\ changed[h])
    BY <1>2, <1>8
  <2>3. \/ m = "actor" /\ Has(todo[h], "announce")
        \/ m = "giftee" /\ Has(todo[h], "announce_giftee")
    BY <2>1, <2>2 DEF WillTell
  <2>4. "gifts" \notin Chats
    BY DEF Chats
  <2>5. Covers(e, m)
    BY <1>7, <2>3, <2>4 DEF Fits, Covers, Members
  <2>6. Covers(e, m)'
    BY <1>1, <2>5 DEF Covers, Members
  <2> QED  BY <1>1, <2>6 DEF Owes
<1>9. ASSUME NEW d \in Events, NEW m, Returns(d, m) PROVE Returns(d, m)'
  BY <1>1, <1>9 DEF Returns, Covers, Members
<1>10. forgotten \subseteq forgotten'
  BY <1>2
<1>11. Promised'
  BY <1>1, <1>6, <1>8, <1>9, <1>10, PromiseMoves
<1> QED  BY <1>4, <1>5, <1>11

(* The event is given back: Kick returns it, or it is forgotten.  *)
LEMMA ReopenKeeps ==
  ASSUME AnnounceInv, NEW h \in Handlers, Reopen(h)
  PROVE  ProgramInv' /\ Promised'
<1> USE DEF AnnounceInv, ClaimInv, Typed, ProgramInv, SyncTyped
<1>1. PICK e \in event[h] :
        /\ at[h] = "failed" /\ Free(h)
        /\ log' = log \ {e}
        /\ Spoil({e} \cap {d \in Events : kick[d] = "done"})
        /\ UNCHANGED <<kind, kick, unsynced>>
  BY DEF Reopen, Reopened
<1>2. event[h] = {e} /\ e \in Events
  BY <1>1 DEF OneEvent
<1>3. /\ ProgramInv'
      /\ \A g \in Handlers \ {h} : \A m : Owes(g, m) => Owes(g, m)'
  BY <1>1, FreeProgram
<1>4. forgotten \subseteq forgotten'
  BY <1>1 DEF Spoil
<1>5. kick[e] = "done" => Members(e) \subseteq forgotten'
  BY <1>1, <1>2 DEF Spoil
<1>6. ASSUME NEW m \in unsynced' \ forgotten', Owes(h, m) PROVE Returns(e, m)'
  <2>1. Covers(e, m)
    BY <1>1, <1>2, <1>6 DEF Owes
  <2>2. kick[e] = "sending"
    BY <1>2, <1>5, <1>6, <2>1 DEF Covers
  <2>3. Covers(e, m)'
    BY <1>1, <2>1 DEF Covers, Members
  <2> QED  BY <1>1, <2>2, <2>3 DEF Returns
<1>7. ASSUME NEW d \in Events, NEW m, Returns(d, m) PROVE Returns(d, m)'
  BY <1>1, <1>7 DEF Returns, Covers, Members
<1>8. Promised'
  BY <1>1, <1>2, <1>3, <1>4, <1>6, <1>7, PromiseMoves
<1> QED  BY <1>3, <1>8

(* The request is gone: what it owed is forgotten.  *)
LEMMA LossKeeps ==
  ASSUME AnnounceInv, NEW h \in Handlers, ReopenFails(h) \/ CutOff(h)
  PROVE  ProgramInv' /\ Promised'
<1> USE DEF AnnounceInv, ClaimInv, Typed, ProgramInv, SyncTyped, delivery
<1>1. /\ Free(h) /\ UNCHANGED <<kind, log, kick, unsynced>>
      /\ Spoil(IF at[h] = "received" THEN {} ELSE event[h])
  BY DEF ReopenFails, CutOff
<1>2. /\ ProgramInv'
      /\ \A g \in Handlers \ {h} : \A m : Owes(g, m) => Owes(g, m)'
  BY <1>1, FreeProgram
<1>3. forgotten \subseteq forgotten'
  BY <1>1 DEF Spoil
<1>4. ASSUME NEW m, Owes(h, m) PROVE m \in forgotten'
  <2>1. at[h] \in {"working", "failed"} /\ event[h] # {}
    BY <1>4 DEF Owes, HasEvent
  <2>2. \A e \in event[h] : Members(e) \subseteq forgotten'
    BY <1>1, <2>1 DEF Spoil
  <2>3. CASE at[h] = "working"
    <3>1. PICK e \in event[h] : Fits(todo[h], kind[e])
      BY <2>1, <2>3 DEF ToFit
    <3>2. m \in Members(e)
      BY <1>4, <2>3, <3>1 DEF Owes, WillTell, Fits, Members
    <3> QED  BY <2>2, <3>2
  <2>4. CASE at[h] = "failed"
    BY <1>4, <2>2, <2>4 DEF Owes, Covers
  <2> QED  BY <2>1, <2>3, <2>4
<1>5. ASSUME NEW d \in Events, NEW m, Returns(d, m) PROVE Returns(d, m)'
  BY <1>1, <1>5 DEF Returns, Covers, Members
<1>6. Promised'
  BY <1>1, <1>2, <1>3, <1>4, <1>5, PromiseMoves
<1> QED  BY <1>2, <1>6

(* The days, the recount and the sync of the whole channel.  *)
LEMMA RestKeeps ==
  ASSUME AnnounceInv,
         RecountStart \/ RecountWrite \/ ChannelSync \/ Midnight \/ UNCHANGED vars
  PROVE  ProgramInv' /\ Promised'
<1> USE DEF handler, delivery, sync
<1>1. /\ UNCHANGED <<kind, log, kick, at, event, todo, changed>>
      /\ unsynced' = {} \/ UNCHANGED <<unsynced, forgotten>>
  BY DEF RecountStart, RecountWrite, ChannelSync, Midnight, vars
<1>2. ProgramInv'
  BY <1>1 DEF AnnounceInv, ProgramInv, SyncTyped, HasEvent, InOrder, ToFit
<1>3. ASSUME NEW g \in Handlers, NEW m, Owes(g, m) PROVE Owes(g, m)'
  BY <1>1, <1>3, OthersOwe
<1>4. ASSUME NEW d \in Events, NEW m, Returns(d, m) PROVE Returns(d, m)'
  BY <1>1, <1>4 DEF Returns, Covers, Members
<1>5. Promised'
  BY <1>1, <1>3, <1>4 DEF AnnounceInv, Promised
<1> QED  BY <1>2, <1>5

LEMMA NextAnnounce == AnnounceInv /\ [Next]_vars => AnnounceInv'
<1> SUFFICES ASSUME AnnounceInv, [Next]_vars PROVE AnnounceInv'
  OBVIOUS
<1>1. ClaimInv'
  BY NextClaim DEF AnnounceInv
<1>2. ProgramInv' /\ Promised'
  BY DeliverKeeps, ClaimKeeps, AnswerKeeps, StatementKeeps, ReopenKeeps, FailKeeps,
     LossKeeps, RestKeeps DEF Next, Serve
<1> QED  BY <1>1, <1>2 DEF AnnounceInv

(* When no event is being handled or on its way, every fact that was       *)
(* written has been followed by a sync of its member, whatever overlapped  *)
(* or failed, unless the sync was lost with the handler that owed it.      *)
THEOREM FactsAnnounced == Spec => []Announced
<1>1. AnnounceInv => Announced
  BY DEF AnnounceInv, Promised, Announced, AtRest, Owes, Returns
<1> QED  BY <1>1, InitAnnounce, NextAnnounce, PTL DEF Spec
=============================================================================
