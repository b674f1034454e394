---------------------------- MODULE AccountsProofs ----------------------------
(***************************************************************************)
(* Proofs about a member's Kick account, for any number of members, Kick   *)
(* accounts, requests, workers, changes and faults.                        *)
(*                                                                         *)
(* The properties speak of members and accounts that have come to rest.    *)
(* The invariants say, of those that have not, what is still on its way    *)
(* that will set them right: a job, a request that is going to queue one,  *)
(* a sync that has yet to look, an event whose member is not looked up.    *)
(***************************************************************************)
EXTENDS Accounts, TLAPS

(* Whoever works works for a member, and knows the account it acts on.     *)
Standing ==
  /\ \A a \in Actors :
       /\ pc[a] = "idle" <=> who[a] = NoOne
       /\ pc[a] \in {"upsert", "rows", "seed"} => kick[a] # NoOne
  /\ \A r \in Requests : pc[r] \notin SyncPhases
  /\ \A w \in Workers : pc[w] \notin RequestPhases

(* A Kick account is linked to one member at a time. *)
OneOwner ==
  \A m, n \in Members : link[m] = link[n] /\ link[m] # NoOne => m = n

(* A recorded follow belongs to a member who still has the account, or     *)
(* left it behind, or is just unlinking it.                                *)
Leaving(k) == \E r \in Requests : pc[r] = "rows" /\ kick[r] = k
FactsOwned ==
  \A k \in Kicks :
    /\ rows[k] # "follows" => by[k] = NoOne
    /\ rows[k] = "follows" =>
         \/ by[k] = NoOne
         \/ by[k] \in Members /\ link[by[k]] = k
         \/ k \in left
         \/ Leaving(k)

(* So do the messages in the day buckets and in the counter, and those an  *)
(* unlink left in the buckets.                                             *)
MessagesOwned ==
  \A k \in Kicks :
    \/ buckets[k] \cup counted[k] \subseteq OwnersOf(k) \cup {NoOne} \cup outlived[k]
    \/ k \in left
    \/ Leaving(k)

(* A sync of the member is queued, or a request is going to queue it, or   *)
(* the histories say why there is none.                                    *)
Late(m) == \E r \in Requests : who[r] = m /\ pc[r] \notin {"idle", "upsert"}
Coming(m) == m \in syncDue \cup cut \cup missed \/ Late(m)

(* A linked member without a row has a sync coming, or one that has yet to *)
(* make the row of the account they have now.                              *)
Seeding(m) ==
  \E w \in Workers :
    who[w] = m /\ (pc[w] = "find" \/ (pc[w] = "seed" /\ kick[w] = link[m]))
Listed ==
  \A m \in Members :
    link[m] # NoOne /\ rows[link[m]] = "none" => Coming(m) \/ Seeding(m)

(* What was decided for a member and is no longer so, and a role that is   *)
(* not as it should be while nobody works for the member, will be put      *)
(* right by a sync that is owed; or two syncs of one member have crossed,  *)
(* or the last one was refused.                                            *)
Owed(m) ==
  \/ Coming(m)
  \/ event # NoOne /\ link[m] = event
  \/ m \in crossed \cup refused
Decided ==
  \A w \in Workers :
    /\ pc[w] = "add" /\ ~Qualifies(who[w]) => Owed(who[w])
    /\ pc[w] = "remove" /\ Qualifies(who[w]) => Owed(who[w])
Alone ==
  \A v, w \in Workers :
    v # w /\ who[v] = who[w] /\ who[w] # NoOne => who[w] \in crossed
Busy(m) == \E w \in Workers : who[w] = m
Shown ==
  \A m \in Members : Owed(m) \/ Busy(m) \/ (m \in held <=> Qualifies(m))

AccountInv ==
  /\ TypeOK /\ Standing /\ OneOwner /\ FactsOwned /\ MessagesOwned
  /\ Listed /\ Decided /\ Alone /\ Shown
-----------------------------------------------------------------------------
(* The types, in four parts: what an actor keeps, the link and the rows,   *)
(* the messages, and the rest.                                             *)
LocalsOK ==
  /\ pc \in [Actors -> Phases]
  /\ who \in [Actors -> Members \cup {NoOne}]
  /\ kick \in [Actors -> Kicks \cup {NoOne}]
  /\ probe \in {Idle} \cup [who : Members, kick : Kicks]

RowsOK ==
  /\ link \in [Members -> Kicks \cup {NoOne}]
  /\ rows \in [Kicks -> {"none", "bare", "follows"}]
  /\ by \in [Kicks -> Members \cup {NoOne}]

ChatOK ==
  /\ buckets \in [Kicks -> SUBSET (Members \cup {NoOne})]
  /\ counted \in [Kicks -> SUBSET (Members \cup {NoOne})]
  /\ outlived \in [Kicks -> SUBSET (Members \cup {NoOne})]

SetsOK ==
  /\ states \in [States -> Members \cup {NoOne}] /\ uses \in [States -> Nat]
  /\ truth \subseteq Kicks /\ rule \in Rules /\ held \subseteq Members
  /\ syncDue \subseteq Members /\ probeDue \subseteq Members
  /\ event \in Kicks \cup {NoOne}
  /\ cut \subseteq Members /\ missed \subseteq Members /\ left \subseteq Kicks
  /\ crossed \subseteq Members /\ refused \subseteq Members
  /\ changes \in 0..MaxChanges /\ faults \in 0..MaxFaults

(* The parts together are the type invariant. *)
LEMMA TypesSplit == TypeOK <=> LocalsOK /\ RowsOK /\ SetsOK /\ ChatOK
  BY DEF TypeOK, LocalsOK, RowsOK, SetsOK, ChatOK

(* An account is linked to members only. *)
LEMMA OwnersAreMembers == \A k : OwnersOf(k) \subseteq Members
  BY DEF OwnersOf

(* A recorded follow keeps the types, whoever the account belongs to. *)
LEMMA RecordTyped ==
  ASSUME RowsOK, NEW k \in Kicks, Record(k)
  PROVE  /\ rows' \in [Kicks -> {"none", "bare", "follows"}]
         /\ by' \in [Kicks -> Members \cup {NoOne}]
<1>1. rows' \in [Kicks -> {"none", "bare", "follows"}]
  BY DEF RowsOK, Record
<1>2. CASE rows[k] = "follows" \/ OwnersOf(k) = {}
  BY <1>1, <1>2 DEF RowsOK, Record
<1>3. CASE ~(rows[k] = "follows" \/ OwnersOf(k) = {})
  <2> DEFINE o == CHOOSE m \in OwnersOf(k) : TRUE
  <2>1. o \in Members
    BY <1>3, OwnersAreMembers
  <2>2. by' = [by EXCEPT ![k] = o]
    BY <1>3 DEF Record
  <2> HIDE DEF o
  <2> QED  BY <1>1, <2>1, <2>2 DEF RowsOK
<1> QED  BY <1>2, <1>3

(* Every step keeps the types. *)
LEMMA TypesKeep == TypeOK /\ Standing /\ [Next]_vars => TypeOK'
<1> SUFFICES ASSUME LocalsOK, RowsOK, SetsOK, ChatOK, Standing, [Next]_vars
             PROVE  (LocalsOK /\ RowsOK /\ SetsOK /\ ChatOK)'
  BY TypesSplit DEF TypeOK, LocalsOK, RowsOK, SetsOK, ChatOK
<1> DEFINE Typed == LocalsOK /\ RowsOK /\ SetsOK /\ ChatOK
<1> USE AccountsAssumption
    DEF LocalsOK, RowsOK, SetsOK, ChatOK, Actors, Phases, RequestPhases, SyncPhases, Idle,
        Goto, Done, Change, Fault, Consume, AfterSeed, oauth, facts, chat, given, due, local,
        history, budgets
<1>1. ASSUME NEW s \in States, NEW m \in Members, IssueState(s, m) PROVE Typed'
  <2>1. LocalsOK'
    BY <1>1 DEF IssueState
  <2>2. RowsOK'
    BY <1>1 DEF IssueState
  <2>3. SetsOK'
    BY <1>1 DEF IssueState
  <2>4. ChatOK'
    BY <1>1 DEF IssueState
  <2> QED  BY <2>1, <2>2, <2>3, <2>4
<1>2. ASSUME NEW s \in States, StateLapses(s) PROVE Typed'
  <2>1. LocalsOK'
    BY <1>2 DEF StateLapses
  <2>2. RowsOK'
    BY <1>2 DEF StateLapses
  <2>3. SetsOK'
    BY <1>2 DEF StateLapses
  <2>4. ChatOK'
    BY <1>2 DEF StateLapses
  <2> QED  BY <2>1, <2>2, <2>3, <2>4
<1>3. ASSUME NEW s \in States, CallbackRefused(s) PROVE Typed'
  <2>1. LocalsOK'
    BY <1>3 DEF CallbackRefused
  <2>2. RowsOK'
    BY <1>3 DEF CallbackRefused
  <2>3. SetsOK'
    BY <1>3 DEF CallbackRefused
  <2>4. ChatOK'
    BY <1>3 DEF CallbackRefused
  <2> QED  BY <2>1, <2>2, <2>3, <2>4
<1>4. ASSUME NEW s \in States, NEW r \in Requests, ViewerCallback(r, s) PROVE Typed'
  <2>1. LocalsOK'
    BY <1>4 DEF ViewerCallback
  <2>2. RowsOK'
    BY <1>4 DEF ViewerCallback
  <2>3. SetsOK'
    BY <1>4 DEF ViewerCallback
  <2>4. ChatOK'
    BY <1>4 DEF ViewerCallback
  <2> QED  BY <2>1, <2>2, <2>3, <2>4
<1>5. ASSUME NEW r \in Requests, NEW m \in Members, Unlink(r, m) PROVE Typed'
  <2>1. LocalsOK'
    BY <1>5 DEF Unlink
  <2>2. RowsOK'
    BY <1>5 DEF Unlink
  <2>3. SetsOK'
    BY <1>5 DEF Unlink
  <2>4. ChatOK'
    BY <1>5 DEF Unlink
  <2> QED  BY <2>1, <2>2, <2>3, <2>4
<1>6. ASSUME NEW r \in Requests, Taken(r) PROVE Typed'
  <2>1. LocalsOK'
    BY <1>6 DEF Taken
  <2>2. RowsOK'
    BY <1>6 DEF Taken
  <2>3. SetsOK'
    BY <1>6 DEF Taken
  <2>4. ChatOK'
    BY <1>6 DEF Taken
  <2> QED  BY <2>1, <2>2, <2>3, <2>4
<1>7. ASSUME NEW r \in Requests, Upsert(r) PROVE Typed'
  <2>0. who[r] \in Members /\ kick[r] \in Kicks
    BY <1>7 DEF Upsert, Standing
  <2>1. LocalsOK'
    BY <1>7, <2>0 DEF Upsert
  <2>2. RowsOK'
    BY <1>7, <2>0 DEF Upsert
  <2>3. SetsOK'
    BY <1>7, <2>0 DEF Upsert
  <2>4. ChatOK'
    BY <1>7 DEF Upsert
  <2> QED  BY <2>1, <2>2, <2>3, <2>4
<1>8. ASSUME NEW a \in Actors, FindAccount(a) PROVE Typed'
  <2>0. who[a] \in Members
    BY <1>8 DEF FindAccount, Standing
  <2>1. LocalsOK'
    BY <1>8, <2>0 DEF FindAccount
  <2>2. RowsOK'
    BY <1>8 DEF FindAccount
  <2>3. SetsOK'
    BY <1>8 DEF FindAccount
  <2>4. ChatOK'
    BY <1>8 DEF FindAccount
  <2> QED  BY <2>1, <2>2, <2>3, <2>4
<1>9. ASSUME NEW a \in Actors, SeedRow(a) PROVE Typed'
  <2>0. kick[a] \in Kicks
    BY <1>9 DEF SeedRow, Standing
  <2>1. LocalsOK'
    BY <1>9, <2>0 DEF SeedRow
  <2>2. RowsOK'
    BY <1>9, <2>0 DEF SeedRow
  <2>3. SetsOK'
    BY <1>9, <2>0 DEF SeedRow
  <2>4. ChatOK'
    BY <1>9 DEF SeedRow
  <2> QED  BY <2>1, <2>2, <2>3, <2>4
<1>10. ASSUME NEW r \in Requests, DeleteRows(r) PROVE Typed'
  <2>0. kick[r] \in Kicks
    BY <1>10 DEF DeleteRows, Standing
  <2>1. LocalsOK'
    BY <1>10, <2>0 DEF DeleteRows
  <2>2. RowsOK'
    BY <1>10, <2>0 DEF DeleteRows
  <2>3. SetsOK'
    BY <1>10, <2>0, OwnersAreMembers DEF DeleteRows
  <2>4. ChatOK'
    BY <1>10, <2>0 DEF DeleteRows
  <2> QED  BY <2>1, <2>2, <2>3, <2>4
<1>11. ASSUME NEW r \in Requests, Enqueue(r) PROVE Typed'
  <2>0. who[r] \in Members
    BY <1>11 DEF Enqueue, Standing
  <2>1. LocalsOK'
    BY <1>11 DEF Enqueue
  <2>2. RowsOK'
    BY <1>11 DEF Enqueue
  <2>3. SetsOK'
    BY <1>11, <2>0 DEF Enqueue
  <2>4. ChatOK'
    BY <1>11 DEF Enqueue
  <2> QED  BY <2>1, <2>2, <2>3, <2>4
<1>12. ASSUME NEW r \in Requests, RequestDies(r) PROVE Typed'
  <2>0. /\ who[r] \in Members
        /\ pc[r] = "rows" => kick[r] \in Kicks
    BY <1>12 DEF RequestDies, Standing
  <2>1. LocalsOK'
    BY <1>12 DEF RequestDies
  <2>2. RowsOK'
    BY <1>12 DEF RequestDies
  <2>3. SetsOK'
    BY <1>12, <2>0 DEF RequestDies
  <2>4. ChatOK'
    BY <1>12 DEF RequestDies
  <2> QED  BY <2>1, <2>2, <2>3, <2>4
<1>13. ASSUME NEW m \in Members, Refresh(m) PROVE Typed'
  <2>1. LocalsOK'
    BY <1>13 DEF Refresh
  <2>2. RowsOK'
    BY <1>13 DEF Refresh
  <2>3. SetsOK'
    BY <1>13 DEF Refresh
  <2>4. ChatOK'
    BY <1>13 DEF Refresh
  <2> QED  BY <2>1, <2>2, <2>3, <2>4
<1>14. ASSUME NEW m \in Members, Backfill(m) PROVE Typed'
  <2>1. LocalsOK'
    BY <1>14 DEF Backfill
  <2>2. RowsOK'
    BY <1>14 DEF Backfill
  <2>3. SetsOK'
    BY <1>14 DEF Backfill
  <2>4. ChatOK'
    BY <1>14 DEF Backfill
  <2> QED  BY <2>1, <2>2, <2>3, <2>4
<1>15. ASSUME NEW w \in Workers, StartSync(w) PROVE Typed'
  <2>1. LocalsOK'
    BY <1>15 DEF StartSync
  <2>2. RowsOK'
    BY <1>15 DEF StartSync
  <2>3. SetsOK'
    BY <1>15 DEF StartSync
  <2>4. ChatOK'
    BY <1>15 DEF StartSync
  <2> QED  BY <2>1, <2>2, <2>3, <2>4
<1>16. ASSUME NEW w \in Workers, Evaluate(w) PROVE Typed'
  <2>1. LocalsOK'
    BY <1>16 DEF Evaluate
  <2>2. RowsOK'
    BY <1>16 DEF Evaluate
  <2>3. SetsOK'
    BY <1>16 DEF Evaluate
  <2>4. ChatOK'
    BY <1>16 DEF Evaluate
  <2> QED  BY <2>1, <2>2, <2>3, <2>4
<1>17. ASSUME NEW w \in Workers, ApplySync(w) PROVE Typed'
  <2>0. who[w] \in Members
    BY <1>17 DEF ApplySync, Standing
  <2>1. LocalsOK'
    BY <1>17 DEF ApplySync
  <2>2. RowsOK'
    BY <1>17 DEF ApplySync
  <2>3. SetsOK'
    BY <1>17, <2>0 DEF ApplySync
  <2>4. ChatOK'
    BY <1>17 DEF ApplySync
  <2> QED  BY <2>1, <2>2, <2>3, <2>4
<1>18. ASSUME NEW w \in Workers, SyncFails(w) PROVE Typed'
  <2>0. who[w] \in Members
    BY <1>18 DEF SyncFails, Standing
  <2>1. LocalsOK'
    BY <1>18 DEF SyncFails
  <2>2. RowsOK'
    BY <1>18 DEF SyncFails
  <2>3. SetsOK'
    BY <1>18, <2>0 DEF SyncFails
  <2>4. ChatOK'
    BY <1>18 DEF SyncFails
  <2> QED  BY <2>1, <2>2, <2>3, <2>4
<1>19. CASE BulkSync
  <2>1. LocalsOK'
    BY <1>19 DEF BulkSync
  <2>2. RowsOK'
    BY <1>19 DEF BulkSync
  <2>3. SetsOK'
    BY <1>19 DEF BulkSync
  <2>4. ChatOK'
    BY <1>19 DEF BulkSync
  <2> QED  BY <2>1, <2>2, <2>3, <2>4
<1>20. CASE StartProbe
  <2>1. LocalsOK'
    BY <1>20 DEF StartProbe
  <2>2. RowsOK'
    BY <1>20 DEF StartProbe
  <2>3. SetsOK'
    BY <1>20 DEF StartProbe
  <2>4. ChatOK'
    BY <1>20 DEF StartProbe
  <2> QED  BY <2>1, <2>2, <2>3, <2>4
<1>21. CASE ProbeAnswers
  <2>0. probe.who \in Members /\ probe.kick \in Kicks
    BY <1>21 DEF ProbeAnswers
  <2>1. LocalsOK'
    BY <1>21 DEF ProbeAnswers
  <2>2. RowsOK'
    BY <1>21, <2>0, RecordTyped DEF ProbeAnswers
  <2>3. SetsOK'
    BY <1>21, <2>0, OwnersAreMembers DEF ProbeAnswers
  <2>4. ChatOK'
    BY <1>21, <2>0 DEF ProbeAnswers, Record
  <2> QED  BY <2>1, <2>2, <2>3, <2>4
<1>22. CASE ProbeUnavailable
  <2>1. LocalsOK'
    BY <1>22 DEF ProbeUnavailable
  <2>2. RowsOK'
    BY <1>22 DEF ProbeUnavailable
  <2>3. SetsOK'
    BY <1>22 DEF ProbeUnavailable
  <2>4. ChatOK'
    BY <1>22 DEF ProbeUnavailable
  <2> QED  BY <2>1, <2>2, <2>3, <2>4
<1>23. ASSUME NEW k \in Kicks, FollowEvent(k) PROVE Typed'
  <2>1. LocalsOK'
    BY <1>23 DEF FollowEvent
  <2>2. RowsOK'
    BY <1>23, RecordTyped DEF FollowEvent
  <2>3. SetsOK'
    BY <1>23 DEF FollowEvent
  <2>4. ChatOK'
    BY <1>23 DEF FollowEvent, Record
  <2> QED  BY <2>1, <2>2, <2>3, <2>4
<1>24. CASE EventOwner
  <2>1. LocalsOK'
    BY <1>24 DEF EventOwner
  <2>2. RowsOK'
    BY <1>24 DEF EventOwner
  <2>3. SetsOK'
    BY <1>24, OwnersAreMembers DEF EventOwner
  <2>4. ChatOK'
    BY <1>24 DEF EventOwner
  <2> QED  BY <2>1, <2>2, <2>3, <2>4
<1>26. ASSUME NEW w \in Workers, SyncRefused(w) PROVE Typed'
  <2>0. who[w] \in Members
    BY <1>26 DEF SyncRefused, Standing
  <2>1. LocalsOK'
    BY <1>26 DEF SyncRefused
  <2>2. RowsOK'
    BY <1>26 DEF SyncRefused
  <2>3. SetsOK'
    BY <1>26, <2>0 DEF SyncRefused
  <2>4. ChatOK'
    BY <1>26 DEF SyncRefused
  <2> QED  BY <2>1, <2>2, <2>3, <2>4
<1>27. ASSUME NEW k \in Kicks, ChatMessage(k) PROVE Typed'
  <2>1. LocalsOK'
    BY <1>27 DEF ChatMessage
  <2>2. RowsOK'
    BY <1>27 DEF ChatMessage
  <2>3. SetsOK'
    BY <1>27 DEF ChatMessage
  <2>4. ChatOK'
    BY <1>27, OwnersAreMembers DEF ChatMessage
  <2> QED  BY <2>1, <2>2, <2>3, <2>4
<1>28. ASSUME NEW k \in Kicks, BucketsLapse(k) PROVE Typed'
  <2>1. LocalsOK'
    BY <1>28 DEF BucketsLapse
  <2>2. RowsOK'
    BY <1>28 DEF BucketsLapse
  <2>3. SetsOK'
    BY <1>28 DEF BucketsLapse
  <2>4. ChatOK'
    BY <1>28 DEF BucketsLapse
  <2> QED  BY <2>1, <2>2, <2>3, <2>4
<1>29. CASE Recount
  <2>1. LocalsOK'
    BY <1>29 DEF Recount
  <2>2. RowsOK'
    BY <1>29 DEF Recount
  <2>3. SetsOK'
    BY <1>29 DEF Recount
  <2>4. ChatOK'
    BY <1>29 DEF Recount
  <2> QED  BY <2>1, <2>2, <2>3, <2>4
<1>25. CASE UNCHANGED vars
  BY <1>25 DEF vars
<1> QED
  BY <1>1, <1>2, <1>3, <1>4, <1>5, <1>6, <1>7, <1>8, <1>9, <1>10, <1>11, <1>12, <1>13,
     <1>14, <1>15, <1>16, <1>17, <1>18, <1>19, <1>20, <1>21, <1>22, <1>23, <1>24, <1>25,
     <1>26, <1>27, <1>28, <1>29
     DEF Next, RequestStep, WorkerStep, Actors

(* Every step leaves everybody standing. *)
LEMMA StandingKeeps == TypeOK /\ Standing /\ [Next]_vars => Standing'
<1> SUFFICES ASSUME TypeOK, Standing, [Next]_vars
             PROVE  Standing'
  OBVIOUS
<1> USE AccountsAssumption
    DEF TypeOK, Standing, Actors, Phases, RequestPhases, SyncPhases, Goto, Done, AfterSeed,
        Consume, local
<1>1. ASSUME NEW s \in States, NEW m \in Members, IssueState(s, m) PROVE Standing'
  BY <1>1 DEF IssueState
<1>2. ASSUME NEW s \in States, StateLapses(s) PROVE Standing'
  BY <1>2 DEF StateLapses
<1>3. ASSUME NEW s \in States, CallbackRefused(s) PROVE Standing'
  BY <1>3 DEF CallbackRefused
<1>4. ASSUME NEW s \in States, NEW r \in Requests, ViewerCallback(r, s) PROVE Standing'
  BY <1>4 DEF ViewerCallback
<1>5. ASSUME NEW r \in Requests, NEW m \in Members, Unlink(r, m) PROVE Standing'
  BY <1>5 DEF Unlink
<1>6. ASSUME NEW r \in Requests, Taken(r) PROVE Standing'
  BY <1>6 DEF Taken
<1>7. ASSUME NEW r \in Requests, Upsert(r) PROVE Standing'
  BY <1>7 DEF Upsert
<1>8. ASSUME NEW a \in Actors, FindAccount(a) PROVE Standing'
  BY <1>8 DEF FindAccount
<1>9. ASSUME NEW a \in Actors, SeedRow(a) PROVE Standing'
  BY <1>9 DEF SeedRow
<1>10. ASSUME NEW r \in Requests, DeleteRows(r) PROVE Standing'
  BY <1>10 DEF DeleteRows
<1>11. ASSUME NEW r \in Requests, Enqueue(r) PROVE Standing'
  BY <1>11 DEF Enqueue
<1>12. ASSUME NEW r \in Requests, RequestDies(r) PROVE Standing'
  BY <1>12 DEF RequestDies
<1>13. ASSUME NEW m \in Members, Refresh(m) PROVE Standing'
  BY <1>13 DEF Refresh
<1>14. ASSUME NEW m \in Members, Backfill(m) PROVE Standing'
  BY <1>14 DEF Backfill
<1>15. ASSUME NEW w \in Workers, StartSync(w) PROVE Standing'
  BY <1>15 DEF StartSync
<1>16. ASSUME NEW w \in Workers, Evaluate(w) PROVE Standing'
  BY <1>16 DEF Evaluate
<1>17. ASSUME NEW w \in Workers, ApplySync(w) PROVE Standing'
  BY <1>17 DEF ApplySync
<1>18. ASSUME NEW w \in Workers, SyncFails(w) PROVE Standing'
  BY <1>18 DEF SyncFails
<1>19. CASE BulkSync
  BY <1>19 DEF BulkSync
<1>20. CASE StartProbe
  BY <1>20 DEF StartProbe
<1>21. CASE ProbeAnswers
  BY <1>21 DEF ProbeAnswers
<1>22. CASE ProbeUnavailable
  BY <1>22 DEF ProbeUnavailable
<1>23. ASSUME NEW k \in Kicks, FollowEvent(k) PROVE Standing'
  BY <1>23 DEF FollowEvent
<1>24. CASE EventOwner
  BY <1>24 DEF EventOwner
<1>26. ASSUME NEW w \in Workers, SyncRefused(w) PROVE Standing'
  BY <1>26 DEF SyncRefused
<1>27. ASSUME NEW k \in Kicks, ChatMessage(k) PROVE Standing'
  BY <1>27 DEF ChatMessage
<1>28. ASSUME NEW k \in Kicks, BucketsLapse(k) PROVE Standing'
  BY <1>28 DEF BucketsLapse
<1>29. CASE Recount
  BY <1>29 DEF Recount
<1>25. CASE UNCHANGED vars
  BY <1>25 DEF vars
<1> QED
  BY <1>1, <1>2, <1>3, <1>4, <1>5, <1>6, <1>7, <1>8, <1>9, <1>10, <1>11, <1>12, <1>13,
     <1>14, <1>15, <1>16, <1>17, <1>18, <1>19, <1>20, <1>21, <1>22, <1>23, <1>24, <1>25,
     <1>26, <1>27, <1>28, <1>29
     DEF Next, RequestStep, WorkerStep, Actors

(* Who writes what. *)
LEMMA Writers ==
  ASSUME [Next]_vars
  PROVE  /\ UNCHANGED rule
         /\ \/ UNCHANGED oauth
            \/ \E s \in States :
                 \/ \E m \in Members : IssueState(s, m)
                 \/ StateLapses(s) \/ CallbackRefused(s)
                 \/ \E r \in Requests : ViewerCallback(r, s)
         /\ \/ UNCHANGED link
            \/ \E r \in Requests : Upsert(r) \/ \E m \in Members : Unlink(r, m)
         /\ \/ UNCHANGED rows
            \/ \E a \in Actors : SeedRow(a)
            \/ \E r \in Requests : DeleteRows(r)
            \/ ProbeAnswers \/ \E k \in Kicks : FollowEvent(k) \/ ChatMessage(k)
         /\ UNCHANGED event \/ (\E k \in Kicks : FollowEvent(k)) \/ EventOwner
         /\ \/ UNCHANGED <<crossed, refused>>
            \/ \E w \in Workers : StartSync(w) \/ SyncRefused(w)
         /\ \/ UNCHANGED chat
            \/ \E r \in Requests : DeleteRows(r)
            \/ \E k \in Kicks : ChatMessage(k) \/ BucketsLapse(k)
            \/ Recount
  BY DEF Next, vars, RequestStep, WorkerStep, IssueState, StateLapses, CallbackRefused,
         ViewerCallback, Unlink, Taken, Upsert, FindAccount, SeedRow, DeleteRows, Enqueue,
         RequestDies, Refresh, Backfill, StartSync, Evaluate, ApplySync, SyncFails, BulkSync,
         StartProbe, ProbeAnswers, ProbeUnavailable, FollowEvent, EventOwner, Actors,
         SyncRefused, ChatMessage, BucketsLapse, Recount, Record, oauth, facts, chat, given,
         history

(* Nobody links an account that is another's. *)
LEMMA OwnerKeeps == TypeOK /\ Standing /\ OneOwner /\ [Next]_vars => OneOwner'
<1> SUFFICES ASSUME TypeOK, Standing, OneOwner, [Next]_vars
             PROVE  OneOwner'
  OBVIOUS
<1> USE AccountsAssumption DEF TypeOK, OneOwner
<1>1. CASE UNCHANGED link
  BY <1>1
<1>2. ASSUME NEW r \in Requests, Upsert(r) PROVE OneOwner'
  BY <1>2 DEF Upsert, Standing, OwnersOf, Actors
<1>3. ASSUME NEW r \in Requests, NEW m \in Members, Unlink(r, m) PROVE OneOwner'
  BY <1>3 DEF Unlink
<1> QED  BY <1>1, <1>2, <1>3, Writers

(* A fact that is recorded now belongs to whoever has the account now. *)
LEMMA RecordOwned ==
  ASSUME TypeOK, FactsOwned, NEW k \in Kicks, Record(k),
         UNCHANGED <<link, left, pc, kick>>
  PROVE  FactsOwned'
<1>1. ASSUME NEW j \in Kicks, j # k PROVE rows'[j] = rows[j] /\ by'[j] = by[j]
  <2>1. rows'[j] = rows[j]
    BY <1>1 DEF Record, TypeOK
  <2>2. CASE rows[k] = "follows" \/ OwnersOf(k) = {}
    BY <2>1, <2>2 DEF Record
  <2>3. CASE ~(rows[k] = "follows" \/ OwnersOf(k) = {})
    BY <1>1, <2>1, <2>3 DEF Record, TypeOK
  <2> QED  BY <2>2, <2>3
<1>2. rows'[k] = "follows"
  BY DEF Record, TypeOK
<1>3. \/ by'[k] = NoOne
      \/ by'[k] \in Members /\ link[by'[k]] = k
      \/ k \in left \/ Leaving(k)
  <2>1. CASE rows[k] = "follows" \/ OwnersOf(k) = {}
    BY <2>1 DEF Record, FactsOwned
  <2>2. CASE ~(rows[k] = "follows" \/ OwnersOf(k) = {})
    <3> DEFINE o == CHOOSE m \in OwnersOf(k) : TRUE
    <3>1. o \in OwnersOf(k)
      BY <2>2
    <3>2. by' = [by EXCEPT ![k] = o]
      BY <2>2 DEF Record
    <3> HIDE DEF o
    <3> QED  BY <3>1, <3>2 DEF OwnersOf, TypeOK
  <2> QED  BY <2>1, <2>2
<1> QED  BY <1>1, <1>2, <1>3 DEF FactsOwned, Leaving

(* Whoever leaves an account takes the facts along or is remembered. *)
LEMMA FactsKeep == TypeOK /\ Standing /\ FactsOwned /\ [Next]_vars => FactsOwned'
<1> SUFFICES ASSUME TypeOK, Standing, FactsOwned, [Next]_vars
             PROVE  FactsOwned'
  OBVIOUS
<1> USE AccountsAssumption
    DEF TypeOK, FactsOwned, Leaving, Standing, Actors, RequestPhases, SyncPhases, Phases, Goto,
        Done, AfterSeed, facts, local, history
<1>1. ASSUME NEW s \in States, NEW m \in Members, IssueState(s, m) PROVE FactsOwned'
  BY <1>1 DEF IssueState
<1>2. ASSUME NEW s \in States, StateLapses(s) PROVE FactsOwned'
  BY <1>2 DEF StateLapses
<1>3. ASSUME NEW s \in States, CallbackRefused(s) PROVE FactsOwned'
  BY <1>3 DEF CallbackRefused
<1>4. ASSUME NEW s \in States, NEW r \in Requests, ViewerCallback(r, s) PROVE FactsOwned'
  BY <1>4 DEF ViewerCallback
<1>5. ASSUME NEW r \in Requests, NEW m \in Members, Unlink(r, m) PROVE FactsOwned'
  BY <1>5 DEF Unlink
<1>6. ASSUME NEW r \in Requests, Taken(r) PROVE FactsOwned'
  BY <1>6 DEF Taken
<1>7. ASSUME NEW r \in Requests, Upsert(r) PROVE FactsOwned'
  BY <1>7 DEF Upsert
<1>8. ASSUME NEW a \in Actors, FindAccount(a) PROVE FactsOwned'
  BY <1>8 DEF FindAccount
<1>9. ASSUME NEW a \in Actors, SeedRow(a) PROVE FactsOwned'
  BY <1>9 DEF SeedRow
<1>10. ASSUME NEW r \in Requests, DeleteRows(r) PROVE FactsOwned'
  BY <1>10 DEF DeleteRows
<1>11. ASSUME NEW r \in Requests, Enqueue(r) PROVE FactsOwned'
  BY <1>11 DEF Enqueue
<1>12. ASSUME NEW r \in Requests, RequestDies(r) PROVE FactsOwned'
  BY <1>12 DEF RequestDies
<1>13. ASSUME NEW m \in Members, Refresh(m) PROVE FactsOwned'
  BY <1>13 DEF Refresh
<1>14. ASSUME NEW m \in Members, Backfill(m) PROVE FactsOwned'
  BY <1>14 DEF Backfill
<1>15. ASSUME NEW w \in Workers, StartSync(w) PROVE FactsOwned'
  BY <1>15 DEF StartSync
<1>16. ASSUME NEW w \in Workers, Evaluate(w) PROVE FactsOwned'
  BY <1>16 DEF Evaluate
<1>17. ASSUME NEW w \in Workers, ApplySync(w) PROVE FactsOwned'
  BY <1>17 DEF ApplySync
<1>18. ASSUME NEW w \in Workers, SyncFails(w) PROVE FactsOwned'
  BY <1>18 DEF SyncFails
<1>19. CASE BulkSync
  BY <1>19 DEF BulkSync
<1>20. CASE StartProbe
  BY <1>20 DEF StartProbe
<1>21. CASE ProbeAnswers
  <2>1. probe.kick \in Kicks
    BY <1>21 DEF ProbeAnswers, TypeOK, Idle
  <2>2. /\ \/ Record(probe.kick)
           \/ UNCHANGED facts
        /\ UNCHANGED <<link, left, pc, kick>>
    BY <1>21 DEF ProbeAnswers, local
  <2>3. CASE UNCHANGED facts
    BY <2>2, <2>3 DEF facts
  <2> QED  BY <2>1, <2>2, <2>3, RecordOwned
<1>22. CASE ProbeUnavailable
  BY <1>22 DEF ProbeUnavailable
<1>23. ASSUME NEW k \in Kicks, FollowEvent(k) PROVE FactsOwned'
  <2>1. Record(k) /\ UNCHANGED <<link, left, pc, kick>>
    BY <1>23 DEF FollowEvent, local, history
  <2> QED  BY <2>1, RecordOwned
<1>24. CASE EventOwner
  BY <1>24 DEF EventOwner
<1>26. ASSUME NEW w \in Workers, SyncRefused(w) PROVE FactsOwned'
  BY <1>26 DEF SyncRefused
<1>27. ASSUME NEW k \in Kicks, ChatMessage(k) PROVE FactsOwned'
  BY <1>27 DEF ChatMessage
<1>28. ASSUME NEW k \in Kicks, BucketsLapse(k) PROVE FactsOwned'
  BY <1>28 DEF BucketsLapse
<1>29. CASE Recount
  BY <1>29 DEF Recount
<1>25. CASE UNCHANGED vars
  BY <1>25 DEF vars
<1> QED
  BY <1>1, <1>2, <1>3, <1>4, <1>5, <1>6, <1>7, <1>8, <1>9, <1>10, <1>11, <1>12, <1>13,
     <1>14, <1>15, <1>16, <1>17, <1>18, <1>19, <1>20, <1>21, <1>22, <1>23, <1>24, <1>25,
     <1>26, <1>27, <1>28, <1>29
     DEF Next, RequestStep, WorkerStep, Actors

(* Only the deletion of its rows ends an account's being left. *)
LEMMA LeftStays ==
  ASSUME TypeOK, Standing, [Next]_vars, NEW j \in Kicks, j \in left \/ Leaving(j)
  PROVE  \/ j \in left' \/ Leaving(j)'
         \/ \E r \in Requests : DeleteRows(r) /\ kick[r] = j
<1> DEFINE Stays == \/ j \in left' \/ Leaving(j)'
                    \/ \E r \in Requests : DeleteRows(r) /\ kick[r] = j
<1> SUFFICES Stays
  OBVIOUS
<1> USE AccountsAssumption
    DEF TypeOK, Standing, Leaving, Actors, RequestPhases, Phases, SyncPhases, Goto, Done,
        AfterSeed, local, history
<1>1. ASSUME NEW s \in States, NEW m \in Members, IssueState(s, m) PROVE Stays
  BY <1>1 DEF IssueState
<1>2. ASSUME NEW s \in States, StateLapses(s) PROVE Stays
  BY <1>2 DEF StateLapses
<1>3. ASSUME NEW s \in States, CallbackRefused(s) PROVE Stays
  BY <1>3 DEF CallbackRefused
<1>4. ASSUME NEW s \in States, NEW r \in Requests, ViewerCallback(r, s) PROVE Stays
  BY <1>4 DEF ViewerCallback
<1>5. ASSUME NEW r \in Requests, NEW m \in Members, Unlink(r, m) PROVE Stays
  BY <1>5 DEF Unlink
<1>6. ASSUME NEW r \in Requests, Taken(r) PROVE Stays
  BY <1>6 DEF Taken
<1>7. ASSUME NEW r \in Requests, Upsert(r) PROVE Stays
  BY <1>7 DEF Upsert
<1>8. ASSUME NEW a \in Actors, FindAccount(a) PROVE Stays
  BY <1>8 DEF FindAccount
<1>9. ASSUME NEW a \in Actors, SeedRow(a) PROVE Stays
  BY <1>9 DEF SeedRow
<1>10. ASSUME NEW r \in Requests, DeleteRows(r) PROVE Stays
  BY <1>10 DEF DeleteRows
<1>11. ASSUME NEW r \in Requests, Enqueue(r) PROVE Stays
  BY <1>11 DEF Enqueue
<1>12. ASSUME NEW r \in Requests, RequestDies(r) PROVE Stays
  BY <1>12 DEF RequestDies
<1>13. ASSUME NEW m \in Members, Refresh(m) PROVE Stays
  BY <1>13 DEF Refresh
<1>14. ASSUME NEW m \in Members, Backfill(m) PROVE Stays
  BY <1>14 DEF Backfill
<1>15. ASSUME NEW w \in Workers, StartSync(w) PROVE Stays
  BY <1>15 DEF StartSync
<1>16. ASSUME NEW w \in Workers, Evaluate(w) PROVE Stays
  BY <1>16 DEF Evaluate
<1>17. ASSUME NEW w \in Workers, ApplySync(w) PROVE Stays
  BY <1>17 DEF ApplySync
<1>18. ASSUME NEW w \in Workers, SyncFails(w) PROVE Stays
  BY <1>18 DEF SyncFails
<1>19. CASE BulkSync
  BY <1>19 DEF BulkSync
<1>20. CASE StartProbe
  BY <1>20 DEF StartProbe
<1>21. CASE ProbeAnswers
  BY <1>21 DEF ProbeAnswers
<1>22. CASE ProbeUnavailable
  BY <1>22 DEF ProbeUnavailable
<1>23. ASSUME NEW k \in Kicks, FollowEvent(k) PROVE Stays
  BY <1>23 DEF FollowEvent
<1>24. CASE EventOwner
  BY <1>24 DEF EventOwner
<1>25. CASE UNCHANGED vars
  BY <1>25 DEF vars
<1>26. ASSUME NEW w \in Workers, SyncRefused(w) PROVE Stays
  BY <1>26 DEF SyncRefused
<1>27. ASSUME NEW k \in Kicks, ChatMessage(k) PROVE Stays
  BY <1>27 DEF ChatMessage
<1>28. ASSUME NEW k \in Kicks, BucketsLapse(k) PROVE Stays
  BY <1>28 DEF BucketsLapse
<1>29. CASE Recount
  BY <1>29 DEF Recount
<1> QED
  BY <1>1, <1>2, <1>3, <1>4, <1>5, <1>6, <1>7, <1>8, <1>9, <1>10, <1>11, <1>12, <1>13,
     <1>14, <1>15, <1>16, <1>17, <1>18, <1>19, <1>20, <1>21, <1>22, <1>23, <1>24, <1>25,
     <1>26, <1>27, <1>28, <1>29
     DEF Next, RequestStep, WorkerStep, Actors

(* An account that somebody leaves is being unlinked, or is remembered; one *)
(* that is left or being unlinked stays so until its rows are deleted.     *)
LEMMA LeavingStays ==
  ASSUME TypeOK, Standing, [Next]_vars, NEW k \in Kicks
  PROVE  /\ (OwnersOf(k) \subseteq OwnersOf(k)') \/ (k \in left \/ Leaving(k))'
         /\ k \in left \/ Leaving(k) =>
              (k \in left \/ Leaving(k))' \/ \E r \in Requests : DeleteRows(r) /\ kick[r] = k
<1> DEFINE Gone == k \in left \/ Leaving(k)
           Cleared == \E r \in Requests : DeleteRows(r) /\ kick[r] = k
<1>1. (OwnersOf(k) \subseteq OwnersOf(k)') \/ Gone'
  <2> USE DEF TypeOK, OwnersOf
  <2>1. CASE UNCHANGED link
    BY <2>1
  <2>2. ASSUME NEW r \in Requests, Upsert(r)
        PROVE  (OwnersOf(k) \subseteq OwnersOf(k)') \/ Gone'
    <3>1. \A m \in Members : m # who[r] => link'[m] = link[m]
      BY <2>2 DEF Upsert
    <3>2. who[r] \in Members /\ link'[who[r]] = kick[r]
      BY <2>2, AccountsAssumption DEF Upsert, Standing, Actors
    <3>3. link[who[r]] = k /\ kick[r] # k => k \in left'
      BY <2>2, AccountsAssumption DEF Upsert
    <3> QED  BY <3>1, <3>2, <3>3
  <2>3. ASSUME NEW r \in Requests, NEW m \in Members, Unlink(r, m)
        PROVE  (OwnersOf(k) \subseteq OwnersOf(k)') \/ Gone'
    BY <2>3 DEF Unlink, Goto, Leaving, Actors
  <2> QED  BY <2>1, <2>2, <2>3, Writers
<1>2. Gone => Gone' \/ Cleared
  BY LeftStays
<1> QED  BY <1>1, <1>2

(* Messages go with the row, or stay with their account's owner, or in the *)
(* buckets that outlive the unlink.                                        *)
LEMMA MessagesKeep ==
  ASSUME TypeOK, Standing, MessagesOwned, [Next]_vars
  PROVE  MessagesOwned'
<1> SUFFICES ASSUME NEW k \in Kicks
             PROVE  (\/ buckets[k] \cup counted[k]
                          \subseteq OwnersOf(k) \cup {NoOne} \cup outlived[k]
                     \/ k \in left
                     \/ Leaving(k))'
  BY DEF MessagesOwned
<1> DEFINE Gone == k \in left \/ Leaving(k)
           Whose == OwnersOf(k) \cup {NoOne} \cup outlived[k]
           Own == buckets[k] \cup counted[k] \subseteq Whose
<1> SUFFICES Own' \/ Gone'
  OBVIOUS
<1> HIDE DEF Gone, Whose, Own
<1>0. Own \/ Gone
  BY DEF MessagesOwned, Gone, Own, Whose
<1>1. ASSUME NEW r \in Requests, DeleteRows(r), kick[r] = k PROVE Own' \/ Gone'
  <2>1. counted'[k] = {} /\ outlived'[k] = buckets[k] /\ buckets' = buckets
    BY <1>1 DEF DeleteRows, TypeOK
  <2> QED  BY <2>1 DEF Own, Whose
<1>2. CASE ~(\E r \in Requests : DeleteRows(r) /\ kick[r] = k) /\ ~Gone'
  <2>1. (OwnersOf(k) \subseteq OwnersOf(k)') /\ ~Gone
    BY <1>2, LeavingStays DEF Gone
  <2>2. Own
    BY <1>0, <2>1
  <2>3. CASE UNCHANGED chat
    BY <2>1, <2>2, <2>3 DEF chat, Own, Whose
  <2>4. ASSUME NEW r \in Requests, DeleteRows(r) PROVE Own'
    <3>1. counted'[k] = counted[k] /\ outlived'[k] = outlived[k] /\ buckets' = buckets
      BY <1>2, <2>4 DEF DeleteRows, TypeOK
    <3> QED  BY <2>1, <2>2, <3>1 DEF Own, Whose
  <2>5. ASSUME NEW j \in Kicks, ChatMessage(j) PROVE Own'
    <3>1. /\ buckets'[k] \subseteq buckets[k] \cup OwnersOf(k) \cup {NoOne}
          /\ counted'[k] \subseteq counted[k] \cup OwnersOf(k) \cup {NoOne}
          /\ outlived' = outlived
      BY <2>5 DEF ChatMessage, TypeOK
    <3> QED  BY <2>1, <2>2, <3>1 DEF Own, Whose
  <2>6. ASSUME NEW j \in Kicks, BucketsLapse(j) PROVE Own'
    <3>1. buckets'[k] \subseteq buckets[k] /\ counted' = counted /\ outlived' = outlived
      BY <2>6 DEF BucketsLapse, TypeOK
    <3> QED  BY <2>1, <2>2, <3>1 DEF Own, Whose
  <2>7. CASE Recount
    <3>1. counted'[k] \subseteq buckets[k] /\ buckets' = buckets /\ outlived' = outlived
      BY <2>7 DEF Recount, TypeOK
    <3> QED  BY <2>1, <2>2, <3>1 DEF Own, Whose
  <2> QED  BY <2>3, <2>4, <2>5, <2>6, <2>7, Writers
<1> QED  BY <1>1, <1>2

(* A worker takes the sync of a member. *)
StartOf(w, m) ==
  /\ pc[w] = "idle" /\ pc' = [pc EXCEPT ![w] = "find"]
  /\ who' = [who EXCEPT ![w] = m]
  /\ syncDue' = syncDue \ {m} /\ cut' = cut \ {m} /\ missed' = missed \ {m}
  /\ crossed' = IF \E v \in Workers : who[v] = m THEN crossed \cup {m}
                ELSE crossed \ {m}
  /\ refused' = refused \ {m}
  /\ UNCHANGED <<link, rows, by, kick, event, held, rule>>

(* Only the start of a member's sync takes what was coming for them. *)
LEMMA ComingStays ==
  ASSUME TypeOK, Standing, [Next]_vars, NEW n \in Members, Coming(n)
  PROVE  Coming(n)' \/ \E w \in Workers : StartOf(w, n)
<1> DEFINE Kept == Coming(n)' \/ \E w \in Workers : StartOf(w, n)
<1> SUFFICES Kept
  OBVIOUS
<1> USE AccountsAssumption
    DEF TypeOK, Standing, Actors, Phases, RequestPhases, SyncPhases, Goto, Done, AfterSeed,
        due, local, history
<1> USE DEF Coming, Late
<1>1. ASSUME NEW s \in States, NEW m \in Members, IssueState(s, m) PROVE Kept
  BY <1>1 DEF IssueState
<1>2. ASSUME NEW s \in States, StateLapses(s) PROVE Kept
  BY <1>2 DEF StateLapses
<1>3. ASSUME NEW s \in States, CallbackRefused(s) PROVE Kept
  BY <1>3 DEF CallbackRefused
<1>4. ASSUME NEW s \in States, NEW r \in Requests, ViewerCallback(r, s) PROVE Kept
  BY <1>4 DEF ViewerCallback
<1>5. ASSUME NEW r \in Requests, NEW m \in Members, Unlink(r, m) PROVE Kept
  BY <1>5 DEF Unlink
<1>6. ASSUME NEW r \in Requests, Taken(r) PROVE Kept
  BY <1>6 DEF Taken
<1>7. ASSUME NEW r \in Requests, Upsert(r) PROVE Kept
  BY <1>7 DEF Upsert
<1>8. ASSUME NEW a \in Actors, FindAccount(a) PROVE Kept
  BY <1>8 DEF FindAccount
<1>9. ASSUME NEW a \in Actors, SeedRow(a) PROVE Kept
  BY <1>9 DEF SeedRow
<1>10. ASSUME NEW r \in Requests, DeleteRows(r) PROVE Kept
  BY <1>10 DEF DeleteRows
<1>11. ASSUME NEW r \in Requests, Enqueue(r) PROVE Kept
  BY <1>11 DEF Enqueue
<1>12. ASSUME NEW r \in Requests, RequestDies(r) PROVE Kept
  BY <1>12 DEF RequestDies
<1>13. ASSUME NEW m \in Members, Refresh(m) PROVE Kept
  BY <1>13 DEF Refresh
<1>14. ASSUME NEW m \in Members, Backfill(m) PROVE Kept
  BY <1>14 DEF Backfill
<1>15. ASSUME NEW w \in Workers, StartSync(w) PROVE Kept
  <2>1. PICK m \in syncDue : StartOf(w, m)
    BY <1>15 DEF StartSync, StartOf, facts, given
  <2>2. CASE m = n
    BY <2>1, <2>2
  <2>3. CASE m # n
    <3>1. \A r \in Requests : who'[r] = who[r] /\ pc'[r] = pc[r]
      BY <2>1 DEF StartOf
    <3>2. n \in syncDue \cup cut \cup missed => n \in (syncDue \cup cut \cup missed)'
      BY <2>1, <2>3 DEF StartOf
    <3> QED  BY <3>1, <3>2
  <2> QED  BY <2>2, <2>3
<1>16. ASSUME NEW w \in Workers, Evaluate(w) PROVE Kept
  BY <1>16 DEF Evaluate
<1>17. ASSUME NEW w \in Workers, ApplySync(w) PROVE Kept
  BY <1>17 DEF ApplySync
<1>18. ASSUME NEW w \in Workers, SyncFails(w) PROVE Kept
  BY <1>18 DEF SyncFails
<1>19. CASE BulkSync
  BY <1>19 DEF BulkSync
<1>20. CASE StartProbe
  BY <1>20 DEF StartProbe
<1>21. CASE ProbeAnswers
  BY <1>21 DEF ProbeAnswers
<1>22. CASE ProbeUnavailable
  BY <1>22 DEF ProbeUnavailable
<1>23. ASSUME NEW k \in Kicks, FollowEvent(k) PROVE Kept
  BY <1>23 DEF FollowEvent
<1>24. CASE EventOwner
  BY <1>24 DEF EventOwner
<1>26. ASSUME NEW w \in Workers, SyncRefused(w) PROVE Kept
  BY <1>26 DEF SyncRefused
<1>27. ASSUME NEW k \in Kicks, ChatMessage(k) PROVE Kept
  BY <1>27 DEF ChatMessage
<1>28. ASSUME NEW k \in Kicks, BucketsLapse(k) PROVE Kept
  BY <1>28 DEF BucketsLapse
<1>29. CASE Recount
  BY <1>29 DEF Recount
<1>25. CASE UNCHANGED vars
  BY <1>25 DEF vars
<1> QED
  BY <1>1, <1>2, <1>3, <1>4, <1>5, <1>6, <1>7, <1>8, <1>9, <1>10, <1>11, <1>12, <1>13,
     <1>14, <1>15, <1>16, <1>17, <1>18, <1>19, <1>20, <1>21, <1>22, <1>23, <1>24, <1>25,
     <1>26, <1>27, <1>28, <1>29
     DEF Next, RequestStep, WorkerStep, Actors

(* Whoever changes a member's account will queue their sync. *)
LEMMA LinkMoves ==
  ASSUME TypeOK, Standing, [Next]_vars, NEW n \in Members, link'[n] # link[n]
  PROVE  Coming(n)'
<1> USE AccountsAssumption DEF TypeOK, Standing, Actors, Goto, Coming, Late
<1>1. ASSUME NEW r \in Requests, Upsert(r) PROVE Coming(n)'
  BY <1>1 DEF Upsert
<1>2. ASSUME NEW r \in Requests, NEW m \in Members, Unlink(r, m) PROVE Coming(n)'
  BY <1>2 DEF Unlink
<1> QED  BY <1>1, <1>2, Writers

(* A member's row is deleted or filled with a sync to come. *)
LEMMA RowsStay ==
  ASSUME TypeOK, Standing, OneOwner, [Next]_vars, NEW n \in Members, link[n] # NoOne,
         link'[n] = link[n], rows'[link[n]] # rows[link[n]]
  PROVE  \/ Coming(n)'
         \/ rows'[link[n]] = "follows" /\ event' = link[n]
         \/ rows[link[n]] = "none" /\ rows'[link[n]] = "bare"
<1> DEFINE Told == \/ Coming(n)'
                   \/ rows'[link[n]] = "follows" /\ event' = link[n]
                   \/ rows[link[n]] = "none" /\ rows'[link[n]] = "bare"
<1> USE DEF TypeOK, OwnersOf
<1>1. ASSUME NEW a \in Actors, SeedRow(a) PROVE Told
  BY <1>1 DEF SeedRow
<1>2. ASSUME NEW r \in Requests, DeleteRows(r) PROVE Told
  BY <1>2 DEF DeleteRows, Coming
<1>3. CASE ProbeAnswers
  <2>1. /\ probe.kick = link[n]
        /\ syncDue' = syncDue \cup {probe.who}
        /\ missed' = missed \cup (OwnersOf(probe.kick) \ {probe.who})
    BY <1>3 DEF ProbeAnswers, Record, facts
  <2> QED  BY <2>1 DEF Coming
<1>4. ASSUME NEW k \in Kicks, FollowEvent(k) PROVE Told
  BY <1>4 DEF FollowEvent, Record
<1>5. ASSUME NEW k \in Kicks, ChatMessage(k) PROVE Told
  BY <1>5 DEF ChatMessage
<1> QED  BY <1>1, <1>2, <1>3, <1>4, <1>5, Writers

(* So whether a member qualifies changes with a sync to come. *)
LEMMA Requalified ==
  ASSUME TypeOK, Standing, OneOwner, [Next]_vars, NEW n \in Members,
         ~(Qualifies(n)' <=> Qualifies(n))
  PROVE  Owed(n)'
<1>1. rule' = rule
  BY Writers
<1>2. CASE link'[n] # link[n]
  BY <1>2, LinkMoves DEF Owed
<1>3. CASE link'[n] = link[n]
  <2>1. link[n] # NoOne /\ rows'[link[n]] # rows[link[n]]
    BY <1>1, <1>3 DEF Qualifies
  <2>2. ~(rows[link[n]] = "none" /\ rows'[link[n]] = "bare")
    BY <1>1, <1>3, <2>1 DEF Qualifies
  <2>3. link[n] \in Kicks
    BY <2>1 DEF TypeOK
  <2> QED  BY <1>3, <2>1, <2>2, <2>3, RowsStay, AccountsAssumption DEF Owed
<1> QED  BY <1>2, <1>3

(* A sync that has yet to make a member's row makes it, or comes again. *)
LEMMA SeedingStays ==
  ASSUME TypeOK, Standing, [Next]_vars, NEW n \in Members, Seeding(n),
         link'[n] = link[n], link[n] # NoOne
  PROVE  Seeding(n)' \/ Coming(n)' \/ rows'[link[n]] # "none" 
<1> DEFINE Kept == Seeding(n)' \/ Coming(n)' \/ rows'[link[n]] # "none"
<1> SUFFICES Kept
  OBVIOUS
<1> USE AccountsAssumption
    DEF TypeOK, Standing, Actors, Phases, RequestPhases, SyncPhases, Goto, Done, AfterSeed,
        due, local, history
<1> USE DEF Coming, Seeding, facts
<1>1. ASSUME NEW s \in States, NEW m \in Members, IssueState(s, m) PROVE Kept
  BY <1>1 DEF IssueState
<1>2. ASSUME NEW s \in States, StateLapses(s) PROVE Kept
  BY <1>2 DEF StateLapses
<1>3. ASSUME NEW s \in States, CallbackRefused(s) PROVE Kept
  BY <1>3 DEF CallbackRefused
<1>4. ASSUME NEW s \in States, NEW r \in Requests, ViewerCallback(r, s) PROVE Kept
  BY <1>4 DEF ViewerCallback
<1>5. ASSUME NEW r \in Requests, NEW m \in Members, Unlink(r, m) PROVE Kept
  BY <1>5 DEF Unlink
<1>6. ASSUME NEW r \in Requests, Taken(r) PROVE Kept
  BY <1>6 DEF Taken
<1>7. ASSUME NEW r \in Requests, Upsert(r) PROVE Kept
  BY <1>7 DEF Upsert
<1>8. ASSUME NEW a \in Actors, FindAccount(a) PROVE Kept
  BY <1>8 DEF FindAccount
<1>9. ASSUME NEW a \in Actors, SeedRow(a) PROVE Kept
  BY <1>9 DEF SeedRow
<1>10. ASSUME NEW r \in Requests, DeleteRows(r) PROVE Kept
  BY <1>10 DEF DeleteRows
<1>11. ASSUME NEW r \in Requests, Enqueue(r) PROVE Kept
  BY <1>11 DEF Enqueue
<1>12. ASSUME NEW r \in Requests, RequestDies(r) PROVE Kept
  BY <1>12 DEF RequestDies
<1>13. ASSUME NEW m \in Members, Refresh(m) PROVE Kept
  BY <1>13 DEF Refresh
<1>14. ASSUME NEW m \in Members, Backfill(m) PROVE Kept
  BY <1>14 DEF Backfill
<1>15. ASSUME NEW w \in Workers, StartSync(w) PROVE Kept
  BY <1>15 DEF StartSync
<1>16. ASSUME NEW w \in Workers, Evaluate(w) PROVE Kept
  BY <1>16 DEF Evaluate
<1>17. ASSUME NEW w \in Workers, ApplySync(w) PROVE Kept
  BY <1>17 DEF ApplySync
<1>18. ASSUME NEW w \in Workers, SyncFails(w) PROVE Kept
  BY <1>18 DEF SyncFails
<1>19. CASE BulkSync
  BY <1>19 DEF BulkSync
<1>20. CASE StartProbe
  BY <1>20 DEF StartProbe
<1>21. CASE ProbeAnswers
  BY <1>21 DEF ProbeAnswers
<1>22. CASE ProbeUnavailable
  BY <1>22 DEF ProbeUnavailable
<1>23. ASSUME NEW k \in Kicks, FollowEvent(k) PROVE Kept
  BY <1>23 DEF FollowEvent
<1>24. CASE EventOwner
  BY <1>24 DEF EventOwner
<1>26. ASSUME NEW w \in Workers, SyncRefused(w) PROVE Kept
  BY <1>26 DEF SyncRefused
<1>27. ASSUME NEW k \in Kicks, ChatMessage(k) PROVE Kept
  BY <1>27 DEF ChatMessage
<1>28. ASSUME NEW k \in Kicks, BucketsLapse(k) PROVE Kept
  BY <1>28 DEF BucketsLapse
<1>29. CASE Recount
  BY <1>29 DEF Recount
<1>25. CASE UNCHANGED vars
  BY <1>25 DEF vars
<1> QED
  BY <1>1, <1>2, <1>3, <1>4, <1>5, <1>6, <1>7, <1>8, <1>9, <1>10, <1>11, <1>12, <1>13,
     <1>14, <1>15, <1>16, <1>17, <1>18, <1>19, <1>20, <1>21, <1>22, <1>23, <1>24, <1>25,
     <1>26, <1>27, <1>28, <1>29
     DEF Next, RequestStep, WorkerStep, Actors

(* A linked member without a row stays one who will get it. *)
LEMMA ListedKeeps ==
  ASSUME TypeOK, Standing, OneOwner, Listed, [Next]_vars
  PROVE  Listed'
<1> SUFFICES ASSUME NEW n \in Members, link'[n] # NoOne, rows'[link'[n]] = "none"
             PROVE  Coming(n)' \/ Seeding(n)'
  BY DEF Listed
<1>1. CASE link'[n] # link[n]
  BY <1>1, LinkMoves
<1>2. CASE link'[n] = link[n] /\ rows[link[n]] # "none"
  BY <1>2, RowsStay
<1>3. CASE link'[n] = link[n] /\ rows[link[n]] = "none"
  <2>1. CASE Coming(n)
    <3>1. ASSUME NEW w \in Workers, StartOf(w, n) PROVE Seeding(n)'
      BY <3>1 DEF StartOf, Seeding, TypeOK, Actors
    <3> QED  BY <2>1, <3>1, ComingStays
  <2>2. CASE Seeding(n)
    BY <1>3, <2>2, SeedingStays
  <2> QED  BY <1>3, <2>1, <2>2 DEF Listed
<1> QED  BY <1>1, <1>2, <1>3

(* An event is told to whoever has the account, or they have left it. *)
LEMMA EventTold ==
  ASSUME TypeOK, Standing, [Next]_vars, NEW n \in Members, event # NoOne, link[n] = event
  PROVE  Coming(n)' \/ (event' # NoOne /\ link'[n] = event')
<1>1. CASE link'[n] # link[n]
  BY <1>1, LinkMoves
<1>2. CASE link'[n] = link[n] /\ UNCHANGED event
  BY <1>2
<1>3. CASE EventOwner
  BY <1>3 DEF EventOwner, OwnersOf, Coming
<1>4. ASSUME NEW k \in Kicks, FollowEvent(k) PROVE FALSE
  BY <1>4 DEF FollowEvent
<1> QED  BY <1>1, <1>2, <1>3, <1>4, Writers

(* Only a sync that begins, alone, clears a crossing; a refusal goes when  *)
(* a sync begins.                                                          *)
LEMMA CrossedStays ==
  ASSUME [Next]_vars, NEW n \in crossed \cup refused
  PROVE  \/ n \in (crossed \cup refused)'
         \/ \E w \in Workers : StartOf(w, n) /\ ~Busy(n)
<1>1. CASE UNCHANGED <<crossed, refused>>
  BY <1>1
<1>2. ASSUME NEW w \in Workers, StartSync(w)
      PROVE  n \in (crossed \cup refused)' \/ (StartOf(w, n) /\ ~Busy(n))
  <2>1. PICK m \in syncDue : StartOf(w, m)
    BY <1>2 DEF StartSync, StartOf, Goto, facts, given
  <2> QED  BY <2>1 DEF StartOf, Busy
<1>3. ASSUME NEW w \in Workers, SyncRefused(w) PROVE n \in (crossed \cup refused)'
  BY <1>3 DEF SyncRefused
<1> QED  BY <1>1, <1>2, <1>3, Writers

(* What is owed stays owed until a sync of the member begins, alone. *)
LEMMA OwedStays ==
  ASSUME TypeOK, Standing, [Next]_vars, NEW n \in Members, Owed(n)
  PROVE  Owed(n)' \/ \E w \in Workers : StartOf(w, n) /\ ~Busy(n)
<1>1. CASE Coming(n)
  <2>1. ASSUME NEW w \in Workers, StartOf(w, n), Busy(n) PROVE Owed(n)'
    BY <2>1 DEF StartOf, Busy, Owed
  <2> QED  BY <1>1, <2>1, ComingStays DEF Owed
<1>2. CASE event # NoOne /\ link[n] = event
  BY <1>2, EventTold DEF Owed
<1>3. CASE n \in crossed \cup refused
  BY <1>3, CrossedStays DEF Owed
<1> QED  BY <1>1, <1>2, <1>3 DEF Owed

(* A decision is made from what a sync sees, and kept until it is applied. *)
LEMMA DecisionsMade ==
  ASSUME TypeOK, Standing, [Next]_vars, NEW v \in Workers, pc'[v] \in {"add", "remove"}
  PROVE  /\ who'[v] = who[v] /\ who[v] \in Members
         /\ \/ pc'[v] = pc[v]
            \/ pc'[v] = (IF Qualifies(who[v]) THEN "add" ELSE "remove")
               /\ UNCHANGED <<link, rows, rule>>
<1> DEFINE Made == /\ who'[v] = who[v] /\ who[v] \in Members
                   /\ \/ pc'[v] = pc[v]
                      \/ pc'[v] = (IF Qualifies(who[v]) THEN "add" ELSE "remove")
                         /\ UNCHANGED <<link, rows, rule>>
<1> SUFFICES Made
  OBVIOUS
<1> USE AccountsAssumption
    DEF TypeOK, Standing, Actors, Phases, RequestPhases, SyncPhases, Goto, Done, AfterSeed,
        due, local, history, facts, given
<1>1. ASSUME NEW s \in States, NEW m \in Members, IssueState(s, m) PROVE Made
  BY <1>1 DEF IssueState
<1>2. ASSUME NEW s \in States, StateLapses(s) PROVE Made
  BY <1>2 DEF StateLapses
<1>3. ASSUME NEW s \in States, CallbackRefused(s) PROVE Made
  BY <1>3 DEF CallbackRefused
<1>4. ASSUME NEW s \in States, NEW r \in Requests, ViewerCallback(r, s) PROVE Made
  BY <1>4 DEF ViewerCallback
<1>5. ASSUME NEW r \in Requests, NEW m \in Members, Unlink(r, m) PROVE Made
  BY <1>5 DEF Unlink
<1>6. ASSUME NEW r \in Requests, Taken(r) PROVE Made
  BY <1>6 DEF Taken
<1>7. ASSUME NEW r \in Requests, Upsert(r) PROVE Made
  BY <1>7 DEF Upsert
<1>8. ASSUME NEW a \in Actors, FindAccount(a) PROVE Made
  BY <1>8 DEF FindAccount
<1>9. ASSUME NEW a \in Actors, SeedRow(a) PROVE Made
  BY <1>9 DEF SeedRow
<1>10. ASSUME NEW r \in Requests, DeleteRows(r) PROVE Made
  BY <1>10 DEF DeleteRows
<1>11. ASSUME NEW r \in Requests, Enqueue(r) PROVE Made
  BY <1>11 DEF Enqueue
<1>12. ASSUME NEW r \in Requests, RequestDies(r) PROVE Made
  BY <1>12 DEF RequestDies
<1>13. ASSUME NEW m \in Members, Refresh(m) PROVE Made
  BY <1>13 DEF Refresh
<1>14. ASSUME NEW m \in Members, Backfill(m) PROVE Made
  BY <1>14 DEF Backfill
<1>15. ASSUME NEW w \in Workers, StartSync(w) PROVE Made
  BY <1>15 DEF StartSync
<1>16. ASSUME NEW w \in Workers, Evaluate(w) PROVE Made
  BY <1>16 DEF Evaluate
<1>17. ASSUME NEW w \in Workers, ApplySync(w) PROVE Made
  BY <1>17 DEF ApplySync
<1>18. ASSUME NEW w \in Workers, SyncFails(w) PROVE Made
  BY <1>18 DEF SyncFails
<1>19. CASE BulkSync
  BY <1>19 DEF BulkSync
<1>20. CASE StartProbe
  BY <1>20 DEF StartProbe
<1>21. CASE ProbeAnswers
  BY <1>21 DEF ProbeAnswers
<1>22. CASE ProbeUnavailable
  BY <1>22 DEF ProbeUnavailable
<1>23. ASSUME NEW k \in Kicks, FollowEvent(k) PROVE Made
  BY <1>23 DEF FollowEvent
<1>24. CASE EventOwner
  BY <1>24 DEF EventOwner
<1>26. ASSUME NEW w \in Workers, SyncRefused(w) PROVE Made
  BY <1>26 DEF SyncRefused
<1>27. ASSUME NEW k \in Kicks, ChatMessage(k) PROVE Made
  BY <1>27 DEF ChatMessage
<1>28. ASSUME NEW k \in Kicks, BucketsLapse(k) PROVE Made
  BY <1>28 DEF BucketsLapse
<1>29. CASE Recount
  BY <1>29 DEF Recount
<1>25. CASE UNCHANGED vars
  BY <1>25 DEF vars
<1> QED
  BY <1>1, <1>2, <1>3, <1>4, <1>5, <1>6, <1>7, <1>8, <1>9, <1>10, <1>11, <1>12, <1>13,
     <1>14, <1>15, <1>16, <1>17, <1>18, <1>19, <1>20, <1>21, <1>22, <1>23, <1>24, <1>25,
     <1>26, <1>27, <1>28, <1>29
     DEF Next, RequestStep, WorkerStep, Actors

(* A decision that is overtaken has a sync owed after it. *)
LEMMA DecidedKeeps ==
  ASSUME TypeOK, Standing, OneOwner, Decided, [Next]_vars
  PROVE  Decided'
<1> SUFFICES ASSUME NEW v \in Workers
             PROVE  (/\ pc[v] = "add" /\ ~Qualifies(who[v]) => Owed(who[v])
                     /\ pc[v] = "remove" /\ Qualifies(who[v]) => Owed(who[v]))'
  BY DEF Decided
<1>1. CASE pc'[v] \notin {"add", "remove"}
  BY <1>1
<1>2. CASE pc'[v] \in {"add", "remove"}
  <2>1. PICK n \in Members : n = who[v] /\ n = who'[v]
    BY <1>2, DecisionsMade
  <2>2. ASSUME ~(Qualifies(n)' <=> pc'[v] = "add") PROVE Owed(n)'
    <3>1. CASE ~(Qualifies(n)' <=> Qualifies(n))
      BY <3>1, Requalified
    <3>2. CASE Qualifies(n)' <=> Qualifies(n)
      <4>1. pc'[v] = pc[v]
        BY <1>2, <2>1, <2>2, <3>2, DecisionsMade
      <4>2. Owed(n)
        BY <1>2, <2>1, <2>2, <3>2, <4>1 DEF Decided
      <4>3. Busy(n)
        BY <2>1 DEF Busy
      <4> QED  BY <4>2, <4>3, OwedStays
    <3> QED  BY <3>1, <3>2
  <2>3. /\ pc'[v] = "add" /\ ~Qualifies(n)' => Owed(n)'
        /\ pc'[v] = "remove" /\ Qualifies(n)' => Owed(n)'
    BY <2>2
  <2> QED  BY <2>1, <2>3 DEF Qualifies, Owed, Coming, Late
<1> QED  BY <1>1, <1>2

(* Two syncs of one member have crossed. *)
LEMMA AloneKeeps ==
  ASSUME TypeOK, Standing, Alone, [Next]_vars
  PROVE  Alone'
<1> SUFFICES Alone'
  OBVIOUS
<1> USE AccountsAssumption DEF TypeOK, Alone, Goto, Done, Actors, due, local, history
<1>1. ASSUME NEW s \in States, NEW m \in Members, IssueState(s, m) PROVE Alone'
  BY <1>1 DEF IssueState
<1>2. ASSUME NEW s \in States, StateLapses(s) PROVE Alone'
  BY <1>2 DEF StateLapses
<1>3. ASSUME NEW s \in States, CallbackRefused(s) PROVE Alone'
  BY <1>3 DEF CallbackRefused
<1>4. ASSUME NEW s \in States, NEW r \in Requests, ViewerCallback(r, s) PROVE Alone'
  BY <1>4 DEF ViewerCallback
<1>5. ASSUME NEW r \in Requests, NEW m \in Members, Unlink(r, m) PROVE Alone'
  BY <1>5 DEF Unlink
<1>6. ASSUME NEW r \in Requests, Taken(r) PROVE Alone'
  BY <1>6 DEF Taken
<1>7. ASSUME NEW r \in Requests, Upsert(r) PROVE Alone'
  BY <1>7 DEF Upsert
<1>8. ASSUME NEW a \in Actors, FindAccount(a) PROVE Alone'
  BY <1>8 DEF FindAccount
<1>9. ASSUME NEW a \in Actors, SeedRow(a) PROVE Alone'
  BY <1>9 DEF SeedRow
<1>10. ASSUME NEW r \in Requests, DeleteRows(r) PROVE Alone'
  BY <1>10 DEF DeleteRows
<1>11. ASSUME NEW r \in Requests, Enqueue(r) PROVE Alone'
  BY <1>11 DEF Enqueue
<1>12. ASSUME NEW r \in Requests, RequestDies(r) PROVE Alone'
  BY <1>12 DEF RequestDies
<1>13. ASSUME NEW m \in Members, Refresh(m) PROVE Alone'
  BY <1>13 DEF Refresh
<1>14. ASSUME NEW m \in Members, Backfill(m) PROVE Alone'
  BY <1>14 DEF Backfill
<1>15. ASSUME NEW w \in Workers, StartSync(w) PROVE Alone'
  <2>1. PICK m \in syncDue : StartOf(w, m)
    BY <1>15 DEF StartSync, StartOf, facts, given
  <2> QED  BY <2>1 DEF StartOf
<1>16. ASSUME NEW w \in Workers, Evaluate(w) PROVE Alone'
  BY <1>16 DEF Evaluate
<1>17. ASSUME NEW w \in Workers, ApplySync(w) PROVE Alone'
  BY <1>17 DEF ApplySync
<1>18. ASSUME NEW w \in Workers, SyncFails(w) PROVE Alone'
  BY <1>18 DEF SyncFails
<1>19. CASE BulkSync
  BY <1>19 DEF BulkSync
<1>20. CASE StartProbe
  BY <1>20 DEF StartProbe
<1>21. CASE ProbeAnswers
  BY <1>21 DEF ProbeAnswers
<1>22. CASE ProbeUnavailable
  BY <1>22 DEF ProbeUnavailable
<1>23. ASSUME NEW k \in Kicks, FollowEvent(k) PROVE Alone'
  BY <1>23 DEF FollowEvent
<1>24. CASE EventOwner
  BY <1>24 DEF EventOwner
<1>26. ASSUME NEW w \in Workers, SyncRefused(w) PROVE Alone'
  BY <1>26 DEF SyncRefused
<1>27. ASSUME NEW k \in Kicks, ChatMessage(k) PROVE Alone'
  BY <1>27 DEF ChatMessage
<1>28. ASSUME NEW k \in Kicks, BucketsLapse(k) PROVE Alone'
  BY <1>28 DEF BucketsLapse
<1>29. CASE Recount
  BY <1>29 DEF Recount
<1>25. CASE UNCHANGED vars
  BY <1>25 DEF vars
<1> QED
  BY <1>1, <1>2, <1>3, <1>4, <1>5, <1>6, <1>7, <1>8, <1>9, <1>10, <1>11, <1>12, <1>13,
     <1>14, <1>15, <1>16, <1>17, <1>18, <1>19, <1>20, <1>21, <1>22, <1>23, <1>24, <1>25,
     <1>26, <1>27, <1>28, <1>29
     DEF Next, RequestStep, WorkerStep, Actors

(* What is shown is right, or will be seen to. *)
LEMMA ShownKeeps ==
  ASSUME TypeOK, Standing, OneOwner, Decided, Alone, Shown, [Next]_vars
  PROVE  Shown'
<1> SUFFICES ASSUME NEW n \in Members
             PROVE  Owed(n)' \/ Busy(n)' \/ (n \in held' <=> Qualifies(n)')
  BY DEF Shown
<1> DEFINE Good == Owed(n)' \/ Busy(n)' \/ (n \in held' <=> Qualifies(n)')
<1>a. CASE ~(Qualifies(n)' <=> Qualifies(n))
  BY <1>a, Requalified
<1>b. CASE Owed(n)
  <2>1. ASSUME NEW w \in Workers, StartOf(w, n) PROVE Busy(n)'
    BY <2>1 DEF StartOf, Busy, TypeOK, Actors
  <2> QED  BY <1>b, <2>1, OwedStays
<1> SUFFICES ASSUME Qualifies(n)' <=> Qualifies(n), ~Owed(n)
             PROVE  Good
  BY <1>a, <1>b
<1> USE AccountsAssumption
    DEF TypeOK, Shown, Busy, Goto, Done, Actors, AfterSeed, due, local, history
<1>1. ASSUME NEW s \in States, NEW m \in Members, IssueState(s, m) PROVE Good
  BY <1>1 DEF IssueState
<1>2. ASSUME NEW s \in States, StateLapses(s) PROVE Good
  BY <1>2 DEF StateLapses
<1>3. ASSUME NEW s \in States, CallbackRefused(s) PROVE Good
  BY <1>3 DEF CallbackRefused
<1>4. ASSUME NEW s \in States, NEW r \in Requests, ViewerCallback(r, s) PROVE Good
  BY <1>4 DEF ViewerCallback
<1>5. ASSUME NEW r \in Requests, NEW m \in Members, Unlink(r, m) PROVE Good
  BY <1>5 DEF Unlink
<1>6. ASSUME NEW r \in Requests, Taken(r) PROVE Good
  BY <1>6 DEF Taken
<1>7. ASSUME NEW r \in Requests, Upsert(r) PROVE Good
  BY <1>7 DEF Upsert
<1>8. ASSUME NEW a \in Actors, FindAccount(a) PROVE Good
  BY <1>8 DEF FindAccount
<1>9. ASSUME NEW a \in Actors, SeedRow(a) PROVE Good
  BY <1>9 DEF SeedRow
<1>10. ASSUME NEW r \in Requests, DeleteRows(r) PROVE Good
  BY <1>10 DEF DeleteRows
<1>11. ASSUME NEW r \in Requests, Enqueue(r) PROVE Good
  BY <1>11 DEF Enqueue
<1>12. ASSUME NEW r \in Requests, RequestDies(r) PROVE Good
  BY <1>12 DEF RequestDies
<1>13. ASSUME NEW m \in Members, Refresh(m) PROVE Good
  BY <1>13 DEF Refresh
<1>14. ASSUME NEW m \in Members, Backfill(m) PROVE Good
  BY <1>14 DEF Backfill
<1>15. ASSUME NEW w \in Workers, StartSync(w) PROVE Good
  <2>1. PICK m \in syncDue : StartOf(w, m)
    BY <1>15 DEF StartSync, StartOf, facts, given
  <2>2. CASE m = n
    BY <2>1, <2>2 DEF StartOf
  <2>3. CASE m # n
    <3>1. (n \in held' <=> n \in held) /\ (Busy(n) => Busy(n)')
      BY <2>1, <2>3 DEF StartOf, Standing
    <3> QED  BY <3>1
  <2> QED  BY <2>2, <2>3
<1>16. ASSUME NEW w \in Workers, Evaluate(w) PROVE Good
  <2>1. CASE who[w] = n
    BY <1>16, <2>1 DEF Evaluate
  <2>2. CASE who[w] # n
    BY <1>16, <2>2 DEF Evaluate
  <2> QED  BY <2>1, <2>2
<1>17. ASSUME NEW w \in Workers, ApplySync(w) PROVE Good
  <2>1. CASE who[w] = n
    <3>1. ASSUME NEW v \in Workers, v # w PROVE who[v] # n
      BY <2>1, <3>1, AccountsAssumption DEF Alone, Owed
    <3>2. pc[w] = "add" <=> Qualifies(n)
      BY <1>17, <2>1 DEF ApplySync, Decided
    <3>3. n \in held' <=> Qualifies(n)
      BY <1>17, <2>1, <3>2 DEF ApplySync
    <3> QED  BY <3>3
  <2>2. CASE who[w] # n
    <3>1. (n \in held' <=> n \in held) /\ (Busy(n) => Busy(n)')
      BY <1>17, <2>2 DEF ApplySync
    <3> QED  BY <3>1
  <2> QED  BY <2>1, <2>2
<1>18. ASSUME NEW w \in Workers, SyncFails(w) PROVE Good
  <2>1. CASE who[w] = n
    BY <1>18, <2>1 DEF SyncFails, Owed, Coming
  <2>2. CASE who[w] # n
    BY <1>18, <2>2 DEF SyncFails
  <2> QED  BY <2>1, <2>2
<1>19. CASE BulkSync
  BY <1>19 DEF BulkSync
<1>20. CASE StartProbe
  BY <1>20 DEF StartProbe
<1>21. CASE ProbeAnswers
  BY <1>21 DEF ProbeAnswers
<1>22. CASE ProbeUnavailable
  BY <1>22 DEF ProbeUnavailable
<1>23. ASSUME NEW k \in Kicks, FollowEvent(k) PROVE Good
  BY <1>23 DEF FollowEvent
<1>24. CASE EventOwner
  BY <1>24 DEF EventOwner
<1>26. ASSUME NEW w \in Workers, SyncRefused(w) PROVE Good
  <2>1. CASE who[w] = n
    BY <1>26, <2>1 DEF SyncRefused, Owed
  <2>2. CASE who[w] # n
    <3>1. (n \in held' <=> n \in held) /\ (Busy(n) => Busy(n)')
      BY <1>26, <2>2 DEF SyncRefused
    <3> QED  BY <3>1
  <2> QED  BY <2>1, <2>2
<1>27. ASSUME NEW k \in Kicks, ChatMessage(k) PROVE Good
  BY <1>27 DEF ChatMessage
<1>28. ASSUME NEW k \in Kicks, BucketsLapse(k) PROVE Good
  BY <1>28 DEF BucketsLapse
<1>29. CASE Recount
  BY <1>29 DEF Recount
<1>25. CASE UNCHANGED vars
  BY <1>25 DEF vars
<1> QED
  BY <1>1, <1>2, <1>3, <1>4, <1>5, <1>6, <1>7, <1>8, <1>9, <1>10, <1>11, <1>12, <1>13,
     <1>14, <1>15, <1>16, <1>17, <1>18, <1>19, <1>20, <1>21, <1>22, <1>23, <1>24, <1>25,
     <1>26, <1>27, <1>28, <1>29
     DEF Next, RequestStep, WorkerStep, Actors

-----------------------------------------------------------------------------
(* The start: all is settled, so nothing is on its way. *)
LEMMA StartsTyped == Init => TypeOK
<1> SUFFICES ASSUME Init PROVE TypeOK
  OBVIOUS
<1>1. LocalsOK
  BY AccountsAssumption DEF Init, LocalsOK, Phases, RequestPhases, SyncPhases
<1>2. RowsOK
  <2>1. ASSUME NEW k \in Kicks, rows[k] = "follows"
        PROVE  (CHOOSE m \in OwnersOf(k) : TRUE) \in Members
    BY <2>1, OwnersAreMembers DEF Init
  <2> QED  BY <2>1 DEF Init, RowsOK
<1>3. SetsOK
  BY AccountsAssumption DEF Init, SetsOK
<1>4. ChatOK
  <2>1. \A k \in Kicks : OwnersOf(k) \subseteq Members
    BY OwnersAreMembers
  <2>2. PICK wrote \in Members : buckets = [k \in Kicks |->
          IF k \notin Chatters THEN {}
          ELSE IF OwnersOf(k) # {} THEN OwnersOf(k) ELSE {wrote}]
    BY DEF Init
  <2>3. buckets \in [Kicks -> SUBSET (Members \cup {NoOne})]
    BY <2>1, <2>2
  <2> QED  BY <2>3 DEF Init, ChatOK
<1> QED  BY <1>1, <1>2, <1>3, <1>4, TypesSplit

(* So the invariant holds at the start, *)
LEMMA StartsSettled == Init => AccountInv
<1> SUFFICES ASSUME Init PROVE AccountInv
  OBVIOUS
<1>1. TypeOK
  BY StartsTyped
<1>2. Standing
  BY AccountsAssumption DEF Init, Standing, RequestPhases, SyncPhases, Actors
<1>3. OneOwner
  BY DEF Init, OneOwner
<1>4. FactsOwned
  <2>1. ASSUME NEW k \in Kicks, rows[k] = "follows"
        PROVE  by[k] \in Members /\ link[by[k]] = k
    <3>1. by[k] = CHOOSE m \in OwnersOf(k) : TRUE
      BY <2>1 DEF Init
    <3>2. by[k] \in OwnersOf(k)
      BY <2>1, <3>1 DEF Init
    <3> QED  BY <3>2 DEF OwnersOf
  <2> QED  BY <2>1 DEF Init, FactsOwned
<1>5. Listed
  BY <1>1 DEF Init, Listed, OwnersOf, TypeOK
<1>6. Decided /\ Alone
  BY AccountsAssumption DEF Init, Decided, Alone, Actors
<1>7. Shown
  BY DEF Init, Shown
<1>8. MessagesOwned
  BY DEF Init, MessagesOwned
<1> QED  BY <1>1, <1>2, <1>3, <1>4, <1>5, <1>6, <1>7, <1>8 DEF AccountInv

(* every step keeps it, *)
LEMMA AccountInvKeeps == AccountInv /\ [Next]_vars => AccountInv'
  BY TypesKeep, StandingKeeps, OwnerKeeps, FactsKeep, MessagesKeep, ListedKeeps, DecidedKeeps,
     AloneKeeps, ShownKeeps DEF AccountInv

(* and it always holds: what is not as it should be is on its way there. *)
THEOREM AccountsSettle == Spec => []AccountInv
  BY StartsSettled, AccountInvKeeps, PTL DEF Spec

-----------------------------------------------------------------------------
(* A sign-in with a state goes on once, however often and whenever its     *)
(* callback comes (oauth.rs consumes the row in one DELETE).               *)
THEOREM StateServesOnce == Spec => []StateOnce
<1>1. Init => StateOnce
  BY DEF Init, StateOnce
<1>2. TypeOK /\ StateOnce /\ [Next]_vars => StateOnce'
  <2> SUFFICES ASSUME TypeOK, StateOnce, [Next]_vars PROVE StateOnce'
    OBVIOUS
  <2> USE AccountsAssumption DEF TypeOK, StateOnce, Consume
  <2>1. CASE UNCHANGED oauth
    BY <2>1 DEF oauth
  <2>2. ASSUME NEW s \in States, NEW m \in Members, IssueState(s, m) PROVE StateOnce'
    BY <2>2 DEF IssueState
  <2>3. ASSUME NEW s \in States, StateLapses(s) PROVE StateOnce'
    BY <2>3 DEF StateLapses
  <2>4. ASSUME NEW s \in States, CallbackRefused(s) PROVE StateOnce'
    BY <2>4 DEF CallbackRefused
  <2>5. ASSUME NEW s \in States, NEW r \in Requests, ViewerCallback(r, s) PROVE StateOnce'
    BY <2>5 DEF ViewerCallback
  <2> QED  BY <2>1, <2>2, <2>3, <2>4, <2>5, Writers
<1>3. AccountInv => TypeOK
  BY DEF AccountInv
<1> QED  BY <1>1, <1>2, <1>3, AccountsSettle, PTL DEF Spec

(* The follow of one member does not become another's, but for an account  *)
(* that its owner left without unlinking it (verify.rs deletes the rows).  *)
THEOREM FactsStayOwn == Spec => []NoInheritance
<1>1. AccountInv => NoInheritance
  BY AccountsAssumption DEF AccountInv, OneOwner, FactsOwned, Leaving, NoInheritance
<1> QED  BY <1>1, AccountsSettle, PTL

(* Nor do the messages that a member's counter holds, but for those in     *)
(* buckets an unlink left behind (chat_activity_days has no key to the     *)
(* link, and verify.rs does not delete them).                              *)
THEOREM CountsStayOwn == Spec => []CountStaysOwn
<1>1. AccountInv => CountStaysOwn
  <2> SUFFICES ASSUME AccountInv, NEW m \in Members, NEW k \in Kicks, link[m] = k,
                      k \notin left, ~Leaving(k)
               PROVE  counted[k] \subseteq {m, NoOne} \cup outlived[k]
    BY DEF CountStaysOwn, Leaving
  <2>1. OwnersOf(k) \subseteq {m}
    BY AccountsAssumption DEF AccountInv, OneOwner, OwnersOf
  <2>2. counted[k] \subseteq OwnersOf(k) \cup {NoOne} \cup outlived[k]
    BY DEF AccountInv, MessagesOwned
  <2> QED  BY <2>1, <2>2
<1> QED  BY <1>1, AccountsSettle, PTL

(* A linked member is on the users page once nothing is pending for them.  *)
THEOREM LinkedAreListed == Spec => []LinkedIsListed
<1>1. AccountInv => LinkedIsListed
  BY DEF AccountInv, Listed, Coming, Late, Seeding, LinkedIsListed, Settled, Actors
<1> QED  BY <1>1, AccountsSettle, PTL

(* Once what a member set off has been handled, they have the role just    *)
(* if their account earns it, with any number of requests, syncs, probes,  *)
(* events and faults between each other's statements.                      *)
THEOREM RoleSettles == Spec => []RoleFollowsLink
<1>1. AccountInv => RoleFollowsLink
  <2> SUFFICES ASSUME AccountInv, NEW m \in Members, Settled(m),
                      m \notin crossed \cup refused
               PROVE  m \in held <=> Qualifies(m)
    BY DEF RoleFollowsLink
  <2>1. ~Owed(m)
    BY DEF Settled, Owed, Coming, Late, Actors
  <2>2. ~Busy(m)
    BY DEF Settled, Busy, Actors
  <2> QED  BY <2>1, <2>2 DEF AccountInv, Shown
<1> QED  BY <1>1, AccountsSettle, PTL
=============================================================================
