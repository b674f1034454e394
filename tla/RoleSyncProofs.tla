---------------------------- MODULE RoleSyncProofs ----------------------------
(***************************************************************************)
(* Proofs about the syncs of one role link, for any number of members,     *)
(* worker tasks, changes and faults and for every limit.                   *)
(*                                                                         *)
(* A sync acts on what it read some steps ago.  The invariants say what is *)
(* still true of it then: of the member and the list it is about to send,  *)
(* by way of the histories; of the mirror, in every phase between a        *)
(* request and its record; and of who will see to a held write.            *)
(***************************************************************************)
EXTENDS RoleSync, TLAPS

(* A player sync is of a member. *)
WhoOK == \A s \in Syncs : pc[s] \in PlayerPhases => who[s] \in Members

(* What grants the role is earned: a member about to be added and a list   *)
(* about to be sent were read from facts that matched; and so did whoever  *)
(* matches a rule in use now.                                              *)
EarnedInv ==
  /\ Matching(facts, rule) \subseteq wasIn
  /\ \A s \in Syncs : Matching(facts, seen[s]) \subseteq wasIn
  /\ \A s \in Syncs : /\ pc[s] = "p_add" => who[s] \in wasIn
                      /\ list[s] \subseteq wasIn
  /\ GrantsEarned

(* What takes the role is owed: whoever is about to lose it, by name or by *)
(* not being in the list, was left out when the sync looked; and so is     *)
(* whom a rule in use leaves out now.                                      *)
LeftOut(f, u) == Members \ FirstOf(Matching(f, u))
Reading(s)    == pc[s] \in {"p_existing", "p_facts", "b_info", "b_list"}

OutInv ==
  /\ LeftOut(facts, rule) \subseteq wasOut
  /\ \A s \in Syncs :
       /\ Reading(s) => LeftOut(facts, seen[s]) \subseteq wasOut
       /\ pc[s] \in {"idle", "p_existing", "p_facts"} => list[s] = {}
       /\ pc[s] = "p_remove" => who[s] \in wasOut
       /\ pc[s] \in {"b_diff", "b_put", "b_chunks"} => Members \ list[s] \subseteq wasOut

(* A deleted link stays deleted, and only for one is a row deleted.        *)
GoneInv ==
  /\ \A s \in Syncs : pc[s] = "orphan" => Gone
  /\ ~link => Gone
  /\ Gone => ~owed

(* A held write is seen to by a sync that has not written since, or by a   *)
(* job: one that only records an earlier write does not count.             *)
OwedInv ==
  owed => configDue \/ \E s \in Syncs : pc[s] \in (BulkPhases \ {"b_commit"}) \cup {"orphan"}

(* While nothing was lost and nothing overlapped, one sync runs, and the   *)
(* mirror lags behind RoleLogic by just the write it has yet to record.    *)
OneSync == clean => \A s, t \in Syncs : pc[s] # "idle" /\ pc[t] # "idle" => s = t

MirrorLags ==
  clean /\ link /\ ~Gone =>
    /\ (\A s \in Syncs : ~Recording(s)) => mirror = upstream
    /\ \A s \in Syncs :
         /\ pc[s] = "p_insert" => upstream = mirror \cup {who[s]}
         /\ pc[s] = "p_delete" => upstream = mirror \ {who[s]}
         /\ pc[s] = "b_commit" => upstream = list[s]

SyncInv ==
  /\ TypeOK /\ WhoOK /\ EarnedInv /\ OutInv /\ GoneInv /\ OwedInv /\ OneSync
  /\ MirrorLags
-----------------------------------------------------------------------------
(* The types, in three parts: what a sync keeps, flags, and the rest.      *)
LocalsOK ==
  /\ pc   \in [Syncs -> Phases]
  /\ who  \in [Syncs -> Members \cup {Nobody}]
  /\ seen \in [Syncs -> SUBSET FactValues] /\ has \in [Syncs -> BOOLEAN]
  /\ list \in [Syncs -> SUBSET Members]

FlagsOK ==
  /\ link \in BOOLEAN /\ configDue \in BOOLEAN /\ owed \in BOOLEAN
  /\ clean \in BOOLEAN

SetsOK ==
  /\ facts \in [Members -> FactValues]
  /\ rule \subseteq FactValues /\ bound \in BOOLEAN
  /\ mirror \subseteq Members /\ upstream \subseteq Members
  /\ playerDue \subseteq Members
  /\ upState \in {"active", "disabled", "gone"}
  /\ wasIn \subseteq Members /\ wasOut \subseteq Members
  /\ changes \in 0..MaxChanges /\ faults \in 0..MaxFaults

LEMMA RememberTyped ==
  ASSUME Remember(facts', rule'), wasIn \subseteq Members, wasOut \subseteq Members
  PROVE  wasIn' \subseteq Members /\ wasOut' \subseteq Members
BY DEF Remember, Matching

LEMMA TypesKeep == TypeOK /\ WhoOK /\ [Next]_vars => TypeOK'
<1> SUFFICES ASSUME LocalsOK, FlagsOK, SetsOK, WhoOK, [Next]_vars
             PROVE  LocalsOK' /\ FlagsOK' /\ SetsOK'
  BY DEF TypeOK, LocalsOK, FlagsOK, SetsOK
<1> DEFINE Typed == LocalsOK /\ FlagsOK /\ SetsOK
<1> USE RoleSyncAssumption
    DEF LocalsOK, FlagsOK, SetsOK, Phases, PlayerPhases, BulkPhases, NoRule, Goto, Done,
        Again, Refusal, Loss, Change, Begin, jobs, local, config, remote, history, budgets
<1>1. ASSUME NEW s \in Syncs, StartPlayer(s) PROVE Typed'
  <2>1. LocalsOK'
    BY <1>1 DEF StartPlayer
  <2>2. FlagsOK' /\ SetsOK'
    BY <1>1 DEF StartPlayer
  <2> QED  BY <2>1, <2>2
<1>2. ASSUME NEW s \in Syncs, StartBulk(s) PROVE Typed'
  BY <1>2 DEF StartBulk
<1>3. ASSUME NEW s \in Syncs, ReadExisting(s) PROVE Typed'
  BY <1>3 DEF ReadExisting
<1>4. ASSUME NEW s \in Syncs, Evaluate(s) PROVE Typed'
  BY <1>4 DEF Evaluate, Applied
<1>5. ASSUME NEW s \in Syncs, AddUser(s) PROVE Typed'
  <2>1. LocalsOK'
    BY <1>5 DEF AddUser
  <2>2. FlagsOK'
    BY <1>5 DEF AddUser
  <2>0. who[s] \in Members
    BY <1>5 DEF AddUser, WhoOK
  <2>3. SetsOK'
    BY <1>5, <2>0 DEF AddUser
  <2> QED  BY <2>1, <2>2, <2>3
<1>6. ASSUME NEW s \in Syncs, RemoveUser(s) PROVE Typed'
  <2>1. LocalsOK'
    BY <1>6 DEF RemoveUser
  <2>2. FlagsOK'
    BY <1>6 DEF RemoveUser
  <2>3. SetsOK'
    BY <1>6 DEF RemoveUser
  <2> QED  BY <2>1, <2>2, <2>3
<1>7. ASSUME NEW s \in Syncs, InsertMirror(s) PROVE Typed'
  <2>1. LocalsOK'
    BY <1>7 DEF InsertMirror
  <2>2. FlagsOK'
    BY <1>7 DEF InsertMirror
  <2>0. who[s] \in Members
    BY <1>7 DEF InsertMirror, WhoOK
  <2>3. SetsOK'
    BY <1>7, <2>0 DEF InsertMirror
  <2> QED  BY <2>1, <2>2, <2>3
<1>8. ASSUME NEW s \in Syncs, DeleteMirror(s) PROVE Typed'
  <2>1. LocalsOK'
    BY <1>8 DEF DeleteMirror
  <2>2. FlagsOK'
    BY <1>8 DEF DeleteMirror
  <2>3. SetsOK'
    BY <1>8 DEF DeleteMirror
  <2> QED  BY <2>1, <2>2, <2>3
<1>9. ASSUME NEW s \in Syncs, GetUserInfo(s) PROVE Typed'
  BY <1>9 DEF GetUserInfo
<1>10. ASSUME NEW s \in Syncs, ListQualifying(s) PROVE Typed'
  <2>1. LocalsOK'
    BY <1>10 DEF ListQualifying, Listed, FirstOf, Matching
  <2>2. FlagsOK'
    BY <1>10 DEF ListQualifying, Listed, FirstOf, Matching
  <2>3. SetsOK'
    BY <1>10 DEF ListQualifying, Listed, FirstOf, Matching
  <2> QED  BY <2>1, <2>2, <2>3
<1>11. ASSUME NEW s \in Syncs, Diff(s) PROVE Typed'
  BY <1>11 DEF Diff
<1>12. ASSUME NEW s \in Syncs, Upload(s) PROVE Typed'
  <2>1. LocalsOK'
    BY <1>12 DEF Upload, Held, Replaced
  <2>2. FlagsOK'
    BY <1>12 DEF Upload, Held, Replaced
  <2>3. SetsOK'
    BY <1>12 DEF Upload, Held, Replaced
  <2> QED  BY <2>1, <2>2, <2>3
<1>13. ASSUME NEW s \in Syncs, StartUpload(s) PROVE Typed'
  BY <1>13 DEF StartUpload
<1>14. ASSUME NEW s \in Syncs, UploadRefused(s) PROVE Typed'
  BY <1>14 DEF UploadRefused
<1>15. ASSUME NEW s \in Syncs, CommitUpload(s) PROVE Typed'
  <2>1. LocalsOK'
    BY <1>15 DEF CommitUpload, Held, Replaced
  <2>2. FlagsOK'
    BY <1>15 DEF CommitUpload, Held, Replaced
  <2>3. SetsOK'
    BY <1>15 DEF CommitUpload, Held, Replaced
  <2> QED  BY <2>1, <2>2, <2>3
<1>16. ASSUME NEW s \in Syncs, ReplaceMirror(s) PROVE Typed'
  <2>1. LocalsOK'
    BY <1>16 DEF ReplaceMirror, Commit
  <2>2. FlagsOK'
    BY <1>16 DEF ReplaceMirror, Commit
  <2>3. SetsOK'
    BY <1>16 DEF ReplaceMirror, Commit
  <2> QED  BY <2>1, <2>2, <2>3
<1>17. ASSUME NEW s \in Syncs, RecheckHeld(s) PROVE Typed'
  BY <1>17 DEF RecheckHeld
<1>18. ASSUME NEW s \in Syncs, DeleteOrphan(s) PROVE Typed'
  <2>1. LocalsOK'
    BY <1>18 DEF DeleteOrphan
  <2>2. FlagsOK'
    BY <1>18 DEF DeleteOrphan
  <2>3. SetsOK'
    BY <1>18 DEF DeleteOrphan
  <2> QED  BY <2>1, <2>2, <2>3
<1>19. ASSUME NEW s \in Syncs, SyncError(s) PROVE Typed'
  BY <1>19 DEF SyncError
<1>20. ASSUME NEW s \in Syncs, Crash(s) PROVE Typed'
  <2>1. LocalsOK'
    BY <1>20 DEF Crash
  <2>2. FlagsOK'
    BY <1>20 DEF Crash
  <2>3. SetsOK'
    BY <1>20 DEF Crash
  <2> QED  BY <2>1, <2>2, <2>3
<1>21. ASSUME NEW m \in Members, FactChanges(m) PROVE Typed'
  BY <1>21, RememberTyped DEF FactChanges
<1>22. ASSUME NEW m \in Members, EnqueuePlayer(m) PROVE Typed'
  BY <1>22 DEF EnqueuePlayer
<1>23. CASE SaveConfig
  BY <1>23, RememberTyped DEF SaveConfig
<1>24. CASE Disconnect
  <2>1. Remember(facts', rule')
    BY <1>24 DEF Disconnect
  <2>2. rule' \subseteq FactValues /\ bound' \in BOOLEAN
    BY <1>24 DEF Disconnect
  <2> QED  BY <1>24, <2>1, <2>2, RememberTyped DEF Disconnect
<1>25. CASE Reconcile
  BY <1>25 DEF Reconcile
<1>26. CASE Pause
  BY <1>26 DEF Pause
<1>27. CASE Resume
  BY <1>27 DEF Resume
<1>28. CASE DeleteLink
  <2>1. LocalsOK'
    BY <1>28 DEF DeleteLink
  <2>2. FlagsOK'
    BY <1>28 DEF DeleteLink
  <2>3. SetsOK'
    BY <1>28 DEF DeleteLink
  <2> QED  BY <2>1, <2>2, <2>3
<1>29. CASE UNCHANGED vars
  BY <1>29 DEF vars
<1> QED
  BY <1>1, <1>2, <1>3, <1>4, <1>5, <1>6, <1>7, <1>8, <1>9, <1>10, <1>11, <1>12,
     <1>13, <1>14, <1>15, <1>16, <1>17, <1>18, <1>19, <1>20, <1>21, <1>22, <1>23,
     <1>24, <1>25, <1>26, <1>27, <1>28, <1>29
     DEF Next, SyncStep, PlayerStep, BulkStep, Environment
LEMMA WhoKeeps == TypeOK /\ WhoOK /\ [Next]_vars => WhoOK'
<1> SUFFICES ASSUME LocalsOK, SetsOK, WhoOK, [Next]_vars PROVE WhoOK'
  BY DEF TypeOK, LocalsOK, SetsOK
<1> USE DEF LocalsOK, SetsOK, WhoOK, PlayerPhases, Goto, Done, Again, local
<1>1. ASSUME NEW s \in Syncs, StartPlayer(s) PROVE WhoOK'
  BY <1>1 DEF StartPlayer
<1>2. ASSUME NEW s \in Syncs, StartBulk(s) PROVE WhoOK'
  BY <1>2 DEF StartBulk
<1>3. ASSUME NEW s \in Syncs, ReadExisting(s) PROVE WhoOK'
  BY <1>3 DEF ReadExisting
<1>4. ASSUME NEW s \in Syncs, Evaluate(s) PROVE WhoOK'
  BY <1>4 DEF Evaluate, Applied
<1>5. ASSUME NEW s \in Syncs, AddUser(s) PROVE WhoOK'
  BY <1>5 DEF AddUser
<1>6. ASSUME NEW s \in Syncs, RemoveUser(s) PROVE WhoOK'
  BY <1>6 DEF RemoveUser
<1>7. ASSUME NEW s \in Syncs, InsertMirror(s) PROVE WhoOK'
  BY <1>7 DEF InsertMirror
<1>8. ASSUME NEW s \in Syncs, DeleteMirror(s) PROVE WhoOK'
  BY <1>8 DEF DeleteMirror
<1>9. ASSUME NEW s \in Syncs, GetUserInfo(s) PROVE WhoOK'
  BY <1>9 DEF GetUserInfo
<1>10. ASSUME NEW s \in Syncs, ListQualifying(s) PROVE WhoOK'
  BY <1>10 DEF ListQualifying
<1>11. ASSUME NEW s \in Syncs, Diff(s) PROVE WhoOK'
  BY <1>11 DEF Diff
<1>12. ASSUME NEW s \in Syncs, Upload(s) PROVE WhoOK'
  BY <1>12 DEF Upload, Held, Replaced
<1>13. ASSUME NEW s \in Syncs, StartUpload(s) PROVE WhoOK'
  BY <1>13 DEF StartUpload
<1>14. ASSUME NEW s \in Syncs, UploadRefused(s) PROVE WhoOK'
  BY <1>14 DEF UploadRefused
<1>15. ASSUME NEW s \in Syncs, CommitUpload(s) PROVE WhoOK'
  BY <1>15 DEF CommitUpload, Held, Replaced
<1>16. ASSUME NEW s \in Syncs, ReplaceMirror(s) PROVE WhoOK'
  BY <1>16 DEF ReplaceMirror, Commit
<1>17. ASSUME NEW s \in Syncs, RecheckHeld(s) PROVE WhoOK'
  BY <1>17 DEF RecheckHeld
<1>18. ASSUME NEW s \in Syncs, DeleteOrphan(s) PROVE WhoOK'
  BY <1>18 DEF DeleteOrphan
<1>19. ASSUME NEW s \in Syncs, SyncError(s) PROVE WhoOK'
  BY <1>19 DEF SyncError
<1>20. ASSUME NEW s \in Syncs, Crash(s) PROVE WhoOK'
  BY <1>20 DEF Crash
<1>21. ASSUME NEW m \in Members, FactChanges(m) PROVE WhoOK'
  BY <1>21 DEF FactChanges
<1>22. ASSUME NEW m \in Members, EnqueuePlayer(m) PROVE WhoOK'
  BY <1>22 DEF EnqueuePlayer
<1>23. CASE SaveConfig
  BY <1>23 DEF SaveConfig
<1>24. CASE Disconnect
  BY <1>24 DEF Disconnect
<1>25. CASE Reconcile
  BY <1>25 DEF Reconcile
<1>26. CASE Pause
  BY <1>26 DEF Pause
<1>27. CASE Resume
  BY <1>27 DEF Resume
<1>28. CASE DeleteLink
  BY <1>28 DEF DeleteLink
<1>29. CASE UNCHANGED vars
  BY <1>29 DEF vars
<1> QED
  BY <1>1, <1>2, <1>3, <1>4, <1>5, <1>6, <1>7, <1>8, <1>9, <1>10, <1>11, <1>12,
     <1>13, <1>14, <1>15, <1>16, <1>17, <1>18, <1>19, <1>20, <1>21, <1>22, <1>23,
     <1>24, <1>25, <1>26, <1>27, <1>28, <1>29
     DEF Next, SyncStep, PlayerStep, BulkStep, Environment
-----------------------------------------------------------------------------
(* What the histories are told covers every rule in use. *)
LEMMA NoneMatch == \A f : Matching(f, NoRule) = {} /\ LeftOut(f, NoRule) = Members
BY DEF Matching, NoRule, LeftOut, FirstOf

LEMMA Remembered ==
  ASSUME Remember(facts', rule'), seen' = seen
  PROVE  /\ wasIn \subseteq wasIn' /\ wasOut \subseteq wasOut'
         /\ Matching(facts', rule') \subseteq wasIn'
         /\ LeftOut(facts', rule') \subseteq wasOut'
         /\ \A s \in Syncs : seen'[s] # NoRule =>
              /\ Matching(facts', seen'[s]) \subseteq wasIn'
              /\ LeftOut(facts', seen'[s]) \subseteq wasOut'
<1>1. /\ rule' \in RulesInUse(rule')
      /\ \A s \in Syncs : seen'[s] # NoRule => seen'[s] \in RulesInUse(rule')
  BY DEF RulesInUse
<1> QED  BY <1>1 DEF Remember, LeftOut

(* Who has the role has qualified. *)
LEMMA EarnedKeeps == TypeOK /\ WhoOK /\ EarnedInv /\ [Next]_vars => EarnedInv'
<1> SUFFICES ASSUME LocalsOK, WhoOK, EarnedInv, [Next]_vars PROVE EarnedInv'
  BY DEF TypeOK, LocalsOK
<1> USE NoneMatch
<1> USE DEF LocalsOK, EarnedInv, GrantsEarned, Goto, Done, Again, local, config, remote, history
<1>1. ASSUME NEW s \in Syncs, StartPlayer(s) PROVE EarnedInv'
  BY <1>1 DEF StartPlayer
<1>2. ASSUME NEW s \in Syncs, StartBulk(s) PROVE EarnedInv'
  BY <1>2 DEF StartBulk
<1>3. ASSUME NEW s \in Syncs, ReadExisting(s) PROVE EarnedInv'
  BY <1>3 DEF ReadExisting
<1>4. ASSUME NEW s \in Syncs, Evaluate(s) PROVE EarnedInv'
  <2>1. pc'[s] = "p_add" => who'[s] \in wasIn
    <3>1. pc'[s] = "p_add" => Qualifies(s) /\ who' = who
      BY <1>4 DEF Evaluate, Applied
    <3>2. who[s] \in Members
      BY <1>4 DEF Evaluate, WhoOK, PlayerPhases
    <3> QED  BY <3>1, <3>2 DEF Qualifies, Matching
  <2> QED  BY <1>4, <2>1 DEF Evaluate, Applied
<1>5. ASSUME NEW s \in Syncs, AddUser(s) PROVE EarnedInv'
  BY <1>5 DEF AddUser
<1>6. ASSUME NEW s \in Syncs, RemoveUser(s) PROVE EarnedInv'
  BY <1>6 DEF RemoveUser
<1>7. ASSUME NEW s \in Syncs, InsertMirror(s) PROVE EarnedInv'
  BY <1>7 DEF InsertMirror
<1>8. ASSUME NEW s \in Syncs, DeleteMirror(s) PROVE EarnedInv'
  BY <1>8 DEF DeleteMirror
<1>9. ASSUME NEW s \in Syncs, GetUserInfo(s) PROVE EarnedInv'
  BY <1>9 DEF GetUserInfo
<1>10. ASSUME NEW s \in Syncs, ListQualifying(s) PROVE EarnedInv'
  BY <1>10 DEF ListQualifying, Listed, FirstOf
<1>11. ASSUME NEW s \in Syncs, Diff(s) PROVE EarnedInv'
  BY <1>11 DEF Diff
<1>12. ASSUME NEW s \in Syncs, Upload(s) PROVE EarnedInv'
  BY <1>12 DEF Upload, Held, Replaced
<1>13. ASSUME NEW s \in Syncs, StartUpload(s) PROVE EarnedInv'
  BY <1>13 DEF StartUpload
<1>14. ASSUME NEW s \in Syncs, UploadRefused(s) PROVE EarnedInv'
  BY <1>14 DEF UploadRefused
<1>15. ASSUME NEW s \in Syncs, CommitUpload(s) PROVE EarnedInv'
  BY <1>15 DEF CommitUpload, Held, Replaced
<1>16. ASSUME NEW s \in Syncs, ReplaceMirror(s) PROVE EarnedInv'
  BY <1>16 DEF ReplaceMirror, Commit
<1>17. ASSUME NEW s \in Syncs, RecheckHeld(s) PROVE EarnedInv'
  BY <1>17 DEF RecheckHeld
<1>18. ASSUME NEW s \in Syncs, DeleteOrphan(s) PROVE EarnedInv'
  BY <1>18 DEF DeleteOrphan
<1>19. ASSUME NEW s \in Syncs, SyncError(s) PROVE EarnedInv'
  BY <1>19 DEF SyncError
<1>20. ASSUME NEW s \in Syncs, Crash(s) PROVE EarnedInv'
  BY <1>20 DEF Crash
<1>21. ASSUME NEW m \in Members, FactChanges(m) PROVE EarnedInv'
  BY <1>21, Remembered DEF FactChanges
<1>22. ASSUME NEW m \in Members, EnqueuePlayer(m) PROVE EarnedInv'
  BY <1>22 DEF EnqueuePlayer
<1>23. CASE SaveConfig
  BY <1>23, Remembered DEF SaveConfig
<1>24. CASE Disconnect
  BY <1>24, Remembered DEF Disconnect
<1>25. CASE Reconcile
  BY <1>25 DEF Reconcile
<1>26. CASE Pause
  BY <1>26 DEF Pause
<1>27. CASE Resume
  BY <1>27 DEF Resume
<1>28. CASE DeleteLink
  BY <1>28 DEF DeleteLink
<1>29. CASE UNCHANGED vars
  BY <1>29 DEF vars
<1> QED
  BY <1>1, <1>2, <1>3, <1>4, <1>5, <1>6, <1>7, <1>8, <1>9, <1>10, <1>11, <1>12,
     <1>13, <1>14, <1>15, <1>16, <1>17, <1>18, <1>19, <1>20, <1>21, <1>22, <1>23,
     <1>24, <1>25, <1>26, <1>27, <1>28, <1>29
     DEF Next, SyncStep, PlayerStep, BulkStep, Environment

-----------------------------------------------------------------------------
(* Who loses the role was not wanted at some time. *)
LEMMA OutKeeps == TypeOK /\ WhoOK /\ OutInv /\ [Next]_vars => OutInv'
<1> SUFFICES ASSUME LocalsOK, WhoOK, SetsOK, OutInv, [Next]_vars PROVE OutInv'
  BY DEF TypeOK, LocalsOK, SetsOK
<1> USE NoneMatch
    DEF LocalsOK, WhoOK, OutInv, Reading, PlayerPhases, Goto, Done, Again, local, config,
        remote, history
<1>1. ASSUME NEW s \in Syncs, StartPlayer(s) PROVE OutInv'
  BY <1>1 DEF StartPlayer
<1>2. ASSUME NEW s \in Syncs, StartBulk(s) PROVE OutInv'
  <2>1. rule = NoRule => Members \subseteq wasOut
    OBVIOUS
  <2>2. list[s] = {}
    BY <1>2 DEF StartBulk
  <2> QED  BY <1>2, <2>1, <2>2 DEF StartBulk
<1>3. ASSUME NEW s \in Syncs, ReadExisting(s) PROVE OutInv'
  BY <1>3 DEF ReadExisting
<1>4. ASSUME NEW s \in Syncs, Evaluate(s) PROVE OutInv'
  <2>1. ~Qualifies(s) => who[s] \in wasOut
    BY <1>4 DEF Evaluate, Qualifies, LeftOut, FirstOf, Matching
  <2> QED  BY <1>4, <2>1 DEF Evaluate, Applied
<1>5. ASSUME NEW s \in Syncs, AddUser(s) PROVE OutInv'
  BY <1>5 DEF AddUser
<1>6. ASSUME NEW s \in Syncs, RemoveUser(s) PROVE OutInv'
  BY <1>6 DEF RemoveUser
<1>7. ASSUME NEW s \in Syncs, InsertMirror(s) PROVE OutInv'
  BY <1>7 DEF InsertMirror
<1>8. ASSUME NEW s \in Syncs, DeleteMirror(s) PROVE OutInv'
  BY <1>8 DEF DeleteMirror
<1>9. ASSUME NEW s \in Syncs, GetUserInfo(s) PROVE OutInv'
  BY <1>9 DEF GetUserInfo
<1>10. ASSUME NEW s \in Syncs, ListQualifying(s) PROVE OutInv'
  BY <1>10 DEF ListQualifying, Listed, LeftOut
<1>11. ASSUME NEW s \in Syncs, Diff(s) PROVE OutInv'
  BY <1>11 DEF Diff
<1>12. ASSUME NEW s \in Syncs, Upload(s) PROVE OutInv'
  BY <1>12 DEF Upload, Held, Replaced
<1>13. ASSUME NEW s \in Syncs, StartUpload(s) PROVE OutInv'
  BY <1>13 DEF StartUpload
<1>14. ASSUME NEW s \in Syncs, UploadRefused(s) PROVE OutInv'
  BY <1>14 DEF UploadRefused
<1>15. ASSUME NEW s \in Syncs, CommitUpload(s) PROVE OutInv'
  BY <1>15 DEF CommitUpload, Held, Replaced
<1>16. ASSUME NEW s \in Syncs, ReplaceMirror(s) PROVE OutInv'
  BY <1>16 DEF ReplaceMirror, Commit
<1>17. ASSUME NEW s \in Syncs, RecheckHeld(s) PROVE OutInv'
  BY <1>17 DEF RecheckHeld
<1>18. ASSUME NEW s \in Syncs, DeleteOrphan(s) PROVE OutInv'
  BY <1>18 DEF DeleteOrphan
<1>19. ASSUME NEW s \in Syncs, SyncError(s) PROVE OutInv'
  BY <1>19 DEF SyncError
<1>20. ASSUME NEW s \in Syncs, Crash(s) PROVE OutInv'
  BY <1>20 DEF Crash
<1>21. ASSUME NEW m \in Members, FactChanges(m) PROVE OutInv'
  BY <1>21, Remembered DEF FactChanges
<1>22. ASSUME NEW m \in Members, EnqueuePlayer(m) PROVE OutInv'
  BY <1>22 DEF EnqueuePlayer
<1>23. CASE SaveConfig
  BY <1>23, Remembered DEF SaveConfig
<1>24. CASE Disconnect
  BY <1>24, Remembered DEF Disconnect
<1>25. CASE Reconcile
  BY <1>25 DEF Reconcile
<1>26. CASE Pause
  BY <1>26 DEF Pause
<1>27. CASE Resume
  BY <1>27 DEF Resume
<1>28. CASE DeleteLink
  BY <1>28 DEF DeleteLink
<1>29. CASE UNCHANGED vars
  BY <1>29 DEF vars
<1> QED
  BY <1>1, <1>2, <1>3, <1>4, <1>5, <1>6, <1>7, <1>8, <1>9, <1>10, <1>11, <1>12,
     <1>13, <1>14, <1>15, <1>16, <1>17, <1>18, <1>19, <1>20, <1>21, <1>22, <1>23,
     <1>24, <1>25, <1>26, <1>27, <1>28, <1>29
     DEF Next, SyncStep, PlayerStep, BulkStep, Environment
-----------------------------------------------------------------------------
(* A held write is seen to.  *)
LEMMA GoneKeeps == TypeOK /\ GoneInv /\ [Next]_vars => GoneInv'
<1> SUFFICES ASSUME LocalsOK, SetsOK, GoneInv, [Next]_vars PROVE GoneInv'
  BY DEF TypeOK, LocalsOK, SetsOK
<1> USE DEF LocalsOK, SetsOK, GoneInv, Gone, Disabled, Goto, Done, Again, local, remote
<1>1. ASSUME NEW s \in Syncs, StartPlayer(s) PROVE GoneInv'
  BY <1>1 DEF StartPlayer
<1>2. ASSUME NEW s \in Syncs, StartBulk(s) PROVE GoneInv'
  BY <1>2 DEF StartBulk
<1>3. ASSUME NEW s \in Syncs, ReadExisting(s) PROVE GoneInv'
  BY <1>3 DEF ReadExisting
<1>4. ASSUME NEW s \in Syncs, Evaluate(s) PROVE GoneInv'
  BY <1>4 DEF Evaluate, Applied, Qualifies
<1>5. ASSUME NEW s \in Syncs, AddUser(s) PROVE GoneInv'
  BY <1>5 DEF AddUser
<1>6. ASSUME NEW s \in Syncs, RemoveUser(s) PROVE GoneInv'
  BY <1>6 DEF RemoveUser
<1>7. ASSUME NEW s \in Syncs, InsertMirror(s) PROVE GoneInv'
  BY <1>7 DEF InsertMirror
<1>8. ASSUME NEW s \in Syncs, DeleteMirror(s) PROVE GoneInv'
  BY <1>8 DEF DeleteMirror
<1>9. ASSUME NEW s \in Syncs, GetUserInfo(s) PROVE GoneInv'
  BY <1>9 DEF GetUserInfo
<1>10. ASSUME NEW s \in Syncs, ListQualifying(s) PROVE GoneInv'
  BY <1>10 DEF ListQualifying, Listed, FirstOf, Matching
<1>11. ASSUME NEW s \in Syncs, Diff(s) PROVE GoneInv'
  BY <1>11 DEF Diff
<1>12. ASSUME NEW s \in Syncs, Upload(s) PROVE GoneInv'
  BY <1>12 DEF Upload, Held, Replaced
<1>13. ASSUME NEW s \in Syncs, StartUpload(s) PROVE GoneInv'
  BY <1>13 DEF StartUpload
<1>14. ASSUME NEW s \in Syncs, UploadRefused(s) PROVE GoneInv'
  BY <1>14 DEF UploadRefused
<1>15. ASSUME NEW s \in Syncs, CommitUpload(s) PROVE GoneInv'
  BY <1>15 DEF CommitUpload, Held, Replaced
<1>16. ASSUME NEW s \in Syncs, ReplaceMirror(s) PROVE GoneInv'
  BY <1>16 DEF ReplaceMirror, Commit
<1>17. ASSUME NEW s \in Syncs, RecheckHeld(s) PROVE GoneInv'
  BY <1>17 DEF RecheckHeld
<1>18. ASSUME NEW s \in Syncs, DeleteOrphan(s) PROVE GoneInv'
  BY <1>18 DEF DeleteOrphan
<1>19. ASSUME NEW s \in Syncs, SyncError(s) PROVE GoneInv'
  BY <1>19 DEF SyncError
<1>20. ASSUME NEW s \in Syncs, Crash(s) PROVE GoneInv'
  BY <1>20 DEF Crash
<1>21. ASSUME NEW m \in Members, FactChanges(m) PROVE GoneInv'
  BY <1>21 DEF FactChanges
<1>22. ASSUME NEW m \in Members, EnqueuePlayer(m) PROVE GoneInv'
  BY <1>22 DEF EnqueuePlayer
<1>23. CASE SaveConfig
  BY <1>23 DEF SaveConfig
<1>24. CASE Disconnect
  BY <1>24 DEF Disconnect
<1>25. CASE Reconcile
  BY <1>25 DEF Reconcile
<1>26. CASE Pause
  BY <1>26 DEF Pause
<1>27. CASE Resume
  BY <1>27 DEF Resume
<1>28. CASE DeleteLink
  BY <1>28 DEF DeleteLink
<1>29. CASE UNCHANGED vars
  BY <1>29 DEF vars
<1> QED
  BY <1>1, <1>2, <1>3, <1>4, <1>5, <1>6, <1>7, <1>8, <1>9, <1>10, <1>11, <1>12,
     <1>13, <1>14, <1>15, <1>16, <1>17, <1>18, <1>19, <1>20, <1>21, <1>22, <1>23,
     <1>24, <1>25, <1>26, <1>27, <1>28, <1>29
     DEF Next, SyncStep, PlayerStep, BulkStep, Environment

LEMMA OwedKeeps == TypeOK /\ GoneInv /\ OwedInv /\ [Next]_vars => OwedInv'
<1> SUFFICES ASSUME LocalsOK, GoneInv, OwedInv, [Next]_vars PROVE OwedInv'
  BY DEF TypeOK, LocalsOK
<1> USE DEF LocalsOK, GoneInv, OwedInv, BulkPhases, Goto, Done, Again, local, jobs
<1>1. ASSUME NEW s \in Syncs, StartPlayer(s) PROVE OwedInv'
  BY <1>1 DEF StartPlayer
<1>2. ASSUME NEW s \in Syncs, StartBulk(s) PROVE OwedInv'
  BY <1>2 DEF StartBulk
<1>3. ASSUME NEW s \in Syncs, ReadExisting(s) PROVE OwedInv'
  BY <1>3 DEF ReadExisting
<1>4. ASSUME NEW s \in Syncs, Evaluate(s) PROVE OwedInv'
  BY <1>4 DEF Evaluate, Applied, Qualifies
<1>5. ASSUME NEW s \in Syncs, AddUser(s) PROVE OwedInv'
  BY <1>5 DEF AddUser
<1>6. ASSUME NEW s \in Syncs, RemoveUser(s) PROVE OwedInv'
  BY <1>6 DEF RemoveUser
<1>7. ASSUME NEW s \in Syncs, InsertMirror(s) PROVE OwedInv'
  BY <1>7 DEF InsertMirror
<1>8. ASSUME NEW s \in Syncs, DeleteMirror(s) PROVE OwedInv'
  BY <1>8 DEF DeleteMirror
<1>9. ASSUME NEW s \in Syncs, GetUserInfo(s) PROVE OwedInv'
  BY <1>9 DEF GetUserInfo
<1>10. ASSUME NEW s \in Syncs, ListQualifying(s) PROVE OwedInv'
  BY <1>10 DEF ListQualifying, Listed, FirstOf, Matching
<1>11. ASSUME NEW s \in Syncs, Diff(s) PROVE OwedInv'
  BY <1>11 DEF Diff
<1>12. ASSUME NEW s \in Syncs, Upload(s) PROVE OwedInv'
  BY <1>12 DEF Upload, Held, Replaced
<1>13. ASSUME NEW s \in Syncs, StartUpload(s) PROVE OwedInv'
  BY <1>13 DEF StartUpload
<1>14. ASSUME NEW s \in Syncs, UploadRefused(s) PROVE OwedInv'
  BY <1>14 DEF UploadRefused
<1>15. ASSUME NEW s \in Syncs, CommitUpload(s) PROVE OwedInv'
  BY <1>15 DEF CommitUpload, Held, Replaced
<1>16. ASSUME NEW s \in Syncs, ReplaceMirror(s) PROVE OwedInv'
  BY <1>16 DEF ReplaceMirror, Commit
<1>17. ASSUME NEW s \in Syncs, RecheckHeld(s) PROVE OwedInv'
  BY <1>17 DEF RecheckHeld
<1>18. ASSUME NEW s \in Syncs, DeleteOrphan(s) PROVE OwedInv'
  BY <1>18 DEF DeleteOrphan
<1>19. ASSUME NEW s \in Syncs, SyncError(s) PROVE OwedInv'
  BY <1>19 DEF SyncError
<1>20. ASSUME NEW s \in Syncs, Crash(s) PROVE OwedInv'
  BY <1>20 DEF Crash
<1>21. ASSUME NEW m \in Members, FactChanges(m) PROVE OwedInv'
  BY <1>21 DEF FactChanges
<1>22. ASSUME NEW m \in Members, EnqueuePlayer(m) PROVE OwedInv'
  BY <1>22 DEF EnqueuePlayer
<1>23. CASE SaveConfig
  BY <1>23 DEF SaveConfig
<1>24. CASE Disconnect
  BY <1>24 DEF Disconnect
<1>25. CASE Reconcile
  BY <1>25 DEF Reconcile
<1>26. CASE Pause
  BY <1>26 DEF Pause
<1>27. CASE Resume
  BY <1>27 DEF Resume
<1>28. CASE DeleteLink
  BY <1>28 DEF DeleteLink
<1>29. CASE UNCHANGED vars
  BY <1>29 DEF vars
<1> QED
  BY <1>1, <1>2, <1>3, <1>4, <1>5, <1>6, <1>7, <1>8, <1>9, <1>10, <1>11, <1>12,
     <1>13, <1>14, <1>15, <1>16, <1>17, <1>18, <1>19, <1>20, <1>21, <1>22, <1>23,
     <1>24, <1>25, <1>26, <1>27, <1>28, <1>29
     DEF Next, SyncStep, PlayerStep, BulkStep, Environment

-----------------------------------------------------------------------------
(* The mirror. *)
LEMMA OneSyncKeeps == TypeOK /\ OneSync /\ [Next]_vars => OneSync'
<1> SUFFICES ASSUME LocalsOK, OneSync, [Next]_vars PROVE OneSync'
  BY DEF TypeOK, LocalsOK
<1> USE DEF LocalsOK, OneSync, Goto, Done, Again, Begin, Loss, Refusal, Change, local, budgets
<1>1. ASSUME NEW s \in Syncs, StartPlayer(s) PROVE OneSync'
  <2>1. /\ pc[s] = "idle" /\ clean' = (clean /\ \A t \in Syncs : pc[t] = "idle")
        /\ pc' = pc \/ pc' = [pc EXCEPT ![s] = "p_existing"]
    BY <1>1 DEF StartPlayer
  <2> QED  BY <2>1
<1>2. ASSUME NEW s \in Syncs, StartBulk(s) PROVE OneSync'
  BY <1>2 DEF StartBulk
<1>3. ASSUME NEW s \in Syncs, ReadExisting(s) PROVE OneSync'
  BY <1>3 DEF ReadExisting
<1>4. ASSUME NEW s \in Syncs, Evaluate(s) PROVE OneSync'
  BY <1>4 DEF Evaluate, Applied, Qualifies
<1>5. ASSUME NEW s \in Syncs, AddUser(s) PROVE OneSync'
  BY <1>5 DEF AddUser
<1>6. ASSUME NEW s \in Syncs, RemoveUser(s) PROVE OneSync'
  BY <1>6 DEF RemoveUser
<1>7. ASSUME NEW s \in Syncs, InsertMirror(s) PROVE OneSync'
  BY <1>7 DEF InsertMirror
<1>8. ASSUME NEW s \in Syncs, DeleteMirror(s) PROVE OneSync'
  BY <1>8 DEF DeleteMirror
<1>9. ASSUME NEW s \in Syncs, GetUserInfo(s) PROVE OneSync'
  BY <1>9 DEF GetUserInfo
<1>10. ASSUME NEW s \in Syncs, ListQualifying(s) PROVE OneSync'
  BY <1>10 DEF ListQualifying, Listed, FirstOf, Matching
<1>11. ASSUME NEW s \in Syncs, Diff(s) PROVE OneSync'
  BY <1>11 DEF Diff
<1>12. ASSUME NEW s \in Syncs, Upload(s) PROVE OneSync'
  BY <1>12 DEF Upload, Held, Replaced
<1>13. ASSUME NEW s \in Syncs, StartUpload(s) PROVE OneSync'
  BY <1>13 DEF StartUpload
<1>14. ASSUME NEW s \in Syncs, UploadRefused(s) PROVE OneSync'
  BY <1>14 DEF UploadRefused
<1>15. ASSUME NEW s \in Syncs, CommitUpload(s) PROVE OneSync'
  BY <1>15 DEF CommitUpload, Held, Replaced
<1>16. ASSUME NEW s \in Syncs, ReplaceMirror(s) PROVE OneSync'
  BY <1>16 DEF ReplaceMirror, Commit
<1>17. ASSUME NEW s \in Syncs, RecheckHeld(s) PROVE OneSync'
  BY <1>17 DEF RecheckHeld
<1>18. ASSUME NEW s \in Syncs, DeleteOrphan(s) PROVE OneSync'
  BY <1>18 DEF DeleteOrphan
<1>19. ASSUME NEW s \in Syncs, SyncError(s) PROVE OneSync'
  BY <1>19 DEF SyncError
<1>20. ASSUME NEW s \in Syncs, Crash(s) PROVE OneSync'
  BY <1>20 DEF Crash
<1>21. ASSUME NEW m \in Members, FactChanges(m) PROVE OneSync'
  BY <1>21 DEF FactChanges
<1>22. ASSUME NEW m \in Members, EnqueuePlayer(m) PROVE OneSync'
  BY <1>22 DEF EnqueuePlayer
<1>23. CASE SaveConfig
  BY <1>23 DEF SaveConfig
<1>24. CASE Disconnect
  BY <1>24 DEF Disconnect
<1>25. CASE Reconcile
  BY <1>25 DEF Reconcile
<1>26. CASE Pause
  BY <1>26 DEF Pause
<1>27. CASE Resume
  BY <1>27 DEF Resume
<1>28. CASE DeleteLink
  BY <1>28 DEF DeleteLink
<1>29. CASE UNCHANGED vars
  BY <1>29 DEF vars
<1> QED
  BY <1>1, <1>2, <1>3, <1>4, <1>5, <1>6, <1>7, <1>8, <1>9, <1>10, <1>11, <1>12,
     <1>13, <1>14, <1>15, <1>16, <1>17, <1>18, <1>19, <1>20, <1>21, <1>22, <1>23,
     <1>24, <1>25, <1>26, <1>27, <1>28, <1>29
     DEF Next, SyncStep, PlayerStep, BulkStep, Environment

LEMMA MirrorKeeps ==
  TypeOK /\ GoneInv /\ OneSync /\ MirrorLags /\ [Next]_vars => MirrorLags'
<1> SUFFICES ASSUME LocalsOK, SetsOK, GoneInv, OneSync, MirrorLags, [Next]_vars
             PROVE  MirrorLags'
  BY DEF TypeOK, LocalsOK, SetsOK
<1> USE DEF LocalsOK, SetsOK, GoneInv, OneSync, MirrorLags, Recording, Gone, Disabled, Goto,
            Done, Again, Begin, Loss, Refusal, Change, local, remote, budgets
<1>1. ASSUME NEW s \in Syncs, StartPlayer(s) PROVE MirrorLags'
  BY <1>1 DEF StartPlayer
<1>2. ASSUME NEW s \in Syncs, StartBulk(s) PROVE MirrorLags'
  BY <1>2 DEF StartBulk
<1>3. ASSUME NEW s \in Syncs, ReadExisting(s) PROVE MirrorLags'
  BY <1>3 DEF ReadExisting
<1>4. ASSUME NEW s \in Syncs, Evaluate(s) PROVE MirrorLags'
  BY <1>4 DEF Evaluate, Applied, Qualifies
<1>5. ASSUME NEW s \in Syncs, AddUser(s) PROVE MirrorLags'
  BY <1>5 DEF AddUser
<1>6. ASSUME NEW s \in Syncs, RemoveUser(s) PROVE MirrorLags'
  BY <1>6 DEF RemoveUser
<1>7. ASSUME NEW s \in Syncs, InsertMirror(s) PROVE MirrorLags'
  BY <1>7 DEF InsertMirror
<1>8. ASSUME NEW s \in Syncs, DeleteMirror(s) PROVE MirrorLags'
  BY <1>8 DEF DeleteMirror
<1>9. ASSUME NEW s \in Syncs, GetUserInfo(s) PROVE MirrorLags'
  BY <1>9 DEF GetUserInfo
<1>10. ASSUME NEW s \in Syncs, ListQualifying(s) PROVE MirrorLags'
  BY <1>10 DEF ListQualifying, Listed, FirstOf, Matching
<1>11. ASSUME NEW s \in Syncs, Diff(s) PROVE MirrorLags'
  BY <1>11 DEF Diff
<1>12. ASSUME NEW s \in Syncs, Upload(s) PROVE MirrorLags'
  BY <1>12 DEF Upload, Held, Replaced
<1>13. ASSUME NEW s \in Syncs, StartUpload(s) PROVE MirrorLags'
  BY <1>13 DEF StartUpload
<1>14. ASSUME NEW s \in Syncs, UploadRefused(s) PROVE MirrorLags'
  BY <1>14 DEF UploadRefused
<1>15. ASSUME NEW s \in Syncs, CommitUpload(s) PROVE MirrorLags'
  BY <1>15 DEF CommitUpload, Held, Replaced
<1>16. ASSUME NEW s \in Syncs, ReplaceMirror(s) PROVE MirrorLags'
  BY <1>16 DEF ReplaceMirror, Commit
<1>17. ASSUME NEW s \in Syncs, RecheckHeld(s) PROVE MirrorLags'
  BY <1>17 DEF RecheckHeld
<1>18. ASSUME NEW s \in Syncs, DeleteOrphan(s) PROVE MirrorLags'
  BY <1>18 DEF DeleteOrphan
<1>19. ASSUME NEW s \in Syncs, SyncError(s) PROVE MirrorLags'
  BY <1>19 DEF SyncError
<1>20. ASSUME NEW s \in Syncs, Crash(s) PROVE MirrorLags'
  BY <1>20 DEF Crash
<1>21. ASSUME NEW m \in Members, FactChanges(m) PROVE MirrorLags'
  BY <1>21 DEF FactChanges
<1>22. ASSUME NEW m \in Members, EnqueuePlayer(m) PROVE MirrorLags'
  BY <1>22 DEF EnqueuePlayer
<1>23. CASE SaveConfig
  BY <1>23 DEF SaveConfig
<1>24. CASE Disconnect
  BY <1>24 DEF Disconnect
<1>25. CASE Reconcile
  BY <1>25 DEF Reconcile
<1>26. CASE Pause
  BY <1>26 DEF Pause
<1>27. CASE Resume
  BY <1>27 DEF Resume
<1>28. CASE DeleteLink
  BY <1>28 DEF DeleteLink
<1>29. CASE UNCHANGED vars
  BY <1>29 DEF vars
<1> QED
  BY <1>1, <1>2, <1>3, <1>4, <1>5, <1>6, <1>7, <1>8, <1>9, <1>10, <1>11, <1>12,
     <1>13, <1>14, <1>15, <1>16, <1>17, <1>18, <1>19, <1>20, <1>21, <1>22, <1>23,
     <1>24, <1>25, <1>26, <1>27, <1>28, <1>29
     DEF Next, SyncStep, PlayerStep, BulkStep, Environment
-----------------------------------------------------------------------------
LEMMA InitSync == Init => SyncInv
<1> SUFFICES ASSUME Init PROVE SyncInv
  OBVIOUS
<1>1. LocalsOK
  BY DEF Init, LocalsOK, Phases, NoRule
<1>2. FlagsOK
  BY DEF Init, FlagsOK
<1>3. SetsOK
  BY RoleSyncAssumption DEF Init, SetsOK, Matching
<1>4. TypeOK
  BY <1>1, <1>2, <1>3 DEF TypeOK, LocalsOK, FlagsOK, SetsOK
<1>5. WhoOK /\ EarnedInv
  BY NoneMatch DEF Init, WhoOK, PlayerPhases, EarnedInv, GrantsEarned
<1>6. OutInv
  BY DEF Init, OutInv, Reading, LeftOut, Wanted
<1>7. GoneInv /\ OwedInv /\ OneSync /\ MirrorLags
  BY DEF Init, GoneInv, OwedInv, OneSync, MirrorLags
<1> QED  BY <1>4, <1>5, <1>6, <1>7 DEF SyncInv

LEMMA SyncKeeps == SyncInv /\ [Next]_vars => SyncInv'
BY TypesKeep, WhoKeeps, EarnedKeeps, OutKeeps, GoneKeeps, OwedKeeps, OneSyncKeeps, MirrorKeeps
   DEF SyncInv

LEMMA SyncSafe == Spec => []SyncInv
BY InitSync, SyncKeeps, PTL DEF Spec

(* Nobody has the role whose facts never matched a rule in use: neither    *)
(* the player sync (sync.rs, sync_for_player) nor the bulk sync gives it   *)
(* to anybody else, whatever was saved meanwhile, was lost or overlapped.  *)
THEOREM RolesEarned == Spec => []GrantsEarned
<1>1. SyncInv => GrantsEarned
  BY DEF SyncInv, EarnedInv
<1> QED  BY <1>1, SyncSafe, PTL

(* Nobody loses the role whom every rule in use wanted, within the limit,  *)
(* from the start: a removal by name or by a replaced list rests on a rule *)
(* and facts that went together while the sync ran.                        *)
THEOREM RolesKept == Spec => NotStripped
<1>1. SyncInv /\ [Next]_vars =>
        [upState' = "active" => upstream \ upstream' \subseteq wasOut]_vars
  <2> SUFFICES ASSUME SyncInv, [Next]_vars, upState' = "active"
               PROVE  upstream \ upstream' \subseteq wasOut
    OBVIOUS
  <2> USE DEF SyncInv, TypeOK, OutInv
  <2>1. CASE UNCHANGED upstream
    BY <2>1
  <2>2. ASSUME NEW s \in Syncs, AddUser(s) PROVE upstream \subseteq upstream'
    BY <2>2 DEF AddUser
  <2>3. ASSUME NEW s \in Syncs, RemoveUser(s) PROVE upstream \ upstream' \subseteq wasOut
    BY <2>3 DEF RemoveUser
  <2>4. ASSUME NEW s \in Syncs, Upload(s) \/ CommitUpload(s)
        PROVE  upstream \ upstream' \subseteq wasOut
    BY <2>4 DEF Upload, CommitUpload, Held, Replaced
  <2>5. CASE DeleteLink
    BY <2>5 DEF DeleteLink
  <2> QED
    BY <2>1, <2>2, <2>3, <2>4, <2>5
       DEF Next, SyncStep, PlayerStep, BulkStep, Environment, vars, remote,
           StartPlayer, StartBulk, ReadExisting, Evaluate, InsertMirror, DeleteMirror,
           GetUserInfo, ListQualifying, Diff, StartUpload, UploadRefused, ReplaceMirror,
           RecheckHeld, DeleteOrphan, SyncError, Crash, FactChanges, EnqueuePlayer,
           SaveConfig, Disconnect, Reconcile, Pause, Resume
<1> QED  BY <1>1, SyncSafe, PTL DEF Spec, NotStripped

(* A write that RoleLogic holds is seen to by a config_sync that runs or   *)
(* is pending (sync.rs, recheck_held), also when other syncs end meanwhile.*)
THEOREM HeldRechecked == Spec => []HeldIsRechecked
<1>1. SyncInv => HeldIsRechecked
  BY DEF SyncInv, OwedInv, HeldIsRechecked
<1> QED  BY <1>1, SyncSafe, PTL

(* The mirror (role_assignments) is who has the role, between a request    *)
(* and its record, as long as no write was lost and no syncs overlapped.   *)
THEOREM MirrorIsExact == Spec => []MirrorExact
<1>1. SyncInv => MirrorExact
  BY DEF SyncInv, MirrorLags, MirrorExact
<1> QED  BY <1>1, SyncSafe, PTL
===============================================================================
