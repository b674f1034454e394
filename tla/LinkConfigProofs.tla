--------------------------- MODULE LinkConfigProofs ---------------------------
(***************************************************************************)
(* Proofs about the row of a role link, for any number of tabs, channels,  *)
(* saves, registrations and faults.                                        *)
(*                                                                         *)
(* None of the three properties is inductive.  That a registered link      *)
(* keeps its row needs what is known of tokens on their way and of a sync  *)
(* between its read and its deletion; that a link is bound to a channel of *)
(* its server needs it of the channel a save has looked up already; and    *)
(* that a save replaces what its tab shows needs the order of the versions *)
(* of one birth, also while the tab waits for its version to be read back. *)
(***************************************************************************)
EXTENDS LinkConfig, TLAPS

(* What is counted has been counted from 0.                                *)
CountersOK ==
  /\ saves \in 0..MaxSaves /\ registered \in 0..MaxTokens
  /\ changes \in 0..MaxChanges /\ faults \in 0..MaxFaults

(* What the tabs show and what the histories hold.                         *)
Showing == [rule : Rules, born : Tokens]

CluesOK ==
  /\ seen \in [Tabs -> SUBSET Showing] /\ misled \subseteq Tabs
  /\ slipped \subseteq Channels /\ overtaken \in BOOLEAN

(* Every version is that of a save, or the first.                          *)
VersionsCounted == \A r \in row : r.version <= saves + 1

TypeInv == TypeOK /\ CountersOK /\ CluesOK /\ VersionsCounted

(* Tokens are never given twice: whatever names one names an old one.      *)
TokensCounted ==
  /\ known <= registered
  /\ \A k \in leaving : k <= registered
  /\ \A r \in row : r.born <= registered
  /\ \A t \in Tabs : \A s \in seen[t] : s.born <= registered

(* The token that is current is not that of a late deletion.               *)
LateIsOld == known \notin leaving

(* A sync that nobody overtook asks about the link RoleLogic has, and      *)
(* finds it gone only if it is.                                            *)
SyncAsksCurrent ==
  ~overtaken /\ known # 0 => /\ sync = "asking" => asked = known
                             /\ sync # "gone"

RowInv == TypeInv /\ TokensCounted /\ LateIsOld /\ SyncAsksCurrent /\ RegisteredHasRow

(* A channel that a save has looked up is still the server's, or slipped.  *)
CheckedIsConnected ==
  \A t \in Tabs : at[t] = "checked" => choice[t] \in connected \cup {NoChannel} \cup slipped

BindInv == TypeInv /\ CheckedIsConnected /\ BoundIsConnected

(* What a tab shows of the row is what its version says, and that is not   *)
(* later than the row's, within one birth of the row.  Between the tab's   *)
(* update and its version being read back, it shows what it wrote and has  *)
(* a version from before.                                                  *)
InOrder(t) ==
  \A s \in seen[t] :
    IF at[t] = "written"
    THEN /\ s.rule = mine[t]
         /\ \A r \in row : s.born = r.born => version[t] < r.version
    ELSE t \notin misled =>
         \A r \in row : s.born = r.born => /\ version[t] <= r.version
                                           /\ version[t] = r.version => s.rule = r.rule

LockInv == TypeInv /\ TokensCounted /\ \A t \in Tabs : InOrder(t)
-----------------------------------------------------------------------------
LEMMA InitTypes == Init => TypeInv
<1> SUFFICES ASSUME Init PROVE TypeInv
  OBVIOUS
<1>1. TypeOK
  <2>1. known \in 0..MaxTokens /\ asked \in 0..MaxTokens
    BY LinkConfigAssumption DEF Init
  <2>3. due \in BOOLEAN
    BY DEF Init
  <2>2. /\ version \in [Tabs -> 0..(MaxSaves + 1)]
        /\ mine \in [Tabs -> Rules]
    BY LinkConfigAssumption DEF Init, Rules
  <2> QED  BY <2>1, <2>2, <2>3 DEF Init, TypeOK
<1>2. CountersOK
  BY LinkConfigAssumption DEF Init, CountersOK
<1>3. CluesOK /\ VersionsCounted
  BY DEF Init, CluesOK, VersionsCounted
<1> QED  BY <1>1, <1>2, <1>3 DEF TypeInv

(* What a save makes of the row.  *)
Saved(r, c, n) == [r EXCEPT !.channel = c, !.rule = n, !.version = @ + 1]

LEMMA SavedRow ==
  ASSUME NEW r \in Row, NEW c \in Channels \cup {NoChannel}, NEW n \in Rules,
         r.version + 1 \in 1..(MaxSaves + 1)
  PROVE  /\ Saved(r, c, n) \in Row
         /\ Saved(r, c, n).channel = c /\ Saved(r, c, n).rule = n
         /\ Saved(r, c, n).version = r.version + 1
         /\ Saved(r, c, n).token = r.token /\ Saved(r, c, n).born = r.born
BY DEF Saved, Row

(* The types, and the count of versions, one action at a time.             *)
LEMMA TypesKeep == TypeInv /\ [Next]_vars => TypeInv'
<1> SUFFICES ASSUME TypeInv, [Next]_vars PROVE TypeInv'
  OBVIOUS
<1> USE LinkConfigAssumption
    DEF TypeInv, TypeOK, CountersOK, CluesOK, VersionsCounted, Row, Rules, Tokens,
        Showing, Shown, Goto, EndSave, Fault, Change,
        tabs, syncing, clues, budgets
<1>1. CASE Register
  BY <1>1 DEF Register
<1>2. CASE Unregister
  <2>0. known \in Tokens
    BY <1>2 DEF Unregister
  <2>1. leaving' \subseteq Tokens
    <3>1. leaving' = leaving \cup {known} \/ leaving' = leaving
      BY <1>2 DEF Unregister
    <3> QED  BY <2>0, <3>1
  <2>2. CountersOK'
    BY <1>2 DEF Unregister
  <2> QED  BY <1>2, <2>1, <2>2 DEF Unregister
<1>3. CASE DeleteConfig
  BY <1>3 DEF DeleteConfig
<1>4. ASSUME NEW t \in Tabs, Load(t) PROVE TypeInv'
  BY <1>4 DEF Load
<1>5. ASSUME NEW t \in Tabs, CheckChannel(t) PROVE TypeInv'
  BY <1>5 DEF CheckChannel
<1>6. ASSUME NEW t \in Tabs, Write(t) PROVE TypeInv'
  <2>1. PICK r \in row :
          /\ saves < MaxSaves /\ saves' = saves + 1
          /\ row' = {[r EXCEPT !.channel = choice[t], !.rule = saves + 1, !.version = @ + 1]}
          /\ seen' = [seen EXCEPT ![t] = {[rule |-> saves + 1, born |-> r.born]}]
    BY <1>6 DEF Write
  <2>2. r.version + 1 \in 1..(MaxSaves + 1) /\ r.version + 1 <= saves' + 1
    BY <2>1
  <2>4. saves + 1 \in Rules
    BY <2>1
  <2>3. \A q \in row' : q \in Row /\ q.version <= saves' + 1
    <3>1. row' = {Saved(r, choice[t], saves + 1)}
      BY <2>1 DEF Saved
    <3>2. r \in Row /\ choice[t] \in Channels \cup {NoChannel}
      OBVIOUS
    <3> HIDE DEF Row, Rules
    <3> QED  BY <2>2, <2>4, <3>1, <3>2, SavedRow
  <2>5. seen' \in [Tabs -> SUBSET Showing]
    BY <2>1, <2>4
  <2>6. /\ mine' \in [Tabs -> Rules]
        /\ at' \in [Tabs -> {"closed", "open", "checked", "written"}]
    BY <1>6, <2>4 DEF Write
  <2>7. \A p, q \in row' : p = q
    BY <2>1
  <2>8. CountersOK'
    BY <1>6, <2>1 DEF Write
  <2> QED  BY <1>6, <2>3, <2>5, <2>6, <2>7, <2>8 DEF Write
<1>7. ASSUME NEW t \in Tabs, Reject(t) PROVE TypeInv'
  BY <1>7 DEF Reject
<1>8. ASSUME NEW t \in Tabs, ReadBack(t) PROVE TypeInv'
  <2>0. due' \in BOOLEAN
    BY <1>8 DEF ReadBack
  <2>1. /\ row' = row /\ misled' \subseteq Tabs
        /\ version' \in [Tabs -> 0..(MaxSaves + 1)]
    <3>1. PICK r \in row :
            /\ row' = row /\ version' = [version EXCEPT ![t] = r.version]
            /\ misled' = IF r.rule = mine[t] THEN misled \ {t} ELSE misled \cup {t}
      BY <1>8 DEF ReadBack
    <3>2. r.version \in 0..(MaxSaves + 1)
      OBVIOUS
    <3> QED  BY <3>1, <3>2
  <2>2. /\ at' \in [Tabs -> {"closed", "open", "checked", "written"}]
        /\ choice' \in [Tabs -> Channels \cup {NoChannel}]
        /\ mine' \in [Tabs -> Rules]
    BY <1>8 DEF ReadBack
  <2>3. CountersOK' /\ saves' = saves
    BY <1>8 DEF ReadBack
  <2> QED  BY <1>8, <2>0, <2>1, <2>2, <2>3 DEF ReadBack
<1>9. ASSUME NEW t \in Tabs, SaveBreaks(t) PROVE TypeInv'
  BY <1>9 DEF SaveBreaks
<1>10. ASSUME NEW c \in Channels, Connect(c) PROVE TypeInv'
  BY <1>10 DEF Connect
<1>11. ASSUME NEW c \in Channels, Disconnect(c) PROVE TypeInv'
  BY <1>11 DEF Disconnect, Unbind
<1>12. CASE StartSync
  <2>1. sync' \in {"idle", "asking", "gone"} /\ asked' \in 0..MaxTokens
    BY <1>12 DEF StartSync
  <2> QED  BY <1>12, <2>1 DEF StartSync
<1>13. CASE Answer
  BY <1>13 DEF Answer
<1>14. CASE DeleteOrphan
  BY <1>14 DEF DeleteOrphan
<1>15. CASE UNCHANGED vars
  BY <1>15 DEF vars
<1> QED
  BY <1>1, <1>2, <1>3, <1>4, <1>5, <1>6, <1>7, <1>8, <1>9, <1>10, <1>11, <1>12,
     <1>13, <1>14, <1>15 DEF Next
-----------------------------------------------------------------------------
(* The row of a registered link.                                           *)

LEMMA InitRow == Init => RowInv
BY InitTypes
   DEF Init, RowInv, TokensCounted, LateIsOld, SyncAsksCurrent, RegisteredHasRow

(* A token is new when it is given, and afterwards only copied.            *)
LEMMA TokensKeep ==
  TypeInv /\ TokensCounted /\ [Next]_vars => TokensCounted'
<1> SUFFICES ASSUME TypeInv, TokensCounted, [Next]_vars PROVE TokensCounted'
  OBVIOUS
<1>0. TypeInv'
  BY TypesKeep
<1> USE LinkConfigAssumption
    DEF TokensCounted, Shown, Row, Tokens, Showing
<1>1. CASE Register
  BY <1>1 DEF Register, TypeInv, TypeOK, CountersOK, CluesOK, tabs, syncing
<1>2. CASE Unregister
  <2>1. leaving' = leaving \cup {known} \/ leaving' = leaving
    BY <1>2 DEF Unregister
  <2>2. UNCHANGED <<row, registered, seen>> /\ known' = 0
    BY <1>2 DEF Unregister, Fault, budgets, clues
  <2>3. known' <= registered'
    BY <2>2 DEF TypeInv, CountersOK
  <2> QED  BY <2>1, <2>2, <2>3
<1>3. CASE DeleteConfig
  BY <1>3 DEF DeleteConfig, budgets, clues
<1>4. ASSUME NEW t \in Tabs, Load(t) PROVE TokensCounted'
  BY <1>4 DEF Load, budgets, TypeInv, CluesOK
<1>5. ASSUME NEW t \in Tabs, CheckChannel(t) PROVE TokensCounted'
  BY <1>5 DEF CheckChannel, budgets, clues
<1>6. ASSUME NEW t \in Tabs, Write(t) PROVE TokensCounted'
  BY <1>6 DEF Write, TypeInv, TypeOK, CluesOK
<1>7. ASSUME NEW t \in Tabs, Reject(t) PROVE TokensCounted'
  BY <1>7 DEF Reject, budgets, clues
<1>8. ASSUME NEW t \in Tabs, ReadBack(t) PROVE TokensCounted'
  BY <1>8 DEF ReadBack, Fault, budgets
<1>9. ASSUME NEW t \in Tabs, SaveBreaks(t) PROVE TokensCounted'
  BY <1>9 DEF SaveBreaks, Fault, budgets
<1>10. ASSUME NEW c \in Channels, Connect(c) PROVE TokensCounted'
  BY <1>10 DEF Connect, Change
<1>11. ASSUME NEW c \in Channels, Disconnect(c) PROVE TokensCounted'
  BY <1>11 DEF Disconnect, Unbind, Change, TypeInv, TypeOK
<1>12. CASE StartSync
  BY <1>12 DEF StartSync, budgets
<1>13. CASE Answer
  BY <1>13 DEF Answer, budgets, clues
<1>14. CASE DeleteOrphan
  BY <1>14 DEF DeleteOrphan, budgets, clues
<1>15. CASE UNCHANGED vars
  BY <1>15 DEF vars, budgets, clues
<1> QED
  BY <1>1, <1>2, <1>3, <1>4, <1>5, <1>6, <1>7, <1>8, <1>9, <1>10, <1>11, <1>12,
     <1>13, <1>14, <1>15 DEF Next

(* What the row invariant says of a step that leaves the tokens alone.     *)
LEMMA TokensAlone ==
  ASSUME RowInv, TypeInv', TokensCounted',
         UNCHANGED <<known, leaving, sync, asked, overtaken>>,
         \A r \in row : \E q \in row' : q.token = r.token
  PROVE  RowInv'
BY DEF RowInv, LateIsOld, SyncAsksCurrent, RegisteredHasRow

LEMMA RowKeeps == RowInv /\ [Next]_vars => RowInv'
<1> SUFFICES ASSUME RowInv, [Next]_vars PROVE RowInv'
  OBVIOUS
<1>0. TypeInv' /\ TokensCounted'
  BY TypesKeep, TokensKeep DEF RowInv
<1> USE <1>0
<1>1. CASE Register
  <2>1. registered \in Nat /\ leaving \subseteq Tokens
    BY LinkConfigAssumption DEF RowInv, TypeInv, TypeOK, CountersOK
  <2>2. LateIsOld'
    BY <1>1, <2>1 DEF Register, RowInv, LateIsOld, TokensCounted, Tokens
  <2>3. SyncAsksCurrent'
    BY <1>1 DEF Register, SyncAsksCurrent, syncing
  <2>4. RegisteredHasRow'
    <3>1. CASE row = {}
      BY <1>1, <3>1 DEF Register, RegisteredHasRow
    <3>2. CASE row # {}
      <4>1. PICK r \in row : TRUE
        BY <3>2
      <4>2. r \in Row
        BY DEF RowInv, TypeInv, TypeOK
      <4>3. /\ [r EXCEPT !.token = registered + 1] \in row'
            /\ [r EXCEPT !.token = registered + 1].token = known'
        BY <1>1, <3>2, <4>2 DEF Register, Row
      <4> QED  BY <4>3 DEF RegisteredHasRow
    <3> QED  BY <3>1, <3>2
  <2> QED  BY <2>2, <2>3, <2>4 DEF RowInv
<1>2. CASE Unregister
  <2>1. leaving' \subseteq leaving \cup {known} /\ known' = 0
    BY <1>2 DEF Unregister
  <2>2. 0 \notin leaving'
    BY <1>0, LinkConfigAssumption DEF TypeInv, TypeOK, Tokens
  <2> QED  BY <2>1, <2>2 DEF RowInv, LateIsOld, SyncAsksCurrent, RegisteredHasRow
<1>3. CASE DeleteConfig
  <2>1. PICK k \in leaving : leaving' = leaving \ {k} /\ row' = {r \in row : ~NamesRow(k, r)}
    BY <1>3 DEF DeleteConfig
  <2>2. UNCHANGED <<known, sync, asked, overtaken>>
    BY <1>3 DEF DeleteConfig, syncing, clues
  <2>3. k # known
    BY DEF RowInv, LateIsOld
  <2> QED
    BY <2>1, <2>2, <2>3 DEF RowInv, LateIsOld, SyncAsksCurrent, RegisteredHasRow, NamesRow
<1>4. ASSUME NEW t \in Tabs, Load(t) PROVE RowInv'
  BY <1>4, TokensAlone DEF Load, syncing
<1>5. ASSUME NEW t \in Tabs, CheckChannel(t) PROVE RowInv'
  BY <1>5, TokensAlone DEF CheckChannel, syncing, clues
<1>6. ASSUME NEW t \in Tabs, Write(t) PROVE RowInv'
  <2>1. \A r \in row : \E q \in row' : q.token = r.token
    BY <1>6 DEF Write, RowInv, TypeInv, TypeOK, Row
  <2> QED  BY <1>6, <2>1, TokensAlone DEF Write, syncing
<1>7. ASSUME NEW t \in Tabs, Reject(t) PROVE RowInv'
  BY <1>7, TokensAlone DEF Reject, syncing, clues
<1>8. ASSUME NEW t \in Tabs, ReadBack(t) PROVE RowInv'
  BY <1>8, TokensAlone DEF ReadBack, syncing
<1>9. ASSUME NEW t \in Tabs, SaveBreaks(t) PROVE RowInv'
  BY <1>9, TokensAlone DEF SaveBreaks, syncing
<1>10. ASSUME NEW c \in Channels, Connect(c) PROVE RowInv'
  BY <1>10, TokensAlone DEF Connect, syncing
<1>11. ASSUME NEW c \in Channels, Disconnect(c) PROVE RowInv'
  <2>1. \A r \in row : \E q \in row' : q.token = r.token
    <3> SUFFICES ASSUME NEW r \in row PROVE \E q \in row' : q.token = r.token
      OBVIOUS
    <3> DEFINE q == IF r.channel = c THEN [r EXCEPT !.channel = NoChannel] ELSE r
    <3>1. q \in row'
      BY <1>11 DEF Disconnect, Unbind
    <3>2. q.token = r.token
      BY DEF RowInv, TypeInv, TypeOK, Row
    <3> QED  BY <3>1, <3>2
  <2> QED  BY <1>11, <2>1, TokensAlone DEF Disconnect, syncing
<1>12. CASE StartSync
  <2>1. UNCHANGED <<row, known, leaving, overtaken>>
    BY <1>12 DEF StartSync
  <2>2. SyncAsksCurrent'
    <3>1. CASE UNCHANGED syncing
      BY <2>1, <3>1 DEF RowInv, SyncAsksCurrent, syncing
    <3>2. CASE \E r \in row : sync' = "asking" /\ asked' = r.token
      BY <2>1, <3>2 DEF RowInv, SyncAsksCurrent, RegisteredHasRow, TypeInv, TypeOK
    <3> QED  BY <1>12, <3>1, <3>2 DEF StartSync
  <2> QED  BY <2>1, <2>2 DEF RowInv, LateIsOld, RegisteredHasRow
<1>13. CASE Answer
  <2>1. UNCHANGED <<row, known, leaving, overtaken>>
    BY <1>13 DEF Answer, clues
  <2> QED  BY <1>13, <2>1 DEF Answer, RowInv, LateIsOld, SyncAsksCurrent, RegisteredHasRow
<1>14. CASE DeleteOrphan
  <2>1. UNCHANGED <<known, leaving, overtaken>> /\ sync' = "idle"
    BY <1>14 DEF DeleteOrphan, clues
  <2>2. overtaken \/ known = 0
    BY <1>14 DEF DeleteOrphan, RowInv, SyncAsksCurrent
  <2> QED  BY <2>1, <2>2 DEF RowInv, LateIsOld, SyncAsksCurrent, RegisteredHasRow
<1>15. CASE UNCHANGED vars
  BY <1>15, TokensAlone DEF vars, syncing, clues
<1> QED
  BY <1>1, <1>2, <1>3, <1>4, <1>5, <1>6, <1>7, <1>8, <1>9, <1>10, <1>11, <1>12,
     <1>13, <1>14, <1>15 DEF Next

(* A link RoleLogic has registered keeps its row under its current token,  *)
(* whatever deletions of earlier tokens arrive (plugin.rs, delete_config)  *)
(* and whatever sync finds an earlier link gone (sync.rs).                 *)
THEOREM RegisteredLinkKeepsRow == Spec => []RegisteredHasRow
<1>1. RowInv => RegisteredHasRow
  BY DEF RowInv
<1> QED  BY InitRow, RowKeeps, <1>1, PTL DEF Spec
-----------------------------------------------------------------------------
(* What the two writers of a stored row do, seen from the row they leave.  *)

LEMMA WriteSaves ==
  ASSUME TypeInv, NEW t \in Tabs, Write(t)
  PROVE  \E r \in row, q \in Row :
           /\ row = {r} /\ row' = {q}
           /\ r.version = version[t]
           /\ q.version = r.version + 1 /\ q.version \in Int
           /\ q.channel = choice[t] /\ q.rule = saves + 1
           /\ q.token = r.token /\ q.born = r.born
           /\ seen' = [seen EXCEPT ![t] = {[rule |-> saves + 1, born |-> r.born]}]
           /\ mine' = [mine EXCEPT ![t] = saves + 1]
           /\ at' = [at EXCEPT ![t] = "written"]
<1> USE LinkConfigAssumption DEF TypeInv, TypeOK, CountersOK, VersionsCounted
<1>1. PICK r \in row :
        /\ saves < MaxSaves /\ r.version = version[t]
        /\ row' = {Saved(r, choice[t], saves + 1)}
        /\ seen' = [seen EXCEPT ![t] = {[rule |-> saves + 1, born |-> r.born]}]
        /\ mine' = [mine EXCEPT ![t] = saves + 1]
        /\ at' = [at EXCEPT ![t] = "written"]
  BY DEF Write, Saved, Current, Goto
<1>2. /\ r.version + 1 \in 1..(MaxSaves + 1) /\ saves + 1 \in Rules
      /\ choice[t] \in Channels \cup {NoChannel}
      /\ r \in Row /\ row = {r}
  BY <1>1 DEF Row, Rules
<1> DEFINE q == Saved(r, choice[t], saves + 1)
<1>3. /\ q \in Row /\ q.version = r.version + 1
      /\ q.channel = choice[t] /\ q.rule = saves + 1
      /\ q.token = r.token /\ q.born = r.born
  <2> HIDE DEF Row, Rules
  <2> QED  BY <1>2, SavedRow
<1>4. q.version \in Int
  BY <1>2, <1>3
<1> HIDE DEF q
<1>5. row' = {q}
  BY <1>1 DEF q
<1> QED  BY <1>1, <1>2, <1>3, <1>4, <1>5

LEMMA DisconnectUnbinds ==
  ASSUME TypeInv, NEW c \in Channels, Disconnect(c)
  PROVE  \A q \in row' : \E r \in row :
           /\ q.channel = IF r.channel = c THEN NoChannel ELSE r.channel
           /\ q.version = r.version /\ q.rule = r.rule /\ q.born = r.born
<1> SUFFICES ASSUME NEW r \in row
             PROVE  LET q == IF r.channel = c THEN [r EXCEPT !.channel = NoChannel] ELSE r
                    IN  /\ q.channel = IF r.channel = c THEN NoChannel ELSE r.channel
                        /\ q.version = r.version /\ q.rule = r.rule /\ q.born = r.born
  BY DEF Disconnect, Unbind
<1> QED  BY DEF TypeInv, TypeOK, Row

-----------------------------------------------------------------------------
(* The channel a link is bound to.                                         *)

LEMMA InitBind == Init => BindInv
BY InitTypes DEF Init, BindInv, CheckedIsConnected, BoundIsConnected

(* What remains true when no channel leaves the server.                    *)
LEMMA ChannelsAlone ==
  ASSUME BindInv, TypeInv',
         connected \cup slipped \subseteq connected' \cup slipped',
         \A t \in Tabs : at'[t] = "checked" => at[t] = "checked" /\ choice'[t] = choice[t],
         \A q \in row' : \E r \in row : q.channel = r.channel
  PROVE  BindInv'
BY DEF BindInv, CheckedIsConnected, BoundIsConnected

LEMMA BindKeeps == BindInv /\ [Next]_vars => BindInv'
<1> SUFFICES ASSUME BindInv, [Next]_vars PROVE BindInv'
  OBVIOUS
<1>0. TypeInv' /\ TypeInv
  BY TypesKeep DEF BindInv
<1>a. at \in [Tabs -> {"closed", "open", "checked", "written"}]
  BY <1>0 DEF TypeInv, TypeOK
<1>b. choice \in [Tabs -> Channels \cup {NoChannel}]
  BY <1>0 DEF TypeInv, TypeOK
<1>c. row \subseteq Row
  BY <1>0 DEF TypeInv, TypeOK
<1>1. CASE Register
  <2>1. \A q \in row' : q.channel = NoChannel \/ \E r \in row : q.channel = r.channel
    <3>1. CASE row = {}
      BY <1>1, <3>1 DEF Register
    <3>2. CASE row # {}
      <4>1. row' = {[r EXCEPT !.token = registered + 1] : r \in row}
        BY <1>1, <3>2 DEF Register
      <4> QED  BY <1>c, <4>1 DEF Row
    <3> QED  BY <3>1, <3>2
  <2>2. UNCHANGED <<at, choice, connected, slipped>>
    BY <1>1 DEF Register, tabs
  <2> QED  BY <1>0, <2>1, <2>2 DEF BindInv, CheckedIsConnected, BoundIsConnected
<1>2. CASE Unregister
  BY <1>0, <1>2, ChannelsAlone DEF Unregister, tabs, clues
<1>3. CASE DeleteConfig
  BY <1>0, <1>3, ChannelsAlone DEF DeleteConfig, tabs, clues
<1>4. ASSUME NEW t \in Tabs, Load(t) PROVE BindInv'
  BY <1>0, <1>a, <1>4, ChannelsAlone DEF Load, Goto
<1>5. ASSUME NEW t \in Tabs, CheckChannel(t) PROVE BindInv'
  <2>1. CheckedIsConnected'
    BY <1>a, <1>b, <1>5 DEF CheckChannel, BindInv, CheckedIsConnected, Goto, clues
  <2>2. BoundIsConnected'
    BY <1>5 DEF CheckChannel, BindInv, BoundIsConnected, clues
  <2> QED  BY <1>0, <2>1, <2>2 DEF BindInv
<1>6. ASSUME NEW t \in Tabs, Write(t) PROVE BindInv'
  <2>1. at[t] = "checked" /\ UNCHANGED <<choice, connected, slipped>>
    BY <1>6 DEF Write
  <2>2. \A q \in row' : q.channel = choice[t]
    BY <1>0, <1>6, WriteSaves
  <2>3. BoundIsConnected'
    BY <2>1, <2>2 DEF BindInv, CheckedIsConnected, BoundIsConnected
  <2>4. CheckedIsConnected'
    BY <1>a, <1>6, <2>1 DEF Write, BindInv, CheckedIsConnected, Goto
  <2> QED  BY <1>0, <2>3, <2>4 DEF BindInv
<1>7. ASSUME NEW t \in Tabs, Reject(t) PROVE BindInv'
  BY <1>0, <1>a, <1>b, <1>7, ChannelsAlone DEF Reject, Goto, clues
<1>8. ASSUME NEW t \in Tabs, ReadBack(t) PROVE BindInv'
  BY <1>0, <1>a, <1>b, <1>8, ChannelsAlone DEF ReadBack, Goto, EndSave
<1>9. ASSUME NEW t \in Tabs, SaveBreaks(t) PROVE BindInv'
  BY <1>0, <1>a, <1>b, <1>9, ChannelsAlone DEF SaveBreaks, Goto, EndSave
<1>10. ASSUME NEW c \in Channels, Connect(c) PROVE BindInv'
  BY <1>0, <1>10, ChannelsAlone DEF Connect, tabs
<1>11. ASSUME NEW c \in Channels, Disconnect(c) PROVE BindInv'
  <2>1. /\ connected' = connected \ {c} /\ slipped \subseteq slipped'
        /\ (\E t \in Tabs : at[t] = "checked" /\ choice[t] = c) => c \in slipped'
        /\ UNCHANGED <<at, choice>>
    BY <1>11 DEF Disconnect, tabs
  <2>2. CheckedIsConnected'
    BY <2>1 DEF BindInv, CheckedIsConnected
  <2>3. BoundIsConnected'
    BY <1>0, <1>11, <2>1, DisconnectUnbinds DEF BindInv, BoundIsConnected
  <2> QED  BY <1>0, <2>2, <2>3 DEF BindInv
<1>12. CASE StartSync
  BY <1>0, <1>12, ChannelsAlone DEF StartSync, tabs
<1>13. CASE Answer
  BY <1>0, <1>13, ChannelsAlone DEF Answer, tabs, clues
<1>14. CASE DeleteOrphan
  BY <1>0, <1>14, ChannelsAlone DEF DeleteOrphan, tabs, clues
<1>15. CASE UNCHANGED vars
  BY <1>0, <1>15, ChannelsAlone DEF vars, tabs, clues
<1> QED
  BY <1>1, <1>2, <1>3, <1>4, <1>5, <1>6, <1>7, <1>8, <1>9, <1>10, <1>11, <1>12,
     <1>13, <1>14, <1>15 DEF Next

(* A link is bound only to a channel of its server (admin.rs, role_config_ *)
(* save against broadcaster_delete), but for one that was disconnected     *)
(* between a save's look at it and its update.                             *)
THEOREM LinkBoundToConnected == Spec => []BoundIsConnected
<1>1. BindInv => BoundIsConnected
  BY DEF BindInv
<1> QED  BY InitBind, BindKeeps, <1>1, PTL DEF Spec
-----------------------------------------------------------------------------
(* The optimistic lock of a save.                                          *)

LEMMA InitLock == Init => LockInv
BY InitTypes DEF Init, LockInv, TokensCounted, InOrder

(* A tab that does nothing stays in order while the row is kept, loses     *)
(* fields that are none of its business, or is born anew.                  *)
LEMMA TabAlone ==
  ASSUME NEW t \in Tabs, InOrder(t),
         UNCHANGED <<seen[t], at[t], version[t], mine[t]>>,
         t \in misled' <=> t \in misled,
         \A q \in row' :
            \/ \E r \in row : q.version = r.version /\ q.rule = r.rule /\ q.born = r.born
            \/ \A s \in seen[t] : s.born # q.born
  PROVE  InOrder(t)'
BY DEF InOrder

LEMMA TabsAlone ==
  ASSUME LockInv, UNCHANGED <<seen, at, version, mine, misled>>,
         \A q \in row' :
            \/ \E r \in row : q.version = r.version /\ q.rule = r.rule /\ q.born = r.born
            \/ \A t \in Tabs : \A s \in seen[t] : s.born # q.born
  PROVE  \A t \in Tabs : InOrder(t)'
BY TabAlone DEF LockInv

LEMMA LockKeeps == LockInv /\ [Next]_vars => LockInv'
<1> SUFFICES ASSUME LockInv, [Next]_vars PROVE \A t \in Tabs : InOrder(t)'
  BY TypesKeep, TokensKeep DEF LockInv
<1>0. /\ TypeInv /\ TokensCounted /\ \A t \in Tabs : InOrder(t)
  BY DEF LockInv
<1>a. /\ at \in [Tabs -> {"closed", "open", "checked", "written"}]
      /\ version \in [Tabs -> 0..(MaxSaves + 1)] /\ mine \in [Tabs -> Rules]
      /\ seen \in [Tabs -> SUBSET Showing]
  BY <1>0 DEF TypeInv, TypeOK, CluesOK
<1>b. row \subseteq Row /\ \A r, q \in row : r = q
  BY <1>0 DEF TypeInv, TypeOK
<1>1. CASE Register
  <2>1. \A q \in row' :
          \/ \E r \in row : q.version = r.version /\ q.rule = r.rule /\ q.born = r.born
          \/ q.born = registered + 1
    <3>1. CASE row = {}
      BY <1>1, <3>1 DEF Register
    <3>2. CASE row # {}
      <4>1. row' = {[r EXCEPT !.token = registered + 1] : r \in row}
        BY <1>1, <3>2 DEF Register
      <4> QED  BY <1>b, <4>1 DEF Row
    <3> QED  BY <3>1, <3>2
  <2>2. \A t \in Tabs : \A s \in seen[t] : s.born # registered + 1
    <3> SUFFICES ASSUME NEW t \in Tabs, NEW s \in seen[t] PROVE s.born # registered + 1
      OBVIOUS
    <3>1. s \in Showing
      BY <1>a
    <3> QED  BY <1>0, <3>1, LinkConfigAssumption
             DEF TokensCounted, TypeInv, CountersOK, Showing, Tokens
  <2>3. UNCHANGED <<seen, at, version, mine, misled>>
    BY <1>1 DEF Register, tabs
  <2> QED  BY <2>1, <2>2, <2>3, TabsAlone
<1>2. CASE Unregister
  BY <1>2, TabsAlone DEF Unregister, tabs, clues
<1>3. CASE DeleteConfig
  BY <1>3, TabsAlone DEF DeleteConfig, tabs, clues
<1>4. ASSUME NEW t \in Tabs, Load(t), NEW x \in Tabs PROVE InOrder(x)'
  <2>1. PICK r \in row :
          /\ at' = [at EXCEPT ![t] = "open"] /\ version' = [version EXCEPT ![t] = r.version]
          /\ seen' = [seen EXCEPT ![t] = {Shown(r)}] /\ misled' = misled \ {t}
          /\ row' = row /\ mine' = mine
    BY <1>4 DEF Load, Goto
  <2>2. CASE x = t
    <3>1. at'[t] = "open" /\ version'[t] = r.version /\ seen'[t] = {Shown(r)}
      BY <1>a, <2>1
    <3>2. \A q \in row' : q = r
      BY <1>b, <2>1
    <3>3. r.version <= r.version
      BY <1>b DEF Row
    <3> QED  BY <2>2, <3>1, <3>2, <3>3 DEF InOrder, Shown
  <2>3. CASE x # t
    BY <1>0, <1>a, <2>1, <2>3, TabAlone
  <2> QED  BY <2>2, <2>3
<1>5. ASSUME NEW t \in Tabs, CheckChannel(t), NEW x \in Tabs PROVE InOrder(x)'
  <2>1. /\ at[t] = "open" /\ at' = [at EXCEPT ![t] = "checked"]
        /\ UNCHANGED <<row, version, mine, seen, misled>>
    BY <1>5 DEF CheckChannel, Goto, clues
  <2>2. at'[x] = "written" <=> at[x] = "written"
    BY <1>a, <2>1
  <2> QED  BY <1>0, <2>1, <2>2 DEF InOrder
<1>6. ASSUME NEW t \in Tabs, Write(t), NEW x \in Tabs PROVE InOrder(x)'
  <2>1. PICK r \in row, q \in Row :
           /\ row = {r} /\ row' = {q}
           /\ r.version = version[t]
           /\ q.version = r.version + 1 /\ q.version \in Int
           /\ q.rule = saves + 1 /\ q.born = r.born
           /\ seen' = [seen EXCEPT ![t] = {[rule |-> saves + 1, born |-> r.born]}]
           /\ mine' = [mine EXCEPT ![t] = saves + 1]
           /\ at' = [at EXCEPT ![t] = "written"]
    BY <1>0, <1>6, WriteSaves
  <2>2. UNCHANGED <<version, misled>>
    BY <1>6 DEF Write
  <2>3. r.version \in Int /\ version[x] \in Int
    BY <1>a, <1>b DEF Row
  <2>4. CASE x = t
    <3>1. /\ at'[t] = "written" /\ mine'[t] = saves + 1
          /\ seen'[t] = {[rule |-> saves + 1, born |-> r.born]}
      BY <1>a, <2>1
    <3>2. \A p \in row' : version[t] < p.version
      BY <2>1, <2>3, <2>4
    <3> QED  BY <2>2, <2>4, <3>1, <3>2 DEF InOrder
  <2>5. CASE x # t
    <3>1. at'[x] = at[x] /\ mine'[x] = mine[x] /\ seen'[x] = seen[x]
      BY <1>a, <2>1, <2>5
    <3>2. InOrder(x)
      BY <1>0
    <3>3. \A s \in seen[x] : \A p \in row' : s.born = p.born /\ (at[x] = "written" \/ x \notin misled)
                                      => version[x] < p.version
      BY <2>1, <2>3, <3>2 DEF InOrder
    <3>4. \A p \in row' : p.version = r.version + 1
      BY <2>1
    <3> QED  BY <2>2, <2>3, <3>1, <3>2, <3>3, <3>4 DEF InOrder
  <2> QED  BY <2>4, <2>5
<1>7. ASSUME NEW t \in Tabs, Reject(t), NEW x \in Tabs PROVE InOrder(x)'
  <2>1. /\ at[t] = "checked" /\ at' = [at EXCEPT ![t] = "open"]
        /\ UNCHANGED <<row, version, mine, seen, misled>>
    BY <1>7 DEF Reject, Goto, clues
  <2>2. at'[x] = "written" <=> at[x] = "written"
    BY <1>a, <2>1
  <2> QED  BY <1>0, <2>1, <2>2 DEF InOrder
<1>8. ASSUME NEW t \in Tabs, ReadBack(t), NEW x \in Tabs PROVE InOrder(x)'
  <2>1. PICK r \in row :
          /\ at[t] = "written" /\ version' = [version EXCEPT ![t] = r.version]
          /\ misled' = IF r.rule = mine[t] THEN misled \ {t} ELSE misled \cup {t}
          /\ at' = [at EXCEPT ![t] = "open"] /\ mine' = [mine EXCEPT ![t] = 0]
          /\ row' = row /\ seen' = seen
    BY <1>8 DEF ReadBack, EndSave, Goto
  <2>2. CASE x = t
    <3>1. at'[t] = "open" /\ version'[t] = r.version
      BY <1>a, <2>1
    <3>2. \A q \in row' : q = r
      BY <1>b, <2>1
    <3>3. \A s \in seen[t] : s.rule = mine[t]
      BY <1>0, <2>1 DEF InOrder
    <3>4. t \notin misled' => r.rule = mine[t]
      BY <2>1
    <3>5. r.version <= r.version
      BY <1>b DEF Row
    <3> QED  BY <2>1, <2>2, <3>1, <3>2, <3>3, <3>4, <3>5 DEF InOrder
  <2>3. CASE x # t
    <3>1. UNCHANGED <<seen[x], at[x], version[x], mine[x]>>
      BY <1>a, <2>1, <2>3
    <3>2. x \in misled' <=> x \in misled
      BY <2>1, <2>3
    <3> QED  BY <1>0, <2>1, <3>1, <3>2, TabAlone
  <2> QED  BY <2>2, <2>3
<1>9. ASSUME NEW t \in Tabs, SaveBreaks(t), NEW x \in Tabs PROVE InOrder(x)'
  <2>1. /\ at[t] = "written" /\ at' = [at EXCEPT ![t] = "open"]
        /\ mine' = [mine EXCEPT ![t] = 0]
        /\ UNCHANGED <<row, version, seen, misled>>
    BY <1>9 DEF SaveBreaks, EndSave, Goto
  <2>2. CASE x = t
    <3>1. at'[t] = "open"
      BY <1>a, <2>1
    <3>2. \A s \in seen[t] : \A r \in row : s.born = r.born => version[t] < r.version
      BY <1>0, <2>1 DEF InOrder
    <3>3. \A r \in row : r.version \in Int /\ version[t] \in Int
      BY <1>a, <1>b DEF Row
    <3> QED  BY <2>1, <2>2, <3>1, <3>2, <3>3 DEF InOrder
  <2>3. CASE x # t
    <3>1. UNCHANGED <<seen[x], at[x], version[x], mine[x]>>
      BY <1>a, <2>1, <2>3
    <3> QED  BY <1>0, <2>1, <3>1, TabAlone
  <2> QED  BY <2>2, <2>3
<1>10. ASSUME NEW c \in Channels, Connect(c) PROVE \A t \in Tabs : InOrder(t)'
  BY <1>10, TabsAlone DEF Connect, tabs
<1>11. ASSUME NEW c \in Channels, Disconnect(c) PROVE \A t \in Tabs : InOrder(t)'
  BY <1>0, <1>11, DisconnectUnbinds, TabsAlone DEF Disconnect, tabs
<1>12. CASE StartSync
  BY <1>12, TabsAlone DEF StartSync, tabs
<1>13. CASE Answer
  BY <1>13, TabsAlone DEF Answer, tabs, clues
<1>14. CASE DeleteOrphan
  BY <1>14, TabsAlone DEF DeleteOrphan, tabs, clues
<1>15. CASE UNCHANGED vars
  BY <1>15, TabsAlone DEF vars, tabs, clues
<1> QED
  BY <1>1, <1>2, <1>3, <1>4, <1>5, <1>6, <1>7, <1>8, <1>9, <1>10, <1>11, <1>12,
     <1>13, <1>14, <1>15 DEF Next

(* Only Write takes a tab from its check to its update.                    *)
LEMMA OnlyWriteSaves ==
  ASSUME TypeInv, [Next]_vars, NEW t \in Tabs, Saves(t)
  PROVE  Write(t)
<1>a. at \in [Tabs -> {"closed", "open", "checked", "written"}]
  BY DEF TypeInv, TypeOK
<1>1. at' # at
  BY DEF Saves
<1>2. PICK x \in Tabs : \/ Load(x) \/ CheckChannel(x) \/ Write(x) \/ Reject(x)
                        \/ ReadBack(x) \/ SaveBreaks(x)
  BY <1>1 DEF Next, vars, tabs, Register, Unregister, DeleteConfig, Connect, Disconnect,
              StartSync, Answer, DeleteOrphan
<1>3. at'[t] = "written" /\ at[t] = "checked"
  BY DEF Saves
<1> QED
  BY <1>a, <1>2, <1>3 DEF Load, CheckChannel, Write, Reject, ReadBack, SaveBreaks,
                          EndSave, Goto

(* "Only update if the version still matches what the editor loaded"       *)
(* (admin.rs, role_config_save): a save replaces the rule its tab shows,   *)
(* but for a tab misled by its last answer and a row born since.           *)
THEOREM SaveReplacesWhatItSaw == Spec => SavesOverWhatItSaw
<1>1. LockInv /\ [Next]_vars =>
        [\A t \in Tabs : Saves(t) =>
           \A r \in row : \/ Shown(r) \in seen[t]
                          \/ t \in misled
                          \/ \A s \in seen[t] : s.born # r.born]_vars
  <2> SUFFICES ASSUME LockInv, [Next]_vars, NEW t \in Tabs, Saves(t), NEW r \in row,
                      t \notin misled, NEW s \in seen[t], s.born = r.born
               PROVE  Shown(r) \in seen[t]
    OBVIOUS
  <2>1. TypeInv /\ InOrder(t) /\ at[t] = "checked"
    BY DEF LockInv, Saves
  <2>2. version[t] = r.version
    BY <2>1, OnlyWriteSaves, WriteSaves
  <2>3. s.rule = r.rule
    BY <2>1, <2>2 DEF InOrder
  <2>4. s = [rule |-> s.rule, born |-> s.born]
    BY <2>1 DEF TypeInv, CluesOK, Showing
  <2> QED  BY <2>3, <2>4 DEF Shown
<1> QED  BY InitLock, LockKeeps, <1>1, PTL DEF Spec, SavesOverWhatItSaw
===============================================================================
