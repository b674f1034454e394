---------------------------- MODULE ChannelsProofs ----------------------------
(***************************************************************************)
(* Proofs about the sign-in of a channel, for any number of refreshing     *)
(* jobs, connecting callbacks, grants, rotations and faults.               *)
(*                                                                         *)
(* A refresh token that the row holds is the one Kick accepts, unless its  *)
(* successor was lost or waits, under the lock, to be stored.  To keep     *)
(* that, the lock must be known to exclude, a token asked with to be that  *)
(* of the row when it was locked, and a new grant to be named by nothing   *)
(* but the callback that got it: connecting takes no lock.                 *)
(***************************************************************************)
EXTENDS Channels, TLAPS

InLock(p) == at[p] \in {"asking", "answered", "refused"}

TypeInv == TypeOK /\ faults \in 0..MaxFaults /\ issued >= 1

(* Which places a syncer and a callback come to.                           *)
WhoIsWhere ==
  /\ \A p \in Connects : at[p] \in {"idle", "exchanged", "subscribing"}
  /\ \A p \in Syncers : at[p] # "exchanged"

(* The advisory lock excludes, and nobody holds it once the channel is     *)
(* marked: the mark is set by its holder, last thing.                      *)
OneLocked ==
  /\ \A p, q \in Syncers : InLock(p) /\ InLock(q) => p = q
  /\ invalid => ~Locked

(* What a process holds of Kick's tokens while it has the lock, and that   *)
(* it holds nothing else.                                                  *)
HoldsTokens ==
  \A p \in Processes :
    /\ ~InLock(p) => asked[p] = {} /\ answer[p] = {}
    /\ at[p] # "answered" => answer[p] = {}
    /\ at[p] = "asking" =>
         \E t \in Tokens : asked[p] = {t} /\ (t[2] = turn[t[1]] \/ t[1] \in lost)
    /\ at[p] = "answered" =>
         \E t, u \in Tokens : /\ asked[p] = {t} /\ answer[p] = {u}
                              /\ u[1] = t[1] /\ u[2] = turn[u[1]]
    /\ at[p] = "refused" => \A t \in asked[p] : Dead(t)

(* The row holds the token that Kick accepts, or its successor was lost,   *)
(* or has been answered and is about to be stored.                         *)
StoredIsNewest ==
  \/ stored[2] = turn[stored[1]]
  \/ stored[1] \in lost
  \/ \E p \in Syncers : at[p] = "answered" /\ stored \in asked[p] \ answer[p]

(* What names a grant names one that was given.                            *)
GrantsCounted ==
  /\ stored[1] <= issued
  /\ \A p \in Processes : \A t \in asked[p] : t[1] <= issued
  /\ \A g \in Grants : g > issued => turn[g] = 0

(* A grant that was exchanged and not yet stored is known to its callback. *)
NewGrants ==
  \A p \in Connects : at[p] = "exchanged" =>
    \A g \in holds[p] :
      /\ g <= issued /\ turn[g] = 0 /\ stored[1] # g
      /\ \A q \in Processes : \A t \in asked[q] : t[1] # g
      /\ \A q \in Connects \ {p} : at[q] = "exchanged" => g \notin holds[q]

SignInInv ==
  /\ TypeInv /\ WhoIsWhere /\ OneLocked /\ HoldsTokens
  /\ StoredIsNewest /\ GrantsCounted /\ NewGrants /\ StampEarned
-----------------------------------------------------------------------------
LEMMA InitSignIn == Init => SignInInv
<1> SUFFICES ASSUME Init PROVE SignInInv
  OBVIOUS
<1> USE ChannelsAssumption
<1>1. stored \in Tokens /\ stored[1] = 1 /\ stored[2] = 0
  BY DEF Init, Tokens, Grants
<1>2. at \in [Processes -> Places]
  BY DEF Init, Places
<1>3. fresh \in BOOLEAN /\ invalid \in BOOLEAN /\ lapsed \in BOOLEAN /\ raced \in BOOLEAN
  BY DEF Init
<1>4. turn \in [Grants -> 0..MaxTurns] /\ standing \subseteq Grants
  BY DEF Init, Grants
<1>5. TypeInv
  BY <1>1, <1>2, <1>3, <1>4 DEF Init, TypeInv, TypeOK
<1>6. \A p \in Processes : at[p] = "idle" /\ asked[p] = {} /\ answer[p] = {}
  BY DEF Init
<1>7. WhoIsWhere /\ OneLocked /\ HoldsTokens /\ NewGrants
  BY <1>6 DEF Init, WhoIsWhere, OneLocked, HoldsTokens, NewGrants, InLock, Locked,
              Processes, Syncers
<1>8. StoredIsNewest /\ GrantsCounted /\ StampEarned
  BY <1>1, <1>6 DEF Init, StoredIsNewest, GrantsCounted, StampEarned, Grants
<1> QED  BY <1>5, <1>7, <1>8 DEF SignInInv

-----------------------------------------------------------------------------
LEMMA TypesKeep == TypeInv /\ [Next]_vars => TypeInv'
<1> SUFFICES ASSUME TypeInv, [Next]_vars PROVE TypeInv'
  OBVIOUS
<1> USE ChannelsAssumption
    DEF TypeInv, TypeOK, Places, Leave, WithToken, WithoutToken, Fault,
        row, kick, clues, place
<1>1. ASSUME NEW p \in Syncers, Start(p) PROVE TypeInv'
  BY <1>1 DEF Start
<1>2. ASSUME NEW p \in Processes, FastPath(p) PROVE TypeInv'
  BY <1>2 DEF FastPath, Tokens
<1>3. ASSUME NEW p \in Processes, ReadAgain(p) PROVE TypeInv'
  BY <1>3 DEF ReadAgain, Tokens
<1>4. ASSUME NEW p \in Processes, KickGrants(p) PROVE TypeInv'
  BY <1>4 DEF KickGrants, Tokens
<1>5. ASSUME NEW p \in Processes, KickRefuses(p) PROVE TypeInv'
  BY <1>5 DEF KickRefuses
<1>6. ASSUME NEW p \in Processes, RefreshFails(p) PROVE TypeInv'
  BY <1>6 DEF RefreshFails
<1>7. ASSUME NEW p \in Processes, StoreTokens(p) PROVE TypeInv'
  BY <1>7 DEF StoreTokens, GrantsIn, Tokens
<1>8. ASSUME NEW p \in Processes, MarkInvalid(p) PROVE TypeInv'
  BY <1>8 DEF MarkInvalid
<1>9. ASSUME NEW p \in Processes, FindMissing(p) PROVE TypeInv'
  BY <1>9 DEF FindMissing
<1>10. ASSUME NEW p \in Processes, Subscribe(p) PROVE TypeInv'
  BY <1>10 DEF Subscribe, Records
<1>11. ASSUME NEW p \in Processes, Subscribed(p) PROVE TypeInv'
  BY <1>11 DEF Subscribed
<1>12. ASSUME NEW p \in Processes, Sweep(p) PROVE TypeInv'
  <2>1. lapsed' \in BOOLEAN
    BY <1>12 DEF Sweep
  <2>2. faults' \in 0..MaxFaults /\ at' \in [Processes -> Places]
    BY <1>12 DEF Sweep
  <2> QED  BY <1>12, <2>1, <2>2 DEF Sweep
<1>13. ASSUME NEW p \in Processes, CutOff(p) PROVE TypeInv'
  BY <1>13 DEF CutOff, GrantsIn, Tokens
<1>14. ASSUME NEW p \in Connects, Exchange(p) PROVE TypeInv'
  BY <1>14 DEF Exchange, Processes, Grants
<1>15. ASSUME NEW p \in Connects, Refuse(p) PROVE TypeInv'
  BY <1>15 DEF Refuse, Processes
<1>16. ASSUME NEW p \in Connects, Connect(p) PROVE TypeInv'
  <2>1. stored' \in Tokens
    BY <1>16 DEF Connect, Processes, Tokens
  <2>2. fresh' \in BOOLEAN /\ invalid' \in BOOLEAN /\ raced' \in BOOLEAN
    BY <1>16 DEF Connect
  <2>3. at' \in [Processes -> Places] /\ todo' \in [Processes -> SUBSET Types]
    BY <1>16 DEF Connect
  <2> QED  BY <1>16, <2>1, <2>2, <2>3 DEF Connect
<1>17. CASE Age
  BY <1>17 DEF Age
<1>18. CASE Revoke
  BY <1>18 DEF Revoke
<1>19. CASE Lapse
  BY <1>19 DEF Lapse
<1>20. CASE UNCHANGED vars
  BY <1>20 DEF vars
<1> QED
  BY <1>1, <1>2, <1>3, <1>4, <1>5, <1>6, <1>7, <1>8, <1>9, <1>10, <1>11, <1>12, <1>13,
     <1>14, <1>15, <1>16, <1>17, <1>18, <1>19, <1>20 DEF Next, Continues

LEMMA PlacesKeep == TypeInv /\ WhoIsWhere /\ [Next]_vars => WhoIsWhere'
<1> SUFFICES ASSUME TypeInv, WhoIsWhere, [Next]_vars PROVE WhoIsWhere'
  OBVIOUS
<1> USE ChannelsAssumption DEF WhoIsWhere, Processes
<1>1. at \in [Processes -> Places]
  BY DEF TypeInv, TypeOK
<1>2. CASE UNCHANGED at
  BY <1>2
<1>3. ASSUME NEW p \in Processes, Continues(p) \/ CutOff(p) PROVE WhoIsWhere'
  BY <1>1, <1>3 DEF Continues, FastPath, ReadAgain, MayLock, KickGrants, KickRefuses,
       RefreshFails, StoreTokens, MarkInvalid, FindMissing, Subscribe, Subscribed, Sweep,
       CutOff, Leave, WithToken, WithoutToken
<1>4. ASSUME NEW p \in Syncers, Start(p) PROVE WhoIsWhere'
  BY <1>1, <1>4 DEF Start
<1>5. ASSUME NEW p \in Connects, Exchange(p) \/ Refuse(p) \/ Connect(p) PROVE WhoIsWhere'
  BY <1>1, <1>5 DEF Exchange, Refuse, Connect
<1> QED
  BY <1>2, <1>3, <1>4, <1>5 DEF Next, Age, Revoke, Lapse, vars, place
-----------------------------------------------------------------------------
(* Process q goes on as it was, or is no longer near the lock.             *)
Stays(q) ==
  \/ UNCHANGED <<at[q], asked[q], answer[q]>>
  \/ at[q] # "answered" /\ ~InLock(q)' /\ asked'[q] = {} /\ answer'[q] = {}

(* Steps that neither take the lock nor touch a token keep the invariant,  *)
(* also when Kick ends a grant.                                            *)
LEMMA OutsideTheLock ==
  ASSUME SignInInv, TypeInv', WhoIsWhere',
         UNCHANGED <<stored, invalid, turn, issued, lost, raced>>,
         standing' \subseteq standing,
         \A q \in Processes : Stays(q),
         \A q \in Connects : at'[q] = "exchanged" =>
                               at[q] = "exchanged" /\ holds'[q] = holds[q]
  PROVE  SignInInv'
<1> USE DEF Stays, SignInInv
<1>0. \A q \in Processes : InLock(q)' => InLock(q)
  BY DEF InLock
<1>a. Syncers \subseteq Processes /\ Connects \subseteq Processes
  BY DEF Processes
<1>1. OneLocked'
  BY <1>0, <1>a DEF OneLocked, Locked, InLock
<1>2. \A t : Dead(t) => Dead(t)'
  BY DEF Dead, Accepted
<1>3. HoldsTokens'
  <2> SUFFICES ASSUME NEW p \in Processes
               PROVE  /\ ~InLock(p)' => asked'[p] = {} /\ answer'[p] = {}
                      /\ at'[p] # "answered" => answer'[p] = {}
                      /\ at'[p] = "asking" => \E t \in Tokens :
                           asked'[p] = {t} /\ (t[2] = turn'[t[1]] \/ t[1] \in lost')
                      /\ at'[p] = "answered" => \E t, u \in Tokens :
                           /\ asked'[p] = {t} /\ answer'[p] = {u}
                           /\ u[1] = t[1] /\ u[2] = turn'[u[1]]
                      /\ at'[p] = "refused" => \A t \in asked'[p] : Dead(t)'
    BY DEF HoldsTokens
  <2>1. CASE UNCHANGED <<at[p], asked[p], answer[p]>>
    BY <1>2, <2>1 DEF HoldsTokens, InLock
  <2>2. CASE ~InLock(p)' /\ asked'[p] = {} /\ answer'[p] = {}
    BY <2>2 DEF InLock
  <2> QED  BY <2>1, <2>2
<1>4. StoredIsNewest'
  BY <1>a DEF StoredIsNewest
<1>5. GrantsCounted'
  BY DEF GrantsCounted
<1>6. NewGrants'
  BY <1>a DEF NewGrants
<1>7. StampEarned'
  BY <1>2 DEF StampEarned
<1> QED  BY <1>1, <1>3, <1>4, <1>5, <1>6, <1>7

(* Leaving from anywhere but an answer.  *)
LEMMA LeavesTheLock ==
  ASSUME SignInInv, TypeInv', WhoIsWhere', NEW p \in Processes, NEW place_,
         UNCHANGED <<stored, invalid, turn, issued, lost, raced>>,
         standing' \subseteq standing,
         Leave(p, place_), place_ \notin {"asking", "answered", "refused", "exchanged"},
         at[p] # "answered",
         \A q \in Connects : q # p => holds'[q] = holds[q]
  PROVE  SignInInv'
<1>1. /\ at \in [Processes -> Places]
      /\ asked \in [Processes -> SUBSET Tokens] /\ answer \in [Processes -> SUBSET Tokens]
  BY DEF SignInInv, TypeInv, TypeOK
<1>2. \A q \in Processes : Stays(q)
  BY <1>1 DEF Leave, Stays, InLock
<1>3. \A q \in Connects : at'[q] = "exchanged" =>
                            at[q] = "exchanged" /\ holds'[q] = holds[q]
  BY <1>1 DEF Leave, Processes
<1> QED  BY <1>2, <1>3, OutsideTheLock

-----------------------------------------------------------------------------
(* The steps under the lock.                                               *)

(* Who holds the lock holds it alone, and the channel is not marked.       *)
LEMMA HolderAlone ==
  ASSUME SignInInv, NEW p \in Processes, InLock(p)
  PROVE  /\ p \in Syncers /\ ~invalid
         /\ \A q \in Processes : InLock(q) => q = p
BY DEF SignInInv, WhoIsWhere, OneLocked, Locked, InLock, Processes

LEMMA ReadAgainKeeps ==
  ASSUME SignInInv, TypeInv', WhoIsWhere', NEW p \in Processes, ReadAgain(p)
  PROVE  SignInInv'
<1>1. /\ at \in [Processes -> Places] /\ holds \in [Processes -> SUBSET Grants]
      /\ asked \in [Processes -> SUBSET Tokens] /\ stored \in Tokens
  BY DEF SignInInv, TypeInv, TypeOK
<1>2. /\ at[p] = "waiting" /\ ~Locked
      /\ UNCHANGED <<stored, invalid, turn, issued, lost, raced, standing>>
  BY DEF ReadAgain, MayLock, row, kick, clues
<1>3. CASE \E gs \in {{}, {stored[1]}}, to \in {"sweep", "repair"} :
             Leave(p, to) /\ holds' = [holds EXCEPT ![p] = gs]
  BY <1>1, <1>2, <1>3, LeavesTheLock DEF Processes
<1>4. CASE /\ ~invalid /\ at' = [at EXCEPT ![p] = "asking"]
           /\ asked' = [asked EXCEPT ![p] = {stored}]
           /\ UNCHANGED <<answer, holds>>
  <2> USE DEF SignInInv
  <2>1. p \in Syncers /\ \A q \in Syncers : ~InLock(q)
    BY <1>2 DEF WhoIsWhere, Locked, InLock, Processes
  <2>2. \A q \in Processes : q # p => UNCHANGED <<at[q], asked[q], answer[q], holds[q]>>
    BY <1>1, <1>4
  <2>3. at'[p] = "asking" /\ asked'[p] = {stored} /\ answer'[p] = {}
    BY <1>1, <1>2, <1>4 DEF HoldsTokens, InLock
  <2>4. OneLocked'
    BY <1>2, <1>4, <2>1, <2>2 DEF OneLocked, Locked, InLock, Processes
  <2>5. stored[2] = turn[stored[1]] \/ stored[1] \in lost
    BY <2>1 DEF StoredIsNewest, InLock
  <2>6. HoldsTokens'
    <3>1. \A t : Dead(t)' <=> Dead(t)
      BY <1>2 DEF Dead, Accepted
    <3> QED  BY <1>1, <1>2, <2>2, <2>3, <2>5, <3>1 DEF HoldsTokens, InLock
  <2>7. StoredIsNewest'
    BY <1>2, <2>5 DEF StoredIsNewest
  <2>8. GrantsCounted'
    BY <1>2, <2>2, <2>3 DEF GrantsCounted
  <2>9. NewGrants'
    BY <1>2, <2>2, <2>3 DEF NewGrants, Processes
  <2>10. StampEarned'
    BY <1>2 DEF StampEarned, Dead, Accepted
  <2> QED  BY <2>4, <2>6, <2>7, <2>8, <2>9, <2>10
<1> QED  BY <1>3, <1>4 DEF ReadAgain, WithToken, WithoutToken

LEMMA KickGrantsKeeps ==
  ASSUME SignInInv, TypeInv', WhoIsWhere', NEW p \in Processes, KickGrants(p)
  PROVE  SignInInv'
<1> USE ChannelsAssumption DEF SignInInv
<1>1. /\ at \in [Processes -> Places] /\ holds \in [Processes -> SUBSET Grants]
      /\ asked \in [Processes -> SUBSET Tokens] /\ answer \in [Processes -> SUBSET Tokens]
      /\ stored \in Tokens /\ turn \in [Grants -> 0..MaxTurns]
  BY DEF TypeInv, TypeOK
<1>2. PICK t \in asked[p], n \in Int :
        /\ n \in {t[2], t[2] + 1}
        /\ at[p] = "asking" /\ Accepted(t) /\ n <= MaxTurns
        /\ turn' = [turn EXCEPT ![t[1]] = n]
        /\ \/ /\ answer' = [answer EXCEPT ![p] = {<<t[1], n>>}]
              /\ at' = [at EXCEPT ![p] = "answered"]
              /\ UNCHANGED <<asked, holds, lost>>
           \/ /\ WithoutToken(p)
              /\ lost' = IF n > t[2] THEN lost \cup {t[1]} ELSE lost
  <2>1. \A t \in asked[p] : t[2] \in Int /\ t[2] + 1 \in Int
    BY <1>1 DEF Tokens
  <2> QED  BY <2>1 DEF KickGrants
<1>3. UNCHANGED <<stored, invalid, issued, standing, raced>>
  BY DEF KickGrants, row
<1>4. /\ t \in Tokens /\ t[1] \in Grants /\ t[2] \in 0..MaxTurns
      /\ asked[p] = {t} /\ turn[t[1]] = t[2]
  BY <1>1, <1>2 DEF HoldsTokens, Accepted, Tokens
<1>5. n \in 0..MaxTurns /\ <<t[1], n>> \in Tokens
  BY <1>2, <1>4 DEF Tokens
<1>6. /\ p \in Syncers /\ ~invalid /\ InLock(p)
      /\ \A q \in Processes : q # p => ~InLock(q)
  BY <1>2, HolderAlone DEF InLock
<1>7. \A q \in Processes : q # p => UNCHANGED <<at[q], asked[q], answer[q], holds[q]>>
  BY <1>1, <1>2 DEF WithoutToken, Leave
<1>8. \A q \in Processes : q # p => asked[q] = {} /\ answer[q] = {}
  BY <1>6 DEF HoldsTokens
<1>9. \A g \in Grants : turn'[g] = IF g = t[1] THEN n ELSE turn[g]
  BY <1>1, <1>2
<1>10. stored[1] \in Grants /\ stored[2] \in 0..MaxTurns /\ stored = <<stored[1], stored[2]>>
       /\ t = <<t[1], t[2]>>
  BY <1>1, <1>4 DEF Tokens
<1>11. OneLocked'
  BY <1>3, <1>6, <1>7 DEF OneLocked, Locked, InLock, Processes
<1>12. GrantsCounted'
  <2>1. \A q \in Processes : \A x \in asked'[q] : x \in asked[q]
    BY <1>1, <1>2, <1>7 DEF WithoutToken, Leave
  <2>2. t[1] <= issued
    BY <1>4 DEF GrantsCounted
  <2>3. issued \in Int /\ \A g \in Grants : g \in Int
    BY DEF TypeInv, TypeOK, Grants
  <2> QED  BY <1>3, <1>4, <1>9, <2>1, <2>2, <2>3 DEF GrantsCounted
<1>13. NewGrants'
  <2>1. p \notin Connects
    BY <1>6, <1>2 DEF WhoIsWhere
  <2>2. \A q \in Processes : asked'[q] \subseteq asked[q]
    BY <1>1, <1>2, <1>7 DEF WithoutToken, Leave
  <2>3. \A q \in Connects : UNCHANGED <<at[q], holds[q]>> /\ holds[q] \subseteq Grants
    BY <1>1, <1>7, <2>1 DEF Processes
  <2> SUFFICES ASSUME NEW c \in Connects, at[c] = "exchanged", NEW g \in holds[c]
               PROVE  /\ g <= issued' /\ turn'[g] = 0 /\ stored'[1] # g
                      /\ \A q \in Processes : \A x \in asked'[q] : x[1] # g
                      /\ \A q \in Connects \ {c} : at'[q] = "exchanged" => g \notin holds'[q]
    BY <2>3 DEF NewGrants
  <2>4. t[1] # g
    BY <1>4 DEF NewGrants
  <2> QED  BY <1>3, <1>9, <2>2, <2>3, <2>4 DEF NewGrants
<1>14. StampEarned'
  BY <1>3, <1>6 DEF StampEarned
<1>15. stored[1] = t[1] => stored[2] = t[2] \/ t[1] \in lost
  BY <1>4, <1>6, <1>2 DEF StoredIsNewest, InLock, Processes
<1>16. CASE /\ answer' = [answer EXCEPT ![p] = {<<t[1], n>>}]
            /\ at' = [at EXCEPT ![p] = "answered"]
            /\ UNCHANGED <<asked, holds, lost>>
  <2>1. at'[p] = "answered" /\ asked'[p] = {t} /\ answer'[p] = {<<t[1], n>>}
    BY <1>1, <1>4, <1>16
  <2>2. HoldsTokens'
    BY <1>4, <1>5, <1>6, <1>7, <1>8, <1>9, <2>1 DEF HoldsTokens, InLock
  <2>3. StoredIsNewest'
    <3>1. CASE stored[1] # t[1]
      <4>1. stored[2] = turn[stored[1]] \/ stored[1] \in lost
        BY <1>2, <1>6 DEF StoredIsNewest, InLock, Processes
      <4> QED  BY <1>3, <1>9, <1>10, <1>16, <3>1, <4>1 DEF StoredIsNewest
    <3>2. CASE stored[1] = t[1] /\ n = t[2]
      BY <1>3, <1>9, <1>10, <1>15, <1>16, <3>2 DEF StoredIsNewest
    <3>3. CASE stored[1] = t[1] /\ n # t[2]
      <4>1. CASE t[1] \in lost
        BY <1>3, <1>16, <3>3, <4>1 DEF StoredIsNewest
      <4>2. CASE stored[2] = t[2]
        <5>1. stored = t /\ stored # <<t[1], n>>
          BY <1>10, <3>3, <4>2
        <5> QED  BY <1>3, <1>6, <2>1, <5>1 DEF StoredIsNewest
      <4> QED  BY <1>15, <3>3, <4>1, <4>2
    <3> QED  BY <3>1, <3>2, <3>3
  <2> QED  BY <1>11, <1>12, <1>13, <1>14, <2>2, <2>3
<1>17. CASE /\ WithoutToken(p)
            /\ lost' = IF n > t[2] THEN lost \cup {t[1]} ELSE lost
  <2>1. at'[p] = "sweep" /\ asked'[p] = {} /\ answer'[p] = {}
    BY <1>1, <1>17 DEF WithoutToken, Leave
  <2>2. HoldsTokens'
    BY <1>6, <1>7, <1>8, <2>1 DEF HoldsTokens, InLock
  <2>3. StoredIsNewest'
    <3>1. stored[2] = turn[stored[1]] \/ stored[1] \in lost
      BY <1>2, <1>6 DEF StoredIsNewest, InLock, Processes
    <3>2. n = t[2] \/ t[1] \in lost'
      BY <1>2, <1>4, <1>17
    <3>3. lost \subseteq lost'
      BY <1>17
    <3> QED  BY <1>3, <1>4, <1>9, <1>10, <3>1, <3>2, <3>3 DEF StoredIsNewest
  <2> QED  BY <1>11, <1>12, <1>13, <1>14, <2>2, <2>3
<1> QED  BY <1>2, <1>16, <1>17
LEMMA KickRefusesKeeps ==
  ASSUME SignInInv, TypeInv', WhoIsWhere', NEW p \in Processes, KickRefuses(p)
  PROVE  SignInInv'
<1> USE DEF SignInInv
<1>1. at \in [Processes -> Places]
  BY DEF TypeInv, TypeOK
<1>2. PICK t \in asked[p] :
        /\ at[p] = "asking" /\ Dead(t) /\ standing' \in {standing, standing \ {t[1]}}
        /\ at' = [at EXCEPT ![p] = "refused"]
        /\ UNCHANGED <<stored, invalid, turn, issued, lost, raced, asked, answer, holds>>
  BY DEF KickRefuses, row, clues
<1>3. /\ p \in Syncers /\ ~invalid /\ InLock(p)
      /\ \A q \in Processes : q # p => ~InLock(q)
  BY <1>2, HolderAlone DEF InLock
<1>4. /\ \A q \in Processes : q # p => at'[q] = at[q]
      /\ at'[p] = "refused"
  BY <1>1, <1>2
<1>5. \A x : Dead(x) => Dead(x)'
  BY <1>2 DEF Dead, Accepted
<1>6. asked[p] = {t} /\ answer[p] = {}
  BY <1>2 DEF HoldsTokens
<1>7. OneLocked'
  BY <1>2, <1>3, <1>4 DEF OneLocked, Locked, InLock, Processes
<1>8. HoldsTokens'
  <2>1. \A q \in Processes : q # p => ~InLock(q)' /\ asked'[q] = {} /\ answer'[q] = {}
    BY <1>2, <1>3, <1>4 DEF HoldsTokens, InLock
  <2>2. Dead(t)'
    BY <1>2, <1>5
  <2>3. asked'[p] = {t} /\ answer'[p] = {}
    BY <1>2, <1>6
  <2> QED  BY <1>4, <2>1, <2>2, <2>3 DEF HoldsTokens, InLock
<1>9. StoredIsNewest'
  BY <1>2, <1>3 DEF StoredIsNewest, InLock, Processes
<1>10. GrantsCounted'
  BY <1>2 DEF GrantsCounted
<1>11. NewGrants'
  BY <1>2, <1>4 DEF NewGrants, Processes
<1>12. StampEarned'
  BY <1>2, <1>3 DEF StampEarned
<1> QED  BY <1>7, <1>8, <1>9, <1>10, <1>11, <1>12

LEMMA StoreTokensKeeps ==
  ASSUME SignInInv, TypeInv', WhoIsWhere', NEW p \in Processes, StoreTokens(p)
  PROVE  SignInInv'
<1> USE DEF SignInInv
<1>1. /\ at \in [Processes -> Places] /\ holds \in [Processes -> SUBSET Grants]
      /\ asked \in [Processes -> SUBSET Tokens] /\ answer \in [Processes -> SUBSET Tokens]
  BY DEF TypeInv, TypeOK
<1>2. /\ at[p] = "answered" /\ stored' \in answer[p]
      /\ Leave(p, "repair")
      /\ UNCHANGED <<invalid, turn, issued, standing, lost, raced>>
      /\ \A q \in Processes : q # p => holds'[q] = holds[q]
  BY <1>1 DEF StoreTokens, WithToken, kick, clues
<1>3. /\ p \in Syncers /\ ~invalid
      /\ \A q \in Processes : q # p => ~InLock(q)
  BY <1>2, HolderAlone DEF InLock
<1>4. /\ at'[p] = "repair" /\ asked'[p] = {} /\ answer'[p] = {}
      /\ \A q \in Processes : q # p => UNCHANGED <<at[q], asked[q], answer[q]>>
  BY <1>1, <1>2 DEF Leave
<1>5. PICK t, u \in Tokens : /\ asked[p] = {t} /\ answer[p] = {u}
                             /\ u[1] = t[1] /\ u[2] = turn[u[1]]
  BY <1>2 DEF HoldsTokens
<1>6. stored' = u
  BY <1>2, <1>5
<1>7. OneLocked'
  BY <1>2, <1>3, <1>4 DEF OneLocked, Locked, InLock, Processes
<1>8. HoldsTokens'
  BY <1>3, <1>4 DEF HoldsTokens, InLock
<1>9. StoredIsNewest'
  BY <1>2, <1>5, <1>6 DEF StoredIsNewest
<1>10. GrantsCounted'
  BY <1>2, <1>4, <1>5, <1>6 DEF GrantsCounted
<1>11. NewGrants'
  <2>1. \A c \in Connects : c # p /\ c \in Processes
    BY <1>3, <1>2 DEF WhoIsWhere, Processes
  <2>2. \A q \in Processes : asked'[q] \subseteq asked[q]
    BY <1>4
  <2> QED  BY <1>2, <1>4, <1>5, <1>6, <2>1, <2>2 DEF NewGrants
<1>12. StampEarned'
  BY <1>2, <1>3 DEF StampEarned
<1> QED  BY <1>7, <1>8, <1>9, <1>10, <1>11, <1>12

LEMMA MarkInvalidKeeps ==
  ASSUME SignInInv, TypeInv', WhoIsWhere', NEW p \in Processes, MarkInvalid(p)
  PROVE  SignInInv'
<1> USE DEF SignInInv
<1>1. /\ at \in [Processes -> Places] /\ holds \in [Processes -> SUBSET Grants]
      /\ asked \in [Processes -> SUBSET Tokens] /\ answer \in [Processes -> SUBSET Tokens]
  BY DEF TypeInv, TypeOK
<1>2. /\ at[p] = "refused" /\ invalid'
      /\ raced' = IF invalid THEN raced ELSE asked[p] # {stored}
      /\ Leave(p, "sweep")
      /\ UNCHANGED <<stored, turn, issued, standing, lost>>
      /\ \A q \in Processes : q # p => holds'[q] = holds[q]
  BY <1>1 DEF MarkInvalid, WithoutToken, kick
<1>3. /\ p \in Syncers /\ ~invalid
      /\ \A q \in Processes : q # p => ~InLock(q)
  BY <1>2, HolderAlone DEF InLock
<1>4. /\ at'[p] = "sweep" /\ asked'[p] = {} /\ answer'[p] = {}
      /\ \A q \in Processes : q # p => UNCHANGED <<at[q], asked[q], answer[q]>>
  BY <1>1, <1>2 DEF Leave
<1>5. \A q \in Processes : ~InLock(q)'
  BY <1>3, <1>4 DEF InLock
<1>6. OneLocked'
  BY <1>5 DEF OneLocked, Locked, InLock, Processes
<1>7. HoldsTokens'
  BY <1>3, <1>4, <1>5 DEF HoldsTokens, InLock
<1>8. StoredIsNewest'
  BY <1>2, <1>3 DEF StoredIsNewest, InLock, Processes
<1>9. GrantsCounted'
  BY <1>2, <1>4 DEF GrantsCounted
<1>10. NewGrants'
  <2>1. \A c \in Connects : c # p /\ c \in Processes
    BY <1>3, <1>2 DEF WhoIsWhere, Processes
  <2>2. \A q \in Processes : asked'[q] \subseteq asked[q]
    BY <1>4
  <2> QED  BY <1>2, <1>4, <2>1, <2>2 DEF NewGrants
<1>11. StampEarned'
  <2> SUFFICES ASSUME ~raced' PROVE Dead(stored)'
    BY DEF StampEarned
  <2>1. stored \in asked[p]
    BY <1>2, <1>3
  <2>2. Dead(stored)
    BY <1>2, <2>1 DEF HoldsTokens
  <2> QED  BY <1>2, <2>2 DEF Dead, Accepted
<1> QED  BY <1>6, <1>7, <1>8, <1>9, <1>10, <1>11

LEMMA CutOffKeeps ==
  ASSUME SignInInv, TypeInv', WhoIsWhere', NEW p \in Processes, CutOff(p)
  PROVE  SignInInv'
<1> USE DEF SignInInv
<1>1. /\ at \in [Processes -> Places] /\ holds \in [Processes -> SUBSET Grants]
      /\ asked \in [Processes -> SUBSET Tokens] /\ answer \in [Processes -> SUBSET Tokens]
  BY DEF TypeInv, TypeOK
<1>2. /\ lost' = lost \cup GrantsIn(answer[p] \ asked[p])
      /\ UNCHANGED <<stored, invalid, turn, issued, standing, raced>>
      /\ at'[p] = "idle" /\ asked'[p] = {} /\ answer'[p] = {}
      /\ \A q \in Processes : q # p => UNCHANGED <<at[q], asked[q], answer[q], holds[q]>>
  BY <1>1 DEF CutOff, row, kick
<1>3. CASE at[p] # "answered"
  <2>1. lost' = lost
    BY <1>2, <1>3 DEF HoldsTokens, GrantsIn
  <2>2. \A q \in Processes : Stays(q)
    BY <1>2, <1>3 DEF Stays, InLock
  <2>3. \A q \in Connects : at'[q] = "exchanged" =>
                              at[q] = "exchanged" /\ holds'[q] = holds[q]
    BY <1>2 DEF Processes
  <2> QED  BY <1>2, <2>1, <2>2, <2>3, OutsideTheLock
<1>4. CASE at[p] = "answered"
  <2>1. /\ p \in Syncers /\ ~invalid
        /\ \A q \in Processes : q # p => ~InLock(q)
    BY <1>4, HolderAlone DEF InLock
  <2>2. \A q \in Processes : ~InLock(q)'
    BY <1>2, <2>1 DEF InLock
  <2>3. OneLocked'
    BY <2>2 DEF OneLocked, Locked, InLock, Processes
  <2>4. HoldsTokens'
    BY <1>2, <2>1, <2>2 DEF HoldsTokens, InLock
  <2>5. StoredIsNewest'
    <3>1. PICK t, u \in Tokens : /\ asked[p] = {t} /\ answer[p] = {u}
                                 /\ u[1] = t[1] /\ u[2] = turn[u[1]]
      BY <1>4 DEF HoldsTokens
    <3>2. CASE stored \in asked[p] \ answer[p]
      <4>1. stored = t /\ u \in answer[p] \ asked[p]
        BY <3>1, <3>2
      <4> QED  BY <1>2, <3>1, <4>1 DEF StoredIsNewest, GrantsIn
    <3>3. CASE stored \notin asked[p] \ answer[p]
      BY <1>2, <2>1, <3>3 DEF StoredIsNewest, InLock, Processes
    <3> QED  BY <3>2, <3>3
  <2>6. GrantsCounted'
    BY <1>2 DEF GrantsCounted
  <2>7. NewGrants'
    <3>1. \A c \in Connects : c # p /\ c \in Processes
      BY <2>1, <1>4 DEF WhoIsWhere, Processes
    <3>2. \A q \in Processes : asked'[q] \subseteq asked[q]
      BY <1>2
    <3> QED  BY <1>2, <3>1, <3>2 DEF NewGrants
  <2>8. StampEarned'
    BY <1>2, <2>1 DEF StampEarned
  <2> QED  BY <2>3, <2>4, <2>5, <2>6, <2>7, <2>8
<1> QED  BY <1>3, <1>4

-----------------------------------------------------------------------------
(* Connecting, which takes no lock.                                        *)

LEMMA ExchangeKeeps ==
  ASSUME SignInInv, TypeInv', WhoIsWhere', NEW p \in Connects, Exchange(p)
  PROVE  SignInInv'
<1> USE ChannelsAssumption DEF SignInInv
<1>1. /\ at \in [Processes -> Places] /\ holds \in [Processes -> SUBSET Grants]
      /\ stored \in Tokens /\ asked \in [Processes -> SUBSET Tokens]
      /\ issued \in Nat /\ p \in Processes
  BY DEF TypeInv, TypeOK, Processes
<1>2. /\ at[p] = "idle" /\ issued < MaxGrants /\ issued' = issued + 1
      /\ standing' = standing \cup {issued + 1}
      /\ at'[p] = "exchanged" /\ holds'[p] = {issued + 1}
      /\ \A q \in Processes : q # p => UNCHANGED <<at[q], holds[q]>>
      /\ UNCHANGED <<stored, invalid, turn, lost, raced, asked, answer>>
  BY <1>1 DEF Exchange, row, clues
<1>3. \A q \in Processes : InLock(q)' <=> InLock(q)
  BY <1>2 DEF InLock
<1>4. \A t : t[1] # issued + 1 /\ Dead(t) => Dead(t)'
  BY <1>2 DEF Dead, Accepted
<1>5. stored[1] \in Int /\ \A q \in Processes : \A t \in asked[q] : t[1] \in Int
  BY <1>1 DEF Tokens, Grants
<1>6. stored[1] # issued + 1 /\ \A q \in Processes : \A t \in asked[q] : t[1] # issued + 1
  BY <1>1, <1>5 DEF GrantsCounted
<1>7. OneLocked'
  BY <1>2, <1>3 DEF OneLocked, Locked, InLock, Processes
<1>8. HoldsTokens'
  <2> SUFFICES ASSUME NEW q \in Processes
               PROVE  /\ ~InLock(q)' => asked'[q] = {} /\ answer'[q] = {}
                      /\ at'[q] # "answered" => answer'[q] = {}
                      /\ at'[q] = "asking" => \E t \in Tokens :
                           asked'[q] = {t} /\ (t[2] = turn'[t[1]] \/ t[1] \in lost')
                      /\ at'[q] = "answered" => \E t, u \in Tokens :
                           /\ asked'[q] = {t} /\ answer'[q] = {u}
                           /\ u[1] = t[1] /\ u[2] = turn'[u[1]]
                      /\ at'[q] = "refused" => \A t \in asked'[q] : Dead(t)'
    BY DEF HoldsTokens
  <2>1. CASE q = p
    BY <1>2, <2>1 DEF HoldsTokens, InLock
  <2>2. CASE q # p
    BY <1>2, <1>3, <1>4, <1>6, <2>2 DEF HoldsTokens
  <2> QED  BY <2>1, <2>2
<1>9. StoredIsNewest'
  BY <1>2 DEF StoredIsNewest, Processes
<1>10. GrantsCounted'
  <2>1. \A g \in Grants : g \in Int
    BY DEF Grants
  <2> QED  BY <1>1, <1>2, <1>5, <2>1 DEF GrantsCounted
<1>11. NewGrants'
  <2>1. issued + 1 \in Grants /\ turn[issued + 1] = 0
    BY <1>1, <1>2 DEF GrantsCounted, Grants
  <2>2. \A q \in Connects : at[q] = "exchanged" => \A g \in holds[q] : g <= issued /\ g \in Int
    BY <1>1 DEF NewGrants, Processes, Grants
  <2> SUFFICES ASSUME NEW c \in Connects, at'[c] = "exchanged", NEW g \in holds'[c]
               PROVE  /\ g <= issued' /\ turn'[g] = 0 /\ stored'[1] # g
                      /\ \A q \in Processes : \A t \in asked'[q] : t[1] # g
                      /\ \A q \in Connects \ {c} : at'[q] = "exchanged" => g \notin holds'[q]
    BY DEF NewGrants
  <2>3. CASE c = p
    <3>1. g = issued + 1
      BY <1>2, <2>3
    <3>2. \A q \in Connects \ {c} : at'[q] = "exchanged" => g \notin holds'[q]
      BY <1>1, <1>2, <2>2, <2>3, <3>1 DEF Processes
    <3> QED  BY <1>1, <1>2, <1>6, <2>1, <3>1, <3>2
  <2>4. CASE c # p
    <3>1. at[c] = "exchanged" /\ g \in holds[c]
      BY <1>2, <2>4 DEF Processes
    <3>2. g <= issued /\ g \in Int
      BY <2>2, <3>1
    <3>3. g # issued + 1 /\ g <= issued'
      BY <1>1, <1>2, <3>2
    <3> QED  BY <1>1, <1>2, <3>1, <3>3 DEF NewGrants, Processes
  <2> QED  BY <2>3, <2>4
<1>12. StampEarned'
  BY <1>2, <1>4, <1>6 DEF StampEarned
<1> QED  BY <1>7, <1>8, <1>9, <1>10, <1>11, <1>12

LEMMA ConnectKeeps ==
  ASSUME SignInInv, TypeInv', WhoIsWhere', NEW p \in Connects, Connect(p)
  PROVE  SignInInv'
<1> USE ChannelsAssumption DEF SignInInv
<1>1. /\ at \in [Processes -> Places] /\ holds \in [Processes -> SUBSET Grants]
      /\ p \in Processes
  BY DEF TypeInv, TypeOK, Processes
<1>2. PICK g \in holds[p] :
        /\ at[p] = "exchanged" /\ stored' = <<g, 0>> /\ ~invalid'
        /\ at'[p] = "subscribing"
        /\ \A q \in Processes : q # p => at'[q] = at[q]
        /\ UNCHANGED <<turn, issued, lost, asked, answer, holds, standing>>
  BY <1>1 DEF Connect, kick
<1>3. /\ g <= issued /\ turn[g] = 0
      /\ \A q \in Processes : \A t \in asked[q] : t[1] # g
      /\ \A q \in Connects \ {p} : at[q] = "exchanged" => g \notin holds[q]
  BY <1>2 DEF NewGrants
<1>4. \A q \in Processes : InLock(q)' <=> InLock(q)
  BY <1>2 DEF InLock
<1>5. OneLocked'
  BY <1>2, <1>4 DEF OneLocked, Processes
<1>6. HoldsTokens'
  <2>1. \A t : Dead(t)' <=> Dead(t)
    BY <1>2 DEF Dead, Accepted
  <2>2. \A q \in Processes : InLock(q) => at'[q] = at[q]
    BY <1>2 DEF InLock
  <2> QED  BY <1>2, <1>4, <2>1, <2>2 DEF HoldsTokens, InLock
<1>7. StoredIsNewest'
  BY <1>2, <1>3 DEF StoredIsNewest
<1>8. GrantsCounted'
  BY <1>2, <1>3 DEF GrantsCounted
<1>9. NewGrants'
  BY <1>2, <1>3 DEF NewGrants, Processes
<1>10. StampEarned'
  BY <1>2 DEF StampEarned
<1> QED  BY <1>5, <1>6, <1>7, <1>8, <1>9, <1>10

-----------------------------------------------------------------------------
LEMMA SignInKeeps == SignInInv /\ [Next]_vars => SignInInv'
<1> SUFFICES ASSUME SignInInv, [Next]_vars PROVE SignInInv'
  OBVIOUS
<1>a. TypeInv' /\ WhoIsWhere'
  BY TypesKeep, PlacesKeep DEF SignInInv
<1>b. /\ at \in [Processes -> Places] /\ holds \in [Processes -> SUBSET Grants]
      /\ asked \in [Processes -> SUBSET Tokens] /\ answer \in [Processes -> SUBSET Tokens]
      /\ Syncers \subseteq Processes /\ Connects \subseteq Processes
  BY DEF SignInInv, TypeInv, TypeOK, Processes
<1>c. \A q \in Processes : ~InLock(q) => asked[q] = {} /\ answer[q] = {}
  BY DEF SignInInv, HoldsTokens
(* A process that moves on, away from the lock.                            *)
<1>d. ASSUME NEW p \in Processes, NEW place_, ~InLock(p),
             place_ \notin {"asking", "answered", "refused", "exchanged"},
             at' = [at EXCEPT ![p] = place_] \/ at' = at,
             \A q \in Processes : q # p => holds'[q] = holds[q],
             at[p] # "exchanged" \/ at'[p] = place_,
             UNCHANGED <<stored, invalid, turn, issued, lost, raced, standing, asked, answer>>
      PROVE  SignInInv'
  <2>1. \A q \in Processes : Stays(q)
    BY <1>b, <1>c, <1>d DEF Stays, InLock
  <2>2. \A q \in Connects : at'[q] = "exchanged" =>
                              at[q] = "exchanged" /\ holds'[q] = holds[q]
    BY <1>b, <1>d
  <2> QED  BY <1>a, <1>d, <2>1, <2>2, OutsideTheLock
<1>1. ASSUME NEW p \in Syncers, Start(p) PROVE SignInInv'
  BY <1>b, <1>d, <1>1 DEF Start, InLock, row, kick, clues
<1>2. ASSUME NEW p \in Processes, FastPath(p) PROVE SignInInv'
  <2>1. \E to \in {"sweep", "repair", "waiting"} : Leave(p, to)
    BY <1>2 DEF FastPath, WithToken, WithoutToken
  <2>2. /\ at[p] = "token"
        /\ \A q \in Connects : q # p => holds'[q] = holds[q]
        /\ UNCHANGED <<stored, invalid, turn, issued, lost, raced, standing>>
    BY <1>2, <1>b DEF FastPath, WithToken, WithoutToken, row, kick, clues
  <2> QED  BY <1>a, <2>1, <2>2, LeavesTheLock
<1>3. ASSUME NEW p \in Processes, ReadAgain(p) PROVE SignInInv'
  BY <1>a, <1>3, ReadAgainKeeps
<1>4. ASSUME NEW p \in Processes, KickGrants(p) PROVE SignInInv'
  BY <1>a, <1>4, KickGrantsKeeps
<1>5. ASSUME NEW p \in Processes, KickRefuses(p) PROVE SignInInv'
  BY <1>a, <1>5, KickRefusesKeeps
<1>6. ASSUME NEW p \in Processes, RefreshFails(p) PROVE SignInInv'
  <2>1. /\ at[p] = "asking" /\ Leave(p, "sweep")
        /\ \A q \in Connects : q # p => holds'[q] = holds[q]
        /\ UNCHANGED <<stored, invalid, turn, issued, lost, raced, standing>>
    BY <1>6, <1>b DEF RefreshFails, WithoutToken, row, kick, clues
  <2> QED  BY <1>a, <2>1, LeavesTheLock
<1>7. ASSUME NEW p \in Processes, StoreTokens(p) PROVE SignInInv'
  BY <1>a, <1>7, StoreTokensKeeps
<1>8. ASSUME NEW p \in Processes, MarkInvalid(p) PROVE SignInInv'
  BY <1>a, <1>8, MarkInvalidKeeps
<1>9. ASSUME NEW p \in Processes, FindMissing(p) PROVE SignInInv'
  BY <1>b, <1>d, <1>9 DEF FindMissing, InLock, row, kick, clues
<1>10. ASSUME NEW p \in Processes, Subscribe(p) PROVE SignInInv'
  <2>1. /\ at[p] = "subscribing" /\ at' = at /\ holds' = holds
        /\ UNCHANGED <<stored, invalid, turn, issued, lost, raced, standing, asked, answer>>
    BY <1>10 DEF Subscribe, row, clues
  <2> QED  BY <1>b, <1>d, <2>1 DEF InLock
<1>11. ASSUME NEW p \in Processes, Subscribed(p) PROVE SignInInv'
  <2>1. /\ at[p] = "subscribing"
        /\ \E to \in {"sweep", "idle"} : at' = [at EXCEPT ![p] = to]
        /\ \A q \in Processes : q # p => holds'[q] = holds[q]
        /\ UNCHANGED <<stored, invalid, turn, issued, lost, raced, standing, asked, answer>>
    BY <1>11, <1>b DEF Subscribed, row, kick, clues
  <2> QED  BY <1>b, <1>d, <2>1 DEF InLock
<1>12. ASSUME NEW p \in Processes, Sweep(p) PROVE SignInInv'
  BY <1>b, <1>d, <1>12 DEF Sweep, InLock, row, kick, clues
<1>13. ASSUME NEW p \in Processes, CutOff(p) PROVE SignInInv'
  BY <1>a, <1>13, CutOffKeeps
<1>14. ASSUME NEW p \in Connects, Exchange(p) PROVE SignInInv'
  BY <1>a, <1>14, ExchangeKeeps
<1>15. ASSUME NEW p \in Connects, Refuse(p) PROVE SignInInv'
  <2>1. /\ at[p] = "exchanged" /\ at' = [at EXCEPT ![p] = "idle"]
        /\ \A q \in Processes : q # p => holds'[q] = holds[q]
        /\ UNCHANGED <<stored, invalid, turn, issued, lost, raced, standing, asked, answer>>
    BY <1>15, <1>b DEF Refuse, row, kick, clues
  <2> QED  BY <1>b, <1>d, <2>1 DEF InLock
<1>16. ASSUME NEW p \in Connects, Connect(p) PROVE SignInInv'
  BY <1>a, <1>16, ConnectKeeps
<1>17. ASSUME UNCHANGED <<at, asked, answer, holds>>, standing' \subseteq standing,
              UNCHANGED <<stored, invalid, turn, issued, lost, raced>>
       PROVE  SignInInv'
  BY <1>a, <1>17, OutsideTheLock DEF Stays
<1>18. CASE Age \/ Revoke \/ Lapse \/ UNCHANGED vars
  BY <1>17, <1>18 DEF Age, Revoke, Lapse, vars, row, place, kick, clues
<1> QED
  BY <1>1, <1>2, <1>3, <1>4, <1>5, <1>6, <1>7, <1>8, <1>9, <1>10, <1>11, <1>12, <1>13,
     <1>14, <1>15, <1>16, <1>18 DEF Next, Continues

LEMMA SignInSafe == Spec => []SignInInv
BY InitSignIn, SignInKeeps, PTL DEF Spec

(* "One refresh at a time per channel" (broadcaster_token.rs): no token    *)
(* that Kick has rotated is sent to it, unless its successor was lost, and *)
(* nobody asks for a channel that is marked.                               *)
THEOREM TokensSpentOnce == Spec => []SpentOnce
<1>1. SignInInv => SpentOnce
  BY DEF SignInInv, SpentOnce, HoldsTokens, OneLocked, Locked, Processes
<1> QED  BY <1>1, SignInSafe, PTL

(* A channel is marked as needing a sign-in only if Kick will not take its *)
(* refresh token any more (broadcaster_token.rs, mark_invalid), but for a  *)
(* verdict that arrives after a reconnect.                                 *)
THEOREM StampsEarned == Spec => []StampEarned
<1>1. SignInInv => StampEarned
  BY DEF SignInInv
<1> QED  BY <1>1, SignInSafe, PTL
===============================================================================
