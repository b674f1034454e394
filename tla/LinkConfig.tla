------------------------------ MODULE LinkConfig ------------------------------
(***************************************************************************)
(* The row of one role link, and everybody who writes it: RoleLogic, which *)
(* registers and deletes the link (routes/plugin.rs), the tabs in which    *)
(* its rule is edited, the server's channels (routes/admin.rs), and a sync *)
(* that finds the link gone (services/sync.rs).                            *)
(*                                                                         *)
(* A save runs four statements with others in between: the channel is      *)
(* looked up, the row is updated if its version is the one the tab has,    *)
(* the version is read back for the tab, and a config_sync is queued.      *)
(*                                                                         *)
(* RoleLogic is external: it gives every link a token of its own, waits    *)
(* for the answer to a registration, and may tell a deletion late or not   *)
(* at all.  A rule is reduced to which save wrote it and its channel; what *)
(* a valid rule is, is in RuleEngine, what a sync does with it in RoleSync.*)
(* Who may open the page is left out: an open tab has its session, and a   *)
(* read-only one never gets as far as a save.                              *)
(***************************************************************************)
EXTENDS Integers

CONSTANTS
  Tabs,          \* browser tabs with the settings page of the link
  Channels,      \* Kick channels
  NoChannel,     \* kick_channel_id is NULL
  MaxSaves,      \* bound: saves
  MaxTokens,     \* bound: registrations
  MaxChanges,    \* bound: channels connected and disconnected
  MaxFaults      \* bound: failed statements, handlers cut off, lost messages

ASSUME LinkConfigAssumption ==
  /\ NoChannel \notin Channels
  /\ MaxSaves \in Nat /\ MaxTokens \in Nat /\ MaxChanges \in Nat /\ MaxFaults \in Nat

Tokens == 1..MaxTokens
Rules  == 0..MaxSaves      \* 0: the rule of a new row; n: what the n-th save wrote

VARIABLES
  row,        \* role_links: {} or {the row}
  connected,  \* guild_broadcasters: the server's channels
  due,        \* a config_sync of the link is pending
  known,      \* RoleLogic: the token of the link, 0 when it has none
  leaving,    \* RoleLogic: tokens whose DELETE /config is on its way
  at,         \* each tab: "closed", "open", "checked", "written"
  version,    \* each tab: rule_tree_version
  choice,     \* each tab: the channel it saves
  mine,       \* each tab: the rule it has just written, or 0
  sync,       \* a sync of the link: "idle", "asking", "gone"
  asked,      \* the token it read
  seen,       \* history: what each tab shows, the rule and the row's birth
  misled,     \* history: tabs given the version of another tab's save
  slipped,    \* history: channels disconnected under a save
  overtaken,  \* history: the link was registered under a sync that found it gone
  saves, registered, changes, faults

tabs    == <<at, version, choice, mine>>
syncing == <<sync, asked>>
clues   == <<seen, misled, slipped, overtaken>>
budgets == <<saves, registered, changes, faults>>
vars    == <<row, connected, due, known, leaving, tabs, syncing, clues, budgets>>

Row == [channel : Channels \cup {NoChannel}, rule : Rules, version : 1..(MaxSaves + 1),
        token : Tokens, born : Tokens]

TypeOK ==
  /\ row \subseteq Row /\ \A r, q \in row : r = q
  /\ connected \subseteq Channels /\ due \in BOOLEAN
  /\ known \in 0..MaxTokens /\ leaving \subseteq Tokens
  /\ at \in [Tabs -> {"closed", "open", "checked", "written"}]
  /\ version \in [Tabs -> 0..(MaxSaves + 1)]
  /\ choice \in [Tabs -> Channels \cup {NoChannel}]
  /\ mine \in [Tabs -> Rules]
  /\ sync \in {"idle", "asking", "gone"} /\ asked \in 0..MaxTokens

Fault  == faults < MaxFaults /\ faults' = faults + 1 /\ UNCHANGED <<saves, registered, changes>>
Change == changes < MaxChanges /\ changes' = changes + 1 /\ UNCHANGED <<saves, registered, faults>>

Goto(t, place) == at' = [at EXCEPT ![t] = place]

-----------------------------------------------------------------------------
(* RoleLogic.  *)

(* POST /register: a new link, or a new token for the one we have.         *)
Register ==
  /\ registered < MaxTokens /\ registered' = registered + 1
  /\ known' = registered + 1
  /\ row' = IF row = {}
            THEN {[channel |-> NoChannel, rule |-> 0, version |-> 1,
                   token |-> registered + 1, born |-> registered + 1]}
            ELSE {[r EXCEPT !.token = registered + 1] : r \in row}
  /\ overtaken' = (sync \in {"asking", "gone"})
  /\ UNCHANGED <<connected, due, leaving, tabs, syncing, seen, misled,
                 slipped, saves, changes, faults>>

(* The link is deleted there; the message to us may be lost.               *)
Unregister ==
  /\ known # 0 /\ known' = 0
  /\ \/ leaving' = leaving \cup {known} /\ UNCHANGED budgets
     \/ Fault /\ UNCHANGED leaving
  /\ UNCHANGED <<row, connected, due, tabs, syncing, clues>>

(* Mutant: the row is deleted by server and role alone.                    *)
NamesRowAny(k, r) == r.token \in Tokens

(* DELETE /config: the row goes if the token is its own.                   *)
NamesRow(k, r) == r.token = k

DeleteConfig ==
  \E k \in leaving :
    /\ leaving' = leaving \ {k}
    /\ row' = {r \in row : ~NamesRow(k, r)}
    /\ UNCHANGED <<connected, due, known, tabs, syncing, clues, budgets>>

-----------------------------------------------------------------------------
(* The settings page.  *)

Shown(r) == [rule |-> r.rule, born |-> r.born]

(* The page is opened or loaded again: role_config_data.                   *)
Load(t) ==
  \E r \in row :
    /\ at[t] \in {"closed", "open"} /\ Goto(t, "open")
    /\ version' = [version EXCEPT ![t] = r.version]
    /\ seen' = [seen EXCEPT ![t] = {Shown(r)}]
    /\ misled' = misled \ {t}
    /\ UNCHANGED <<row, connected, due, known, leaving, choice, mine, syncing, slipped,
                   overtaken, budgets>>

(* A save with a channel of this server, or a rule that needs none.        *)
CheckChannel(t) ==
  \E c \in connected \cup {NoChannel} :
    /\ at[t] = "open" /\ saves < MaxSaves /\ Goto(t, "checked")
    /\ choice' = [choice EXCEPT ![t] = c]
    /\ UNCHANGED <<row, connected, due, known, leaving, version, mine, syncing, clues,
                   budgets>>

(* Mutant: no optimistic lock.  *)
CurrentAlways(t, r) == r.version > 0

Current(t, r) == r.version = version[t]

(* The row is updated if nobody saved since the tab was loaded.            *)
Write(t) ==
  \E r \in row :
    /\ at[t] = "checked" /\ saves < MaxSaves /\ Current(t, r)
    /\ saves' = saves + 1
    /\ row' = {[r EXCEPT !.channel = choice[t], !.rule = saves + 1, !.version = @ + 1]}
    /\ mine' = [mine EXCEPT ![t] = saves + 1]
    /\ Goto(t, "written")
    /\ seen' = [seen EXCEPT ![t] = {[rule |-> saves + 1, born |-> r.born]}]
    /\ UNCHANGED <<connected, due, known, leaving, version, choice, syncing, misled,
                   slipped, overtaken, registered, changes, faults>>

(* No row was updated: the link is gone, or the version has moved on, and  *)
(* the tab is told to reload.                                              *)
Reject(t) ==
  /\ at[t] = "checked" /\ \A r \in row : ~Current(t, r)
  /\ Goto(t, "open") /\ choice' = [choice EXCEPT ![t] = NoChannel]
  /\ UNCHANGED <<row, connected, due, known, leaving, version, mine, syncing, clues, budgets>>

(* The save is over, for the tab.  *)
EndSave(t) ==
  /\ Goto(t, "open")
  /\ choice' = [choice EXCEPT ![t] = NoChannel] /\ mine' = [mine EXCEPT ![t] = 0]

(* The version is read again, whoever wrote it last, and the config_sync   *)
(* is queued; the answer gives the tab that version.  Queueing may fail.   *)
ReadBack(t) ==
  \E r \in row :
    /\ at[t] = "written"
    /\ version' = [version EXCEPT ![t] = r.version]
    /\ misled' = IF r.rule = mine[t] THEN misled \ {t} ELSE misled \cup {t}
    /\ EndSave(t)
    /\ \/ due' = TRUE /\ UNCHANGED budgets
       \/ Fault /\ UNCHANGED due
    /\ UNCHANGED <<row, connected, known, leaving, syncing, seen, slipped, overtaken>>

(* The row is gone by then, or the handler is cut off: the tab is told of  *)
(* an error, and keeps the version it had.                                 *)
SaveBreaks(t) ==
  /\ at[t] = "written" /\ EndSave(t) /\ UNCHANGED version
  /\ \/ row = {} /\ UNCHANGED budgets
     \/ Fault
  /\ UNCHANGED <<row, connected, due, known, leaving, syncing, seen, misled, slipped,
                 overtaken>>

-----------------------------------------------------------------------------
(* The server's channels.  *)

(* The end of broadcaster_callback_inner.  *)
Connect(c) ==
  /\ c \notin connected /\ Change
  /\ connected' = connected \cup {c}
  /\ slipped' = slipped \ {c}
  /\ UNCHANGED <<row, due, known, leaving, tabs, syncing, seen, misled,
                 overtaken>>

(* Mutant: the links keep a channel that is disconnected.  *)
UnbindNothing(c) == row

Unbind(c) == {IF r.channel = c THEN [r EXCEPT !.channel = NoChannel] ELSE r : r \in row}

(* The channel goes, and the links of the server that used it are unbound, *)
(* in one transaction; nothing is synced.                                  *)
Disconnect(c) ==
  /\ c \in connected /\ Change
  /\ connected' = connected \ {c}
  /\ row' = Unbind(c)
  /\ slipped' = IF \E t \in Tabs : at[t] = "checked" /\ choice[t] = c
                THEN slipped \cup {c} ELSE slipped
  /\ UNCHANGED <<due, known, leaving, tabs, syncing, seen, misled, overtaken>>

-----------------------------------------------------------------------------
(* A config_sync.  *)

(* The link is read with its rule and its token; the role follows it.      *)
StartSync ==
  /\ sync = "idle" /\ due /\ due' = FALSE
  /\ \/ row = {} /\ UNCHANGED syncing
     \/ \E r \in row : sync' = "asking" /\ asked' = r.token
  /\ UNCHANGED <<row, connected, known, leaving, tabs, seen, misled, slipped, overtaken,
                 budgets>>

(* RoleLogic knows the token, or answers 404.  *)
Answer ==
  /\ sync = "asking"
  /\ \/ asked = known /\ sync' = "idle" /\ asked' = 0
     \/ asked # known /\ sync' = "gone" /\ UNCHANGED asked
  /\ UNCHANGED <<row, connected, due, known, leaving, tabs, clues, budgets>>

(* delete_orphan_role_link: by server and role.  *)
DeleteOrphan ==
  /\ sync = "gone" /\ sync' = "idle" /\ asked' = 0
  /\ row' = {}
  /\ UNCHANGED <<connected, due, known, leaving, tabs, clues, budgets>>

Init ==
  /\ row = {} /\ connected = {} /\ due = FALSE /\ known = 0 /\ leaving = {}
  /\ at = [t \in Tabs |-> "closed"] /\ version = [t \in Tabs |-> 0]
  /\ choice = [t \in Tabs |-> NoChannel] /\ mine = [t \in Tabs |-> 0]
  /\ sync = "idle" /\ asked = 0
  /\ seen = [t \in Tabs |-> {}] /\ misled = {}
  /\ slipped = {} /\ overtaken = FALSE
  /\ saves = 0 /\ registered = 0 /\ changes = 0 /\ faults = 0

Next ==
  \/ Register \/ Unregister \/ DeleteConfig
  \/ \E t \in Tabs : \/ Load(t) \/ CheckChannel(t) \/ Write(t) \/ Reject(t)
                     \/ ReadBack(t) \/ SaveBreaks(t)
  \/ \E c \in Channels : Connect(c) \/ Disconnect(c)
  \/ StartSync \/ Answer \/ DeleteOrphan

Spec == Init /\ [][Next]_vars

-----------------------------------------------------------------------------
(* What tab t would replace if its save went through now.  *)
Saves(t) == at[t] = "checked" /\ at'[t] = "written"

(* The optimistic lock: "only update if the version still matches what the *)
(* editor loaded", which "prevents a second tab from silently clobbering". *)
(* It does, but for two cases: the version the tab was given after its     *)
(* last save belongs to another tab's, or the row was deleted and          *)
(* registered again, which starts the versions over.                       *)
SavesOverWhatItSaw ==
  [][\A t \in Tabs : Saves(t) =>
       \A r \in row : \/ Shown(r) \in seen[t]
                      \/ t \in misled
                      \/ \A s \in seen[t] : s.born # r.born]_vars

(* A link is bound only to a channel of its server, unless the channel was *)
(* disconnected between a save's look at it and its update.                *)
BoundIsConnected ==
  \A r \in row : r.channel \in connected \cup {NoChannel} \cup slipped

(* A link RoleLogic has registered keeps its row under its current token,  *)
(* whatever late deletion or orphan of an earlier link comes by; except    *)
(* when it was registered while a sync of the earlier one was talking to   *)
(* RoleLogic.                                                              *)
RegisteredHasRow ==
  known # 0 /\ ~overtaken => \E r \in row : r.token = known
=============================================================================
