----------------------------- MODULE RuleEngine -----------------------------
(***************************************************************************)
(* Who a rule grants to, said three times: in Rust for one member          *)
(* (condition_eval.rs, a player sync), in SQL for all members              *)
(* (rule_sql.rs, a bulk sync) and in SQL again for the editor's preview    *)
(* (admin.rs).  Each rule comes through rule_validator.rs, which turns     *)
(* what the page sent into what is stored.                                 *)
(*                                                                         *)
(* An optional value is a set of at most one element: NULL, None and a     *)
(* refusal are the empty set.  A text is a sequence of characters; what a  *)
(* numeral, a word for a truth value or a regular expression stands for    *)
(* is given by constants.  A list of values is a set.                      *)
(***************************************************************************)
EXTENDS Integers, Sequences, FiniteSets

CONSTANTS
  Members,        \* members of the guild
  Viewers,        \* what the database may hold about a linked member
  Bodies,         \* rules the page may send
  Texts,          \* every text in a viewer or a body
  Numerals,       \* a function from texts to the integers they write
  TrueWords, FalseWords,        \* texts that validation takes for a boolean
  RustPatterns, RustRegex,      \* patterns the regex crate compiles, and the
                                \* pairs of a text and a pattern that match
  PgPatterns, PgRegex,          \* the same for Postgres
  Day,            \* units of time in a day
  Limits,         \* user limits that RoleLogic may answer a bulk sync with
  MaxGroups, MaxConditions,     \* MAX_GROUPS, MAX_CONDITIONS_PER_GROUP
  MaxNow,         \* bound: units of time that pass
  MaxEdits,       \* bound: bodies the page comes up with
  MaxFacts        \* bound: members that link, unlink or change their facts

ASSUME RuleAssumption ==
  /\ Day \in Nat \ {0} /\ Limits \subseteq Nat
  /\ Numerals \in [DOMAIN Numerals -> Int]
  /\ TrueWords \cap FalseWords = {}
  /\ MaxGroups \in Nat /\ MaxConditions \in Nat
  /\ MaxNow \in Nat /\ MaxEdits \in Nat /\ MaxFacts \in Nat

-----------------------------------------------------------------------------
(* Values as JSON has them.  A number has the i64 that validation makes of *)
(* it, and its text.                                                       *)
NullValue     == [json |-> "null"]
BoolValue(b)  == [json |-> "bool", bool |-> b]
TextValue(s)  == [json |-> "text", text |-> s]
NumValue(n, s) == [json |-> "num", num |-> n, text |-> s]
ListValue(L)  == [json |-> "list", list |-> L]

(* as_bool, as_i64, as_str, and the strings of an array. *)
AsBool(v) == IF v.json = "bool" THEN {v.bool} ELSE {}
AsInt(v)  == IF v.json = "num" THEN {v.num} ELSE {}
AsText(v) == IF v.json = "text" THEN {v.text} ELSE {}
TextsIn(v) == IF v.json = "list" THEN UNION {AsText(x) : x \in v.list} ELSE {}

-----------------------------------------------------------------------------
(* Texts. *)
Blank == " "

Trim(s) ==
  LET ink == {i \in 1..Len(s) : s[i] # Blank}
  IN  IF ink = {} THEN << >>
      ELSE SubSeq(s, CHOOSE i \in ink : \A j \in ink : i <= j,
                     CHOOSE i \in ink : \A j \in ink : i >= j)

(* split(',').map(trim), less what is empty. *)
Pieces(s) ==
  LET ends == {0, Len(s) + 1} \cup {i \in 1..Len(s) : s[i] = ","}
      next(i) == CHOOSE j \in ends : j > i /\ \A k \in ends : k > i => j <= k
  IN  {Trim(SubSeq(s, i + 1, next(i) - 1)) : i \in ends \ {Len(s) + 1}}
        \ {<< >>}

Contains(a, s) ==
  \E i \in 0..(Len(a) - Len(s)) : SubSeq(a, i + 1, i + Len(s)) = s

(* escape_like: a backslash before each of these. *)
Escaped(s) ==
  LET upTo[n \in 0..Len(s)] ==
        IF n = 0 THEN << >>
        ELSE upTo[n - 1] \o (IF s[n] \in {"\\", "%", "_"}
                             THEN <<"\\", s[n]>> ELSE <<s[n]>>)
  IN  upTo[Len(s)]

(* LIKE, from character i of a and j of the pattern on. *)
Like(a, p) ==
  LET from[i \in 1..(Len(a) + 1), j \in 1..(Len(p) + 1)] ==
        IF j > Len(p) THEN i > Len(a)
        ELSE \/ p[j] = "%"  /\ (from[i, j + 1] \/ (i <= Len(a) /\ from[i + 1, j]))
             \/ p[j] = "_"  /\ i <= Len(a) /\ from[i + 1, j + 1]
             \/ p[j] = "\\" /\ j < Len(p) /\ i <= Len(a)
                            /\ a[i] = p[j + 1] /\ from[i + 1, j + 2]
             \/ p[j] \notin {"%", "_", "\\"}
                            /\ i <= Len(a) /\ a[i] = p[j] /\ from[i + 1, j + 1]
  IN  from[1, 1]

SqlContains(a, s) == Like(a, <<"%">> \o Escaped(s) \o <<"%">>)

(* The escaped text, as a pattern with % on both sides, finds the text.    *)
ASSUME LikeIsContains == \A a, s \in Texts : SqlContains(a, s) <=> Contains(a, s)

-----------------------------------------------------------------------------
(* Targets and operators. *)
BoolTargets  == {"is_follower", "is_subscriber", "is_gift_recipient", "is_vip",
                 "is_moderator", "is_og"}
CountTargets == {"sub_months_cumulative", "sub_streak_months",
                 "gifted_subs_given", "kicks_donated_to_channel",
                 "chat_messages_30d"}
AgeTargets   == {"follow_age_days", "account_age_days"}
TextTargets  == {"country_code", "username"}
Targets      == BoolTargets \cup CountTargets \cup AgeTargets \cup TextTargets

(* These are the keys of as_str and from_key, which the page's pickers     *)
(* send.  What is stored, and given to a page that opens a stored rule, is *)
(* what serde makes of the variant: snake_case has no underscore before a  *)
(* digit.                                                                  *)
StoredKey(t) == IF t = "chat_messages_30d" THEN "chat_messages30d" ELSE t

KindOf(t) == IF t \in BoolTargets THEN "bool"
             ELSE IF t \in TextTargets THEN "string" ELSE "int"

Comparisons == {"eq", "neq", "gt", "gte", "lt", "lte"}
Operators   == Comparisons \cup {"between", "contains", "regex", "in", "not_in"}

ValidFor(kind) ==
  CASE kind = "bool"   -> {"eq"}
    [] kind = "int"    -> Comparisons \cup {"between"}
    [] kind = "string" -> {"eq", "neq", "contains", "regex", "in", "not_in"}

Compare(op, a, n) ==
  \/ op = "eq"  /\ a = n
  \/ op = "neq" /\ a # n
  \/ op = "gt"  /\ a > n
  \/ op = "gte" /\ a >= n
  \/ op = "lt"  /\ a < n
  \/ op = "lte" /\ a <= n

-----------------------------------------------------------------------------
(* What is stored of a linked member: a row of kick_users, and one of      *)
(* channel_relations or none.                                              *)
Rows == [flags : [BoolTargets -> BOOLEAN], counts : [CountTargets -> Nat],
         followed : SUBSET Int]
IsViewer(v) ==
  /\ v.row \subseteq Rows /\ \A r1, r2 \in v.row : r1 = r2
  /\ \A r \in v.row : \A d1, d2 \in r.followed : d1 = d2
  /\ v.created \in Int
  /\ v.country \subseteq Texts /\ \A s1, s2 \in v.country : s1 = s2
  /\ v.name \in Texts

(* Timestamps that are set, for an age. *)
Stamp(v, t) == IF t = "account_age_days" THEN {v.created}
               ELSE UNION {r.followed : r \in v.row}

(* FACTS_SELECT, with COALESCE for a member without a row, and num_days,   *)
(* which drops the fraction.                                               *)
WholeDays(d) == IF d >= 0 THEN d \div Day ELSE -((-d) \div Day)

Fact(v, t, now) ==
  IF t \in BoolTargets THEN {\E r \in v.row : r.flags[t]}
  ELSE IF t \in CountTargets
       THEN IF v.row = {} THEN {0} ELSE {r.counts[t] : r \in v.row}
  ELSE IF t \in AgeTargets THEN {WholeDays(now - d) : d \in Stamp(v, t)}
  ELSE IF t = "username" THEN {v.name} ELSE v.country

(* target_expr: the same columns, and FLOOR. *)
Column(v, t, now) ==
  IF t \in BoolTargets THEN {\E r \in v.row : r.flags[t]}
  ELSE IF t \in CountTargets
       THEN IF v.row = {} THEN {0} ELSE {r.counts[t] : r \in v.row}
  ELSE IF t \in AgeTargets THEN {(now - d) \div Day : d \in Stamp(v, t)}
  ELSE IF t = "username" THEN {v.name} ELSE v.country

-----------------------------------------------------------------------------
(* The Rust evaluator. *)
BoolMatch(c, fact) ==
  c.operator = "eq" /\ \E a \in fact, b \in AsBool(c.value) : a = b

IntMatch(c, fact) ==
  \E a \in fact, n \in AsInt(c.value) :
    \/ Compare(c.operator, a, n)
    \/ /\ c.operator = "between"
       /\ \E e \in c.end : \E hi \in AsInt(e) : n <= a /\ a <= hi

TextMatch(c, fact) ==
  \/ fact = {} /\ c.operator = "neq"
  \/ \E a \in fact :
       \/ c.operator = "in" /\ a \in TextsIn(c.value)
       \/ c.operator = "not_in" /\ a \notin TextsIn(c.value)
       \/ \E s \in AsText(c.value) :
            \/ c.operator = "eq" /\ a = s
            \/ c.operator = "neq" /\ a # s
            \/ c.operator = "contains" /\ Contains(a, s)
            \/ c.operator = "regex" /\ s \in RustPatterns /\ <<a, s>> \in RustRegex

EvaluateSingle(c, v, now) ==
  LET fact == Fact(v, c.target, now)
      kind == KindOf(c.target)
  IN  \/ kind = "bool" /\ BoolMatch(c, fact)
      \/ kind = "int" /\ IntMatch(c, fact)
      \/ kind = "string" /\ TextMatch(c, fact)

Evaluate(tree, v, now) ==
  \/ tree.any
  \/ \E g \in tree.groups : g # {} /\ \A c \in g : EvaluateSingle(c, v, now)

-----------------------------------------------------------------------------
(* The SQL clause.  A comparison with NULL is unknown; a row is selected   *)
(* when the clause is true.                                                *)
Truth(x, test) == IF x = {} THEN "unknown" ELSE IF test THEN "true" ELSE "false"
Known(test) == IF test THEN "true" ELSE "false"
And(S) == IF "false" \in S THEN "false"
          ELSE IF "unknown" \in S THEN "unknown" ELSE "true"
Or(S)  == IF "true" \in S THEN "true"
          ELSE IF "unknown" \in S THEN "unknown" ELSE "false"

(* unwrap_or(0), unwrap_or("") *)
IntOr0(v)  == IF AsInt(v) = {} THEN {0} ELSE AsInt(v)
TextOr(v)  == IF AsText(v) = {} THEN {<< >>} ELSE AsText(v)

(* <> for an integer, IS DISTINCT FROM for a text. *)
SqlNeq(c, x) ==
  IF AsInt(c.value) # {}
  THEN Truth(x, \E a \in x, n \in AsInt(c.value) : a # n)
  ELSE Known(x # TextOr(c.value))

SqlEq(c, x) ==
  LET bound == IF AsBool(c.value) # {} THEN AsBool(c.value)
               ELSE IF AsInt(c.value) # {} THEN AsInt(c.value)
               ELSE TextOr(c.value)
  IN  Truth(x, \E a \in x, b \in bound : a = b)

SqlBetween(c, x) ==
  LET hi == UNION {AsInt(e) : e \in c.end}
  IN  Truth(x, \E a \in x, lo \in IntOr0(c.value) :
                 \E h \in (IF hi = {} THEN {lo} ELSE hi) : lo <= a /\ a <= h)

(* Mutant: a text that is missing is not in the list. *)
SqlNotInDistinct(c, x) == Known(\A a \in x : a \notin TextsIn(c.value))

SqlNotIn(c, x) ==
  IF TextsIn(c.value) = {} THEN "true"
  ELSE Known(x # {} /\ \A a \in x : a \notin TextsIn(c.value))

SqlIn(c, x) ==
  IF TextsIn(c.value) = {} THEN "false"
  ELSE Truth(x, \E a \in x : a \in TextsIn(c.value))

BuildCondition(c, v, now) ==
  LET x == Column(v, c.target, now)
  IN  CASE c.operator = "eq"  -> SqlEq(c, x)
        [] c.operator = "neq" -> SqlNeq(c, x)
        [] c.operator \in Comparisons \ {"eq", "neq"} ->
             Truth(x, \E a \in x, n \in IntOr0(c.value) : Compare(c.operator, a, n))
        [] c.operator = "between" -> SqlBetween(c, x)
        [] c.operator = "contains" ->
             Truth(x, \E a \in x, s \in TextOr(c.value) : SqlContains(a, s))
        [] c.operator = "regex" ->
             Truth(x, \E a \in x, s \in TextOr(c.value) : <<a, s>> \in PgRegex)
        [] c.operator = "in" -> SqlIn(c, x)
        [] c.operator = "not_in" -> SqlNotIn(c, x)

BuildGroup(g, v, now) ==
  IF g = {} THEN "false" ELSE And({BuildCondition(c, v, now) : c \in g})

BuildRuleWhere(tree, v, now) ==
  IF tree.any THEN "true"
  ELSE Or({BuildGroup(g, v, now) : g \in tree.groups})

Selects(tree, v, now) == BuildRuleWhere(tree, v, now) = "true"

-----------------------------------------------------------------------------
(* Validation. *)

(* normalize_value, by the kind of the target. *)
NormalBool(v) ==
  IF v.json = "text"
  THEN {BoolValue(b) : b \in {x \in BOOLEAN :
          Trim(v.text) \in (IF x THEN TrueWords ELSE FalseWords)}}
  ELSE {BoolValue(b) : b \in AsBool(v)}

(* The numeral an integer is written as, once it is stored. *)
Number(n) == NumValue(n, CHOOSE s \in DOMAIN Numerals : Numerals[s] = n)

(* Mutant: integers are read from texts only. *)
NormalIntText(v) ==
  IF v.json = "text"
  THEN {Number(Numerals[s]) : s \in {Trim(v.text)} \cap DOMAIN Numerals}
  ELSE {}

NormalInt(v) ==
  IF v.json = "text"
  THEN {Number(Numerals[s]) : s \in {Trim(v.text)} \cap DOMAIN Numerals}
  ELSE {Number(n) : n \in AsInt(v)}

NormalList(v) ==
  LET items == CASE v.json = "list" -> v.list \ {NullValue, TextValue(<< >>)}
                 [] v.json = "text" -> {TextValue(s) : s \in Pieces(v.text)}
                 [] v.json = "null" -> {}
                 [] OTHER -> {v}
  IN  IF items = {} THEN {} ELSE {ListValue(items)}

BoolText(b) == <<IF b THEN "true" ELSE "false">>
NormalText(v) ==
  CASE v.json = "text" -> IF Trim(v.text) = << >> THEN {} ELSE {v}
    [] v.json = "num"  -> {TextValue(v.text)}
    [] v.json = "bool" -> {TextValue(BoolText(v.bool))}
    [] OTHER -> {}

NormalizeValue(kind, op, v) ==
  CASE kind = "bool" -> NormalBool(v)
    [] kind = "int"  -> NormalInt(v)
    [] kind = "string" -> IF op \in {"in", "not_in"} THEN NormalList(v)
                          ELSE NormalText(v)

(* validate_condition *)
ValidateCondition(raw) ==
  IF \/ raw.target \notin Targets
     \/ raw.operator \notin ValidFor(KindOf(raw.target))
  THEN {}
  ELSE LET norm(v) == NormalizeValue(KindOf(raw.target), raw.operator, v)
           ends == IF raw.operator = "between"
                   THEN {{e} : e \in UNION {norm(v) : v \in raw.end}}
                   ELSE {{}}
       IN  {c \in {[target |-> raw.target, operator |-> raw.operator,
                    value |-> w, end |-> e] : w \in norm(raw.value), e \in ends} :
              raw.operator = "regex" => AsText(c.value) \subseteq RustPatterns}

(* parse_rule_tree.  Anyone-who-linked drops the groups. *)
ParseRuleTree(body) ==
  IF body.any THEN {[any |-> TRUE, groups |-> {}]}
  ELSE IF \/ Cardinality(body.groups) \notin 1..MaxGroups
          \/ \E g \in body.groups : \/ Cardinality(g) \notin 1..MaxConditions
                                    \/ \E raw \in g : ValidateCondition(raw) = {}
  THEN {}
  ELSE {[any |-> FALSE,
         groups |-> {UNION {ValidateCondition(raw) : raw \in g} : g \in body.groups}]}

(* What the page may send: a value of any shape in any field.  The text of *)
(* a number has a digit in it.                                             *)
IsJson(v) ==
  \/ v = NullValue
  \/ \E b \in BOOLEAN : v = BoolValue(b)
  \/ \E s \in Texts : v = TextValue(s)
  \/ /\ v.json = "num" /\ v = NumValue(v.num, v.text)
     /\ v.num \in Int /\ v.text \in Texts /\ Trim(v.text) # << >>
  \/ v.json = "list"

IsBody(body) ==
  /\ body.any \in BOOLEAN /\ body.bound \in BOOLEAN
  /\ IsFiniteSet(body.groups) /\ \A g \in body.groups : IsFiniteSet(g)
  /\ \A g \in body.groups : \A raw \in g :
       /\ IsJson(raw.value) /\ \A e \in raw.end : IsJson(e)
       /\ \A d, e \in raw.end : d = e

ASSUME InputAssumption ==
  /\ \A v \in Viewers : IsViewer(v)
  /\ \A body \in Bodies : IsBody(body)
  /\ \A b \in BOOLEAN : BoolText(b) \in Texts

-----------------------------------------------------------------------------
VARIABLES
  rule,       \* role_links: whether a channel is bound, and the rule tree
  draft,      \* the rule on the page, or {} if none, or none to be accepted
  viewer,     \* what is stored of each member; {} if not linked
  now,
  seen,       \* history: what each path has said of a member since the rule,
              \* their facts or the time last changed
  last,       \* history: whom the last bulk sync since then listed, at which
              \* user limit
  counted,    \* history: the last preview since then: of which rule, its count
  edits, news

vars == <<rule, draft, viewer, now, seen, last, counted, edits, news>>

Paths == {"player", "bulk"}
Unseen == [m \in Members |-> [p \in Paths |-> {}]]
NoList == [list |-> {}, limit |-> 0]

Unconfigured == [bound |-> FALSE, tree |-> [any |-> FALSE, groups |-> {}]]

(* Convention 42, as sync.rs and the preview test it. *)
GrantsNobody(r) == ~r.tree.any /\ (~r.bound \/ r.tree.groups = {})

(* Postgres compiles a pattern when it matches a text with it; one that it *)
(* does not know fails the statement.                                      *)
SqlFails(tree) ==
  \E g \in tree.groups : \E c \in g :
    /\ c.operator = "regex" /\ ~(AsText(c.value) \subseteq PgPatterns)
    /\ \E m \in Members : \E v \in viewer[m] : Column(v, c.target, now) # {}

(* sync_for_player *)
Qualifies(r, stored) ==
  IF r.tree.any THEN stored # {}
  ELSE r.bound /\ \E v \in stored : Evaluate(r.tree, v, now)

(* sync_for_role_link, but for its limit *)
Qualifying(r) ==
  IF GrantsNobody(r) THEN {}
  ELSE {m \in Members : \E v \in viewer[m] : Selects(r.tree, v, now)}

(* ORDER BY discord_id LIMIT user_limit: which members come first is left  *)
(* open.                                                                   *)
Listings(r, limit) ==
  LET Q == Qualifying(r) IN
  IF Cardinality(Q) <= limit THEN {Q}
  ELSE {L \in SUBSET Q : Cardinality(L) = limit}

(* Mutant: a rule without a channel counts nobody, whatever it is. *)
MatchingNoChannel(r) ==
  IF ~r.bound \/ r.tree.groups = {} THEN 0
  ELSE Cardinality({m \in Members : \E v \in viewer[m] : Selects(r.tree, v, now)})

(* preview_count_for, when it has an answer *)
Matching(r) ==
  IF GrantsNobody(r) THEN 0
  ELSE IF r.tree.any THEN Cardinality({m \in Members : viewer[m] # {}})
  ELSE Cardinality({m \in Members : \E v \in viewer[m] : Selects(r.tree, v, now)})

-----------------------------------------------------------------------------
Parsed(body) == {[bound |-> body.bound, tree |-> t] : t \in ParseRuleTree(body)}

(* What the page would send: the parsed body, or nothing if it is refused. *)
Edit(body) ==
  /\ edits < MaxEdits /\ edits' = edits + 1
  /\ draft' = Parsed(body)
  /\ UNCHANGED <<rule, viewer, now, seen, last, counted, news>>

(* A rule about a channel is not saved without one; a refused save changes *)
(* nothing.                                                                *)
Save ==
  /\ \E r \in draft :
       /\ r.bound \/ r.tree.any \/ r.tree.groups = {}
       /\ rule' = r
       /\ counted' = {c \in counted : c.rule = r}
  /\ draft' = {}
  /\ seen' = Unseen /\ last' = NoList
  /\ UNCHANGED <<viewer, now, edits, news>>

(* broadcaster_disconnect: a saved rule can lose its channel all the same. *)
Unbind ==
  /\ rule.bound /\ rule' = [bound |-> FALSE, tree |-> rule.tree]
  /\ counted' = {c \in counted : c.rule = rule'}
  /\ seen' = Unseen /\ last' = NoList
  /\ UNCHANGED <<draft, viewer, now, edits, news>>

(* The number the page shows, for the stored rule or for a draft.  An      *)
(* error of Postgres or of the gateway shows none.                         *)
Preview(r) ==
  /\ ~(~r.tree.any /\ r.tree.groups # {} /\ ~r.bound)
  /\ ~SqlFails(r.tree)
  /\ counted' = {[rule |-> r, count |-> Matching(r)]}
  /\ UNCHANGED <<rule, draft, viewer, now, seen, last, edits, news>>

PreviewEdit == \E r \in draft : Preview(r)

PlayerSync(m) ==
  /\ seen' = [seen EXCEPT ![m]["player"] = {Qualifies(rule, viewer[m])}]
  /\ UNCHANGED <<rule, draft, viewer, now, last, counted, edits, news>>

(* A statement Postgres refuses ends the job and changes nothing.          *)
BulkSync ==
  /\ GrantsNobody(rule) \/ ~SqlFails(rule.tree)
  /\ \E limit \in Limits : \E L \in Listings(rule, limit) :
       /\ last' = [list |-> L, limit |-> limit]
       /\ seen' = [m \in Members |-> [seen[m] EXCEPT !["bulk"] = {m \in L}]]
  /\ UNCHANGED <<rule, draft, viewer, now, counted, edits, news>>

(* A member links or unlinks, or an event changes what is stored.          *)
News(m) ==
  /\ news < MaxFacts /\ news' = news + 1
  /\ viewer' \in {[viewer EXCEPT ![m] = S] : S \in {{}} \cup {{v} : v \in Viewers}}
  /\ seen' = [seen EXCEPT ![m] = [p \in Paths |-> {}]]
  /\ counted' = {}
  /\ UNCHANGED <<rule, draft, now, last, edits>>

Tick ==
  /\ now < MaxNow /\ now' = now + 1
  /\ seen' = Unseen /\ last' = NoList /\ counted' = {}
  /\ UNCHANGED <<rule, draft, viewer, edits, news>>

Init ==
  /\ rule = Unconfigured /\ draft = {}
  /\ viewer \in [Members -> {{}} \cup {{v} : v \in Viewers}]
  /\ now = 0
  /\ seen = Unseen /\ last = NoList /\ counted = {}
  /\ edits = 0 /\ news = 0

Next ==
  \/ \E body \in Bodies : Edit(body)
  \/ Save \/ Unbind \/ PreviewEdit \/ Preview(rule) \/ BulkSync \/ Tick
  \/ \E m \in Members : PlayerSync(m) \/ News(m)

Spec == Init /\ [][Next]_vars

-----------------------------------------------------------------------------
(* What keeps the two paths apart.  A timestamp ahead of the clock has an  *)
(* age that one rounds to zero and the other down; the two regex engines   *)
(* know different patterns; and a not_in list without one text in it takes *)
(* a member without a country in SQL, and not in Rust.                     *)
Past(v, at) == \A t \in AgeTargets : \A d \in Stamp(v, t) : d <= at

Portable(c) ==
  /\ c.operator = "regex" =>
       \A s \in AsText(c.value) :
         /\ s \in RustPatterns
         /\ \A a \in Texts : <<a, s>> \in RustRegex <=> <<a, s>> \in PgRegex
  /\ c.operator = "not_in" => TextsIn(c.value) # {}

PortableTree(tree) == \A g \in tree.groups : \A c \in g : Portable(c)

(* One member, one rule, the same facts at the same time: the player sync  *)
(* and the bulk sync decide alike, so a role is not given by one and taken *)
(* by the other (rule_sql.rs: NULL-handling is chosen to match the Rust    *)
(* evaluator's fail-closed behavior).  Only a list that is at the user     *)
(* limit, which the evaluator knows nothing of, leaves somebody out.       *)
PathsAgree ==
  PortableTree(rule.tree) =>
    \A m \in Members :
      (\A v \in viewer[m] : Past(v, now)) =>
        \A said \in seen[m]["player"], listed \in seen[m]["bulk"] :
          \/ said = listed
          \/ said /\ ~listed /\ Cardinality(last.list) = last.limit

(* The number the editor shows before a save is the number of members the  *)
(* bulk sync gives the role to after it, if nothing else changes and they  *)
(* are within the user limit; of more, it gives it to as many as that.     *)
PreviewTold ==
  \A c \in counted :
    c.rule = rule /\ (\A m \in Members : seen[m]["bulk"] # {}) =>
      Cardinality({m \in Members : seen[m]["bulk"] = {TRUE}})
        = (IF c.count <= last.limit THEN c.count ELSE last.limit)

(* What the page has of a stored rule when it opens it. *)
Loaded(r) ==
  [any |-> r.tree.any, bound |-> r.bound,
   groups |-> {{[c EXCEPT !.target = StoredKey(@)] : c \in g} : g \in r.tree.groups}]

CountsChat(tree) == \E g \in tree.groups : \E c \in g : c.target = "chat_messages_30d"

(* A stored rule that is opened and saved again is accepted and stays the  *)
(* rule it was, even a retired target's (admin.rs: a rule saved with it    *)
(* still loads as itself and saves again); but a rule that counts chat     *)
(* messages is refused, since its stored key is not the one from_key knows *)
(* (condition.rs: snake_case has chat_messages30d), which that comment     *)
(* would not have.                                                         *)
SavesAsItself ==
  ~GrantsNobody(rule) =>
    Parsed(Loaded(rule)) = (IF CountsChat(rule.tree) THEN {} ELSE {rule})
=============================================================================
