-------------------------- MODULE RuleEngineProofs --------------------------
(***************************************************************************)
(* Proofs about RuleEngine: the Rust evaluator and the SQL clause agree,   *)
(* condition by condition and for a whole rule, on every rule that         *)
(* validation can produce; hence so do the two syncs, in every behavior.   *)
(* The preview counts whom the clause selects, and a rule that is stored   *)
(* passes the validator again and stays as it is.                          *)
(***************************************************************************)
EXTENDS RuleEngine, FiniteSetTheorems, TLAPS

(* A condition as validation stores it.                                    *)
WellFormed(c) ==
  /\ c.target \in Targets
  /\ c.operator \in ValidFor(KindOf(c.target))
  /\ KindOf(c.target) = "bool" => \E b \in BOOLEAN : c.value = BoolValue(b)
  /\ KindOf(c.target) = "int" =>
       /\ \E n \in Int : AsInt(c.value) = {n} /\ AsBool(c.value) = {}
       /\ c.operator = "between" =>
            \E n \in Int, e \in c.end : c.end = {e} /\ AsInt(e) = {n}
  /\ KindOf(c.target) = "string" =>
       IF c.operator \in {"in", "not_in"} THEN c.value.json = "list"
       ELSE \E s \in Texts : c.value = TextValue(s)

WellFormedTree(tree) == \A g \in tree.groups : \A c \in g : WellFormed(c)

-----------------------------------------------------------------------------
(* The facts. *)

(* Dropping the fraction and rounding down are one for an age that is not  *)
(* negative.                                                               *)
LEMMA WholeDaysFloors ==
  ASSUME NEW d \in Int, d >= 0
  PROVE  WholeDays(d) = d \div Day
  BY DEF WholeDays

LEMMA FactIsColumn ==
  ASSUME NEW v, IsViewer(v), NEW at \in Int, Past(v, at), NEW t \in Targets
  PROVE  Fact(v, t, at) = Column(v, t, at)
  <1>1. CASE t \in AgeTargets
    <2>1. \A d \in Stamp(v, t) : d \in Int /\ d <= at
      BY <1>1 DEF Past, Stamp, IsViewer, Rows
    <2>2. \A d \in Stamp(v, t) : WholeDays(at - d) = (at - d) \div Day
      BY <2>1, WholeDaysFloors
    <2> QED BY <1>1, <2>2 DEF Fact, Column, AgeTargets, BoolTargets, CountTargets
  <1>2. CASE t \notin AgeTargets
    BY <1>2 DEF Fact, Column
  <1> QED BY <1>1, <1>2

(* What a fact of each kind is.                                            *)
LEMMA ColumnType ==
  ASSUME NEW v, IsViewer(v), NEW at \in Int, NEW t \in Targets
  PROVE  /\ \A a, b \in Column(v, t, at) : a = b
         /\ KindOf(t) = "bool" => Column(v, t, at) # {} /\ Column(v, t, at) \subseteq BOOLEAN
         /\ KindOf(t) = "int" => Column(v, t, at) \subseteq Int
         /\ KindOf(t) = "string" => Column(v, t, at) \subseteq Texts
  <1>1. CASE t \in BoolTargets
    BY <1>1 DEF Column, KindOf
  <1>2. CASE t \in CountTargets
    <2>1. t \notin BoolTargets /\ t \notin TextTargets /\ KindOf(t) = "int"
      BY <1>2 DEF KindOf, CountTargets, BoolTargets, TextTargets
    <2>2. CASE v.row = {}
      BY <1>2, <2>1, <2>2 DEF Column
    <2>3. CASE v.row # {}
      <3>1. \A r \in v.row : r.counts[t] \in Int
        BY <1>2 DEF IsViewer, Rows
      <3>2. \A r, q \in v.row : r = q
        BY DEF IsViewer
      <3>3. Column(v, t, at) = {r.counts[t] : r \in v.row}
        BY <1>2, <2>1, <2>3 DEF Column
      <3> QED BY <2>1, <3>1, <3>2, <3>3
    <2> QED BY <2>2, <2>3
  <1>3. CASE t \in AgeTargets
    <2>1. /\ \A d \in Stamp(v, t) : d \in Int
          /\ \A d, e \in Stamp(v, t) : d = e
      BY <1>3 DEF Stamp, IsViewer, Rows
    <2>2. Column(v, t, at) = {(at - d) \div Day : d \in Stamp(v, t)}
      BY <1>3 DEF Column, AgeTargets, BoolTargets, CountTargets
    <2>3. \A d \in Int : (at - d) \div Day \in Int
      BY RuleAssumption
    <2> QED BY <1>3, <2>1, <2>2, <2>3 DEF KindOf, AgeTargets, BoolTargets, TextTargets
  <1>4. CASE t \in TextTargets
    BY <1>4 DEF Column, KindOf, AgeTargets, BoolTargets, CountTargets, TextTargets, IsViewer
  <1> QED BY <1>1, <1>2, <1>3, <1>4 DEF Targets

(* The parts of a well-formed condition. *)
LEMMA OperatorOfKind ==
  ASSUME NEW c, WellFormed(c)
  PROVE  /\ KindOf(c.target) \in {"bool", "int", "string"}
         /\ KindOf(c.target) = "bool" => c.operator = "eq"
         /\ KindOf(c.target) = "int" => c.operator \in Comparisons \cup {"between"}
         /\ KindOf(c.target) = "string" =>
              c.operator \in {"eq", "neq", "contains", "regex", "in", "not_in"}
  BY DEF WellFormed, KindOf, ValidFor

-----------------------------------------------------------------------------
(* One condition. *)
Agrees(c, v, at) == EvaluateSingle(c, v, at) <=> BuildCondition(c, v, at) = "true"

LEMMA BoolAgrees ==
  ASSUME NEW c, WellFormed(c), KindOf(c.target) = "bool",
         NEW v, IsViewer(v), NEW at \in Int, Past(v, at)
  PROVE  Agrees(c, v, at)
  <1> DEFINE x == Column(v, c.target, at)
  <1>1. c.operator = "eq" /\ c.target \in Targets
    BY OperatorOfKind DEF WellFormed
  <1>2. PICK b \in BOOLEAN : c.value = BoolValue(b)
    BY DEF WellFormed
  <1>3. AsBool(c.value) = {b}
    BY <1>2 DEF AsBool, BoolValue
  <1>4. Fact(v, c.target, at) = x /\ x # {}
    BY <1>1, FactIsColumn, ColumnType
  <1> HIDE DEF x
  <1>5. EvaluateSingle(c, v, at) <=> \E a \in x : a = b
    BY <1>1, <1>3, <1>4 DEF EvaluateSingle, BoolMatch
  <1>6. BuildCondition(c, v, at) = SqlEq(c, x)
    BY <1>1 DEF BuildCondition, x
  <1>7. SqlEq(c, x) = Truth(x, \E a \in x : a = b)
    BY <1>3 DEF SqlEq
  <1> QED BY <1>4, <1>5, <1>6, <1>7 DEF Truth, Agrees

LEMMA IntAgrees ==
  ASSUME NEW c, WellFormed(c), KindOf(c.target) = "int",
         NEW v, IsViewer(v), NEW at \in Int, Past(v, at)
  PROVE  Agrees(c, v, at)
  <1> DEFINE x == Column(v, c.target, at)
  <1>1. c.operator \in Comparisons \cup {"between"} /\ c.target \in Targets
    BY OperatorOfKind DEF WellFormed
  <1>3. PICK n \in Int : AsInt(c.value) = {n} /\ AsBool(c.value) = {}
    BY DEF WellFormed
  <1>4. Fact(v, c.target, at) = x
    BY <1>1, FactIsColumn
  <1> HIDE DEF x
  <1>5. EvaluateSingle(c, v, at) <=> IntMatch(c, x)
    BY <1>4 DEF EvaluateSingle
  <1>6. CASE c.operator = "between"
    <2>1. PICK h \in Int, end \in c.end : c.end = {end} /\ AsInt(end) = {h}
      BY <1>6 DEF WellFormed
    <2>2. \A e \in c.end : AsInt(e) = {h}
      BY <2>1
    <2>3. UNION {AsInt(e) : e \in c.end} = {h}
      BY <2>1, <2>2
    <2>4. IntMatch(c, x) <=> \E a \in x : n <= a /\ a <= h
      BY <1>3, <1>6, <2>1, <2>2 DEF IntMatch, Compare
    <2>5. SqlBetween(c, x) = Truth(x, \E a \in x : n <= a /\ a <= h)
      BY <1>3, <2>3 DEF SqlBetween, IntOr0
    <2>6. BuildCondition(c, v, at) = SqlBetween(c, x)
      BY <1>6 DEF BuildCondition, Comparisons, x
    <2> QED BY <1>5, <2>4, <2>5, <2>6 DEF Truth, Agrees
  <1>7. CASE c.operator \in Comparisons
    <2>1. IntMatch(c, x) <=> \E a \in x : Compare(c.operator, a, n)
      BY <1>3, <1>7 DEF IntMatch, Comparisons
    <2>2. BuildCondition(c, v, at) = Truth(x, \E a \in x : Compare(c.operator, a, n))
      <3>1. CASE c.operator = "eq"
        <4>1. BuildCondition(c, v, at) = SqlEq(c, x)
          BY <3>1 DEF BuildCondition, x
        <4>2. SqlEq(c, x) = Truth(x, \E a \in x : a = n)
          BY <1>3 DEF SqlEq
        <4> QED BY <3>1, <4>1, <4>2 DEF Compare
      <3>2. CASE c.operator = "neq"
        <4>1. BuildCondition(c, v, at) = SqlNeq(c, x)
          BY <3>2 DEF BuildCondition, x
        <4>2. SqlNeq(c, x) = Truth(x, \E a \in x : a # n)
          BY <1>3 DEF SqlNeq
        <4> QED BY <3>2, <4>1, <4>2 DEF Compare
      <3>3. CASE c.operator \in Comparisons \ {"eq", "neq"}
        <4>1. IntOr0(c.value) = {n}
          BY <1>3 DEF IntOr0
        <4> QED BY <3>3, <4>1 DEF BuildCondition, Comparisons, x
      <3> QED BY <1>7, <3>1, <3>2, <3>3
    <2> QED BY <1>5, <2>1, <2>2 DEF Truth, Agrees
  <1> QED BY <1>1, <1>6, <1>7

LEMMA TextAgrees ==
  ASSUME NEW c, WellFormed(c), KindOf(c.target) = "string", Portable(c),
         NEW v, IsViewer(v), NEW at \in Int, Past(v, at)
  PROVE  Agrees(c, v, at)
  <1> DEFINE x == Column(v, c.target, at)
  <1>1. /\ c.operator \in {"eq", "neq", "contains", "regex", "in", "not_in"}
        /\ c.target \in Targets
    BY OperatorOfKind DEF WellFormed
  <1>2. Fact(v, c.target, at) = x /\ x \subseteq Texts /\ \A a, b \in x : a = b
    BY <1>1, FactIsColumn, ColumnType
  <1> HIDE DEF x
  <1>3. EvaluateSingle(c, v, at) <=> TextMatch(c, x)
    BY <1>2 DEF EvaluateSingle
  <1>4. CASE c.operator = "in"
    <2>1. TextMatch(c, x) <=> \E a \in x : a \in TextsIn(c.value)
      BY <1>4 DEF TextMatch
    <2>2. BuildCondition(c, v, at) = SqlIn(c, x)
      BY <1>4 DEF BuildCondition, Comparisons, x
    <2> QED BY <1>3, <2>1, <2>2 DEF SqlIn, Truth, Agrees
  <1>5. CASE c.operator = "not_in"
    <2>1. TextMatch(c, x) <=> \E a \in x : a \notin TextsIn(c.value)
      <3>1. c.value.json # "text"
        BY <1>5 DEF WellFormed
      <3> QED BY <1>5, <3>1 DEF TextMatch, AsText
    <2>2. BuildCondition(c, v, at) = SqlNotIn(c, x)
      BY <1>5 DEF BuildCondition, Comparisons, x
    <2>3. TextsIn(c.value) # {}
      BY <1>5 DEF Portable
    <2> QED BY <1>2, <1>3, <2>1, <2>2, <2>3 DEF SqlNotIn, Known, Agrees
  <1>6. CASE c.operator \notin {"in", "not_in"}
    <2>1. PICK s \in Texts : c.value = TextValue(s)
      BY <1>6 DEF WellFormed
    <2>2. /\ AsText(c.value) = {s} /\ AsBool(c.value) = {} /\ AsInt(c.value) = {}
          /\ TextOr(c.value) = {s}
      BY <2>1 DEF AsText, AsBool, AsInt, TextOr, TextValue
    <2>3. CASE c.operator = "eq"
      <3>1. TextMatch(c, x) <=> \E a \in x : a = s
        BY <2>2, <2>3 DEF TextMatch
      <3>2. BuildCondition(c, v, at) = SqlEq(c, x)
        BY <2>3 DEF BuildCondition, x
      <3>3. SqlEq(c, x) = Truth(x, \E a \in x : a = s)
        BY <2>2 DEF SqlEq
      <3> QED BY <1>3, <3>1, <3>2, <3>3 DEF Truth, Agrees
    <2>4. CASE c.operator = "neq"
      <3>1. TextMatch(c, x) <=> x = {} \/ \E a \in x : a # s
        BY <2>2, <2>4 DEF TextMatch
      <3>2. BuildCondition(c, v, at) = SqlNeq(c, x)
        BY <2>4 DEF BuildCondition, x
      <3>3. SqlNeq(c, x) = Known(x # {s})
        BY <2>2 DEF SqlNeq
      <3>4. x # {s} <=> x = {} \/ \E a \in x : a # s
        BY <1>2
      <3> QED BY <1>3, <3>1, <3>2, <3>3, <3>4 DEF Known, Agrees
    <2>5. CASE c.operator = "contains"
      <3>1. TextMatch(c, x) <=> \E a \in x : Contains(a, s)
        BY <2>2, <2>5 DEF TextMatch
      <3>2. BuildCondition(c, v, at) = Truth(x, \E a \in x : SqlContains(a, s))
        BY <2>2, <2>5 DEF BuildCondition, Comparisons, x
      <3>3. \A a \in x : SqlContains(a, s) <=> Contains(a, s)
        BY <1>2, LikeIsContains
      <3> QED BY <1>3, <3>1, <3>2, <3>3 DEF Truth, Agrees
    <2>6. CASE c.operator = "regex"
      <3>1. TextMatch(c, x) <=> \E a \in x : s \in RustPatterns /\ <<a, s>> \in RustRegex
        BY <2>2, <2>6 DEF TextMatch
      <3>2. BuildCondition(c, v, at) = Truth(x, \E a \in x : <<a, s>> \in PgRegex)
        BY <2>2, <2>6 DEF BuildCondition, Comparisons, x
      <3>3. s \in RustPatterns /\ \A a \in x : <<a, s>> \in RustRegex <=> <<a, s>> \in PgRegex
        BY <1>2, <2>2, <2>6 DEF Portable
      <3> QED BY <1>3, <3>1, <3>2, <3>3 DEF Truth, Agrees
    <2> QED BY <1>1, <1>6, <2>3, <2>4, <2>5, <2>6
  <1> QED BY <1>4, <1>5, <1>6

LEMMA ConditionAgrees ==
  ASSUME NEW c, WellFormed(c), Portable(c),
         NEW v, IsViewer(v), NEW at \in Int, Past(v, at)
  PROVE  Agrees(c, v, at)
  BY OperatorOfKind, BoolAgrees, IntAgrees, TextAgrees

-----------------------------------------------------------------------------
(* A whole rule. *)
LEMMA TruthValued ==
  ASSUME NEW c, WellFormed(c), NEW v, NEW at
  PROVE  BuildCondition(c, v, at) \in {"true", "false", "unknown"}
  <1>1. c.operator \in Operators
    BY OperatorOfKind DEF Operators, Comparisons
  <1> QED BY <1>1 DEF BuildCondition, Operators, Comparisons, SqlEq, SqlNeq,
             SqlBetween, SqlIn, SqlNotIn, Truth, Known

(* The player's and the bulk path's answer about one linked member: Kleene *)
(* logic selects a row exactly when two-valued logic on the facts does.    *)
THEOREM RulesAgree ==
  ASSUME NEW tree, WellFormedTree(tree), PortableTree(tree),
         NEW v, IsViewer(v), NEW at \in Int, Past(v, at)
  PROVE  Evaluate(tree, v, at) <=> Selects(tree, v, at)
  <1>1. ASSUME NEW g \in tree.groups
        PROVE  BuildGroup(g, v, at) = "true" <=>
                 g # {} /\ \A c \in g : EvaluateSingle(c, v, at)
    <2>1. \A c \in g : /\ BuildCondition(c, v, at) \in {"true", "false", "unknown"}
                       /\ EvaluateSingle(c, v, at) <=> BuildCondition(c, v, at) = "true"
      BY <1>1, TruthValued, ConditionAgrees DEF WellFormedTree, PortableTree, Agrees
    <2>2. CASE g = {}
      BY <2>2 DEF BuildGroup
    <2>3. CASE g # {}
      <3> DEFINE S == {BuildCondition(c, v, at) : c \in g}
      <3>1. BuildGroup(g, v, at) = And(S)
        BY <2>3 DEF BuildGroup
      <3>2. And(S) = "true" <=> "false" \notin S /\ "unknown" \notin S
        BY DEF And
      <3>3. "false" \notin S /\ "unknown" \notin S <=>
              \A c \in g : BuildCondition(c, v, at) = "true"
        BY <2>1
      <3> QED BY <2>1, <2>3, <3>1, <3>2, <3>3
    <2> QED BY <2>2, <2>3
  <1>2. CASE tree.any
    BY <1>2 DEF Evaluate, Selects, BuildRuleWhere
  <1>3. CASE ~tree.any
    <2> DEFINE S == {BuildGroup(g, v, at) : g \in tree.groups}
    <2>1. Selects(tree, v, at) <=> Or(S) = "true"
      BY <1>3 DEF Selects, BuildRuleWhere
    <2>2. Or(S) = "true" <=> "true" \in S
      BY DEF Or
    <2>3. "true" \in S <=> \E g \in tree.groups : BuildGroup(g, v, at) = "true"
      OBVIOUS
    <2> QED BY <1>1, <1>3, <2>1, <2>2, <2>3 DEF Evaluate
  <1> QED BY <1>2, <1>3

-----------------------------------------------------------------------------
(* Validation. *)
LEMMA NormalizedValue ==
  ASSUME NEW v, IsJson(v), NEW op
  PROVE  /\ \A w \in NormalizeValue("bool", op, v) : \E b \in BOOLEAN : w = BoolValue(b)
         /\ \A w \in NormalizeValue("string", op, v) :
              IF op \in {"in", "not_in"} THEN w.json = "list"
              ELSE \E s \in Texts : w = TextValue(s)
  <1>1. \A w \in NormalBool(v) : \E b \in BOOLEAN : w = BoolValue(b)
    BY DEF NormalBool, IsJson, AsBool, NullValue, BoolValue, TextValue, NumValue
  <1>2. \A w \in NormalList(v) : w.json = "list"
    BY DEF NormalList, ListValue
  <1>3. \A w \in NormalText(v) : \E s \in Texts : w = TextValue(s)
    BY InputAssumption DEF NormalText, IsJson, NullValue, BoolValue, TextValue, NumValue
  <1> QED BY <1>1, <1>2, <1>3 DEF NormalizeValue

(* An integer, from a number or from a numeral.                            *)
LEMMA NormalizedInt ==
  ASSUME NEW v, IsJson(v), NEW op, NEW w \in NormalizeValue("int", op, v)
  PROVE  \E n \in Int : AsInt(w) = {n} /\ AsBool(w) = {}
  <1>1. \A n \in Int : AsInt(Number(n)) = {n} /\ AsBool(Number(n)) = {}
    BY DEF Number, NumValue, AsInt, AsBool
  <1>2. w \in NormalInt(v)
    BY DEF NormalizeValue
  <1>3. CASE v.json = "text"
    <2>1. PICK s \in DOMAIN Numerals : w = Number(Numerals[s])
      BY <1>2, <1>3 DEF NormalInt
    <2>2. Numerals[s] \in Int
      BY RuleAssumption
    <2> QED BY <1>1, <2>1, <2>2
  <1>4. CASE v.json # "text"
    <2>1. PICK n \in AsInt(v) : w = Number(n)
      BY <1>2, <1>4 DEF NormalInt
    <2>2. n \in Int
      BY DEF AsInt, IsJson, NullValue, BoolValue, TextValue, NumValue
    <2> QED BY <1>1, <2>1, <2>2
  <1> QED BY <1>3, <1>4

LEMMA ValidatedIsWellFormed ==
  ASSUME NEW raw, IsJson(raw.value), \A e \in raw.end : IsJson(e),
         NEW c \in ValidateCondition(raw)
  PROVE  WellFormed(c)
  <1> DEFINE kind == KindOf(raw.target)
             norm(v) == NormalizeValue(kind, raw.operator, v)
             ends == IF raw.operator = "between"
                     THEN {{e} : e \in UNION {norm(v) : v \in raw.end}}
                     ELSE {{}}
  <1>1. raw.target \in Targets /\ raw.operator \in ValidFor(kind)
    BY DEF ValidateCondition
  <1>2. PICK w \in norm(raw.value), end \in ends :
          c = [target |-> raw.target, operator |-> raw.operator,
               value |-> w, end |-> end]
    BY <1>1 DEF ValidateCondition
  <1>3. /\ c.target = raw.target /\ c.operator = raw.operator
        /\ c.value = w /\ c.end = end
    BY <1>2
  <1>4. kind = "bool" => \E b \in BOOLEAN : w = BoolValue(b)
    BY <1>2, NormalizedValue
  <1>5. kind = "string" => IF raw.operator \in {"in", "not_in"} THEN w.json = "list"
                           ELSE \E s \in Texts : w = TextValue(s)
    BY <1>2, NormalizedValue
  <1>6. kind = "int" => \E n \in Int : AsInt(w) = {n} /\ AsBool(w) = {}
    BY <1>2, NormalizedInt
  <1>7. ASSUME kind = "int", raw.operator = "between"
        PROVE  \E n \in Int, e \in end : end = {e} /\ AsInt(e) = {n}
    <2>1. PICK v \in raw.end : \E e \in norm(v) : end = {e}
      BY <1>2, <1>7
    <2>2. PICK e \in norm(v) : end = {e}
      BY <2>1
    <2>3. \E n \in Int : AsInt(e) = {n}
      BY <1>7, <2>2, NormalizedInt
    <2> QED BY <2>2, <2>3
  <1> QED BY <1>1, <1>3, <1>4, <1>5, <1>6, <1>7 DEF WellFormed

LEMMA ParsedIsWellFormed ==
  ASSUME NEW body, IsBody(body), NEW r \in Parsed(body)
  PROVE  WellFormedTree(r.tree)
  <1>1. PICK t \in ParseRuleTree(body) : r.tree = t
    BY DEF Parsed
  <1>2. ASSUME NEW g \in t.groups, NEW c \in g
        PROVE  WellFormed(c)
    <2>1. PICK h \in body.groups : \E raw \in h : c \in ValidateCondition(raw)
      BY <1>2 DEF ParseRuleTree
    <2>2. PICK raw \in h : c \in ValidateCondition(raw)
      BY <2>1
    <2> QED BY <2>2, ValidatedIsWellFormed DEF IsBody
  <1> QED BY <1>1, <1>2 DEF WellFormedTree

-----------------------------------------------------------------------------
(* The behaviors.  What has been seen of a member is what each path would  *)
(* say now, of the rule, the facts and the time as they are.               *)
Stored ==
  /\ WellFormedTree(rule.tree)
  /\ \A r \in draft : WellFormedTree(r.tree)
  /\ viewer \in [Members -> SUBSET Viewers]
  /\ now \in Int

SeenIsCurrent ==
  /\ seen \in [Members -> [Paths -> SUBSET BOOLEAN]]
  /\ \A m \in Members :
       /\ \A said \in seen[m]["player"] : said = Qualifies(rule, viewer[m])
       /\ \A listed \in seen[m]["bulk"] : listed = (m \in last.list)

(* The list of the last bulk sync has nobody who does not match the rule,  *)
(* and leaves nobody out unless it is at the limit; a member whose facts   *)
(* have changed since does not count.                                      *)
ListIsCurrent ==
  /\ last.limit \in Nat
  /\ \A m \in Members : seen[m]["bulk"] # {} =>
       /\ m \in last.list => m \in Qualifying(rule)
       /\ m \in Qualifying(rule) /\ m \notin last.list =>
            Cardinality(last.list) = last.limit
  /\ Members # {} /\ (\A m \in Members : seen[m]["bulk"] # {}) =>
       last.list \in Listings(rule, last.limit)

IInv == Stored /\ SeenIsCurrent /\ ListIsCurrent

LEMMA TruthOfPaths ==
  ASSUME NEW m \in Members
  PROVE  /\ Qualifies(rule, viewer[m]) \in BOOLEAN
         /\ (m \in last.list) \in BOOLEAN
  <1>1. CASE rule.tree.any
    <2>1. Qualifies(rule, viewer[m]) = (viewer[m] # {})
      BY <1>1 DEF Qualifies
    <2> QED BY <2>1
  <1>2. CASE ~rule.tree.any
    <2>1. Qualifies(rule, viewer[m]) =
            (rule.bound /\ \E v \in viewer[m] : Evaluate(rule.tree, v, now))
      BY <1>2 DEF Qualifies
    <2>2. (rule.bound /\ \E v \in viewer[m] : Evaluate(rule.tree, v, now)) \in BOOLEAN
      BY Zenon
    <2>3. (m \in last.list) \in BOOLEAN
      OBVIOUS
    <2> QED BY <2>1, <2>2, <2>3
  <1> QED BY <1>1, <1>2

LEMMA InitIInv == Init => IInv
  <1> SUFFICES ASSUME Init PROVE IInv
    OBVIOUS
  <1>1. WellFormedTree(rule.tree)
    BY DEF Init, Unconfigured, WellFormedTree
  <1>2. Stored
    BY <1>1 DEF Init, Stored
  <1>3. SeenIsCurrent
    BY DEF Init, SeenIsCurrent, Unseen, Paths
  <1>4. ListIsCurrent
    BY DEF Init, ListIsCurrent, Unseen, Paths, NoList
  <1> QED BY <1>2, <1>3, <1>4 DEF IInv

(* Whom a bulk sync lists. *)
LEMMA ListingsFit ==
  ASSUME NEW r, NEW limit, NEW L \in Listings(r, limit)
  PROVE  /\ L \subseteq Qualifying(r)
         /\ L # Qualifying(r) => Cardinality(L) = limit
  BY DEF Listings

(* A listing stays current until its rule, the facts or the time change.   *)
LEMMA NextList == IInv /\ [Next]_vars => ListIsCurrent'
  <1> SUFFICES ASSUME IInv, [Next]_vars PROVE ListIsCurrent'
    OBVIOUS
  <1> USE DEF IInv
  <1>1. CASE UNCHANGED <<seen, last, rule, viewer, now>>
    <2>1. Qualifying(rule)' = Qualifying(rule)
      BY <1>1 DEF Qualifying, GrantsNobody
    <2>2. Listings(rule, last.limit)' = Listings(rule, last.limit)
      BY <1>1, <2>1 DEF Listings
    <2> QED BY <1>1, <2>1, <2>2 DEF ListIsCurrent
  <1>2. CASE seen' = Unseen /\ last' = NoList
    <2>1. \A m \in Members : seen'[m]["bulk"] = {}
      BY <1>2 DEF Unseen, Paths
    <2> QED BY <1>2, <2>1 DEF ListIsCurrent, NoList
  <1>3. ASSUME NEW m \in Members, PlayerSync(m) PROVE ListIsCurrent'
    <2>1. Qualifying(rule)' = Qualifying(rule)
      BY <1>3 DEF PlayerSync, Qualifying, GrantsNobody
    <2>2. Listings(rule, last.limit)' = Listings(rule, last.limit)
      BY <1>3, <2>1 DEF PlayerSync, Listings
    <2>3. \A n \in Members : seen'[n]["bulk"] = seen[n]["bulk"]
      BY <1>3 DEF PlayerSync, SeenIsCurrent, Paths
    <2> QED BY <1>3, <2>1, <2>2, <2>3 DEF ListIsCurrent, PlayerSync
  <1>4. CASE BulkSync
    <2>1. Qualifying(rule)' = Qualifying(rule)
      BY <1>4 DEF BulkSync, Qualifying, GrantsNobody
    <2>0. PICK limit \in Limits : \E L \in Listings(rule, limit) :
            last' = [list |-> L, limit |-> limit]
      BY <1>4 DEF BulkSync
    <2>2. PICK L \in Listings(rule, limit) : last' = [list |-> L, limit |-> limit]
      BY <2>0
    <2>3. last'.list = L /\ last'.limit = limit /\ limit \in Nat
      BY <2>2, RuleAssumption
    <2>4. Listings(rule, last.limit)' = Listings(rule, limit)
      BY <1>4, <2>1, <2>3 DEF BulkSync, Listings
    <2> QED BY <2>1, <2>3, <2>4, ListingsFit DEF ListIsCurrent
  <1>5. ASSUME NEW m \in Members, News(m) PROVE ListIsCurrent'
    <2>1. /\ seen'[m]["bulk"] = {}
          /\ \A n \in Members \ {m} : seen'[n] = seen[n]
      BY <1>5 DEF News, SeenIsCurrent, Paths
    <2>2. \A n \in Members \ {m} : viewer'[n] = viewer[n]
      BY <1>5 DEF News, Stored
    <2>3. \A n \in Members \ {m} : (n \in Qualifying(rule))' <=> (n \in Qualifying(rule))
      BY <1>5, <2>2 DEF News, Qualifying, GrantsNobody
    <2>4. last' = last
      BY <1>5 DEF News
    <2> QED BY <2>1, <2>3, <2>4 DEF ListIsCurrent
  <1> QED
    BY <1>1, <1>2, <1>3, <1>4, <1>5 DEF Next, PreviewEdit, Preview, Edit, Save, Unbind, Tick,
                                       vars

LEMMA NextIInv == IInv /\ [Next]_vars => IInv'
  <1> SUFFICES ASSUME IInv, [Next]_vars PROVE (Stored /\ SeenIsCurrent)'
    BY NextList DEF IInv
  <1> DEFINE Seen == Stored /\ SeenIsCurrent
  <1> USE DEF IInv
  <1>u. Unseen \in [Members -> [Paths -> SUBSET BOOLEAN]]
        /\ \A m \in Members, p \in Paths : Unseen[m][p] = {}
    BY DEF Unseen
  <1>q. \A m \in Members : /\ Qualifies(rule, viewer[m]) \in BOOLEAN
                           /\ (m \in last.list) \in BOOLEAN
    BY TruthOfPaths
  <1>1. ASSUME NEW body \in Bodies, Edit(body) PROVE Seen'
    <2>1. \A r \in Parsed(body) : WellFormedTree(r.tree)
      BY InputAssumption, ParsedIsWellFormed
    <2>2. Stored'
      BY <1>1, <2>1 DEF Edit, Stored
    <2>3. SeenIsCurrent'
      BY <1>1 DEF Edit, SeenIsCurrent, Qualifies, Qualifying, GrantsNobody
    <2> QED BY <2>2, <2>3
  <1>2. CASE Save
    <2>1. Stored'
      BY <1>2 DEF Save, Stored
    <2>2. SeenIsCurrent'
      BY <1>2, <1>u DEF Save, SeenIsCurrent, Paths
    <2> QED BY <2>1, <2>2
  <1>8. CASE Unbind
    <2>1. Stored'
      BY <1>8 DEF Unbind, Stored
    <2>2. SeenIsCurrent'
      BY <1>8, <1>u DEF Unbind, SeenIsCurrent, Paths
    <2> QED BY <2>1, <2>2
  <1>3. ASSUME NEW r, Preview(r) PROVE Seen'
    BY <1>3 DEF Preview, Stored, SeenIsCurrent, Qualifies, Qualifying, GrantsNobody
  <1>4. ASSUME NEW m \in Members, PlayerSync(m) PROVE Seen'
    <2>1. Stored'
      BY <1>4 DEF PlayerSync, Stored
    <2>2. Qualifies(rule, viewer[m]) \in BOOLEAN
      BY <1>q
    <2>3. seen' = [seen EXCEPT ![m]["player"] = {Qualifies(rule, viewer[m])}]
      BY <1>4 DEF PlayerSync
    <2>4. seen' \in [Members -> [Paths -> SUBSET BOOLEAN]]
      BY <2>2, <2>3 DEF SeenIsCurrent, Paths
    <2>5. /\ seen'[m]["player"] = {Qualifies(rule, viewer[m])}
          /\ seen'[m]["bulk"] = seen[m]["bulk"]
          /\ \A n \in Members \ {m} : seen'[n] = seen[n]
      BY <2>3 DEF SeenIsCurrent, Paths
    <2>6. \A n \in Members : Qualifies(rule, viewer[n])' = Qualifies(rule, viewer[n])
      BY <1>4 DEF PlayerSync, Qualifies
    <2>7. last' = last
      BY <1>4 DEF PlayerSync
    <2> QED BY <2>1, <2>4, <2>5, <2>6, <2>7 DEF SeenIsCurrent
  <1>5. CASE BulkSync
    <2>1. Stored'
      BY <1>5 DEF BulkSync, Stored
    <2>2. \A n \in Members : Qualifies(rule, viewer[n])' = Qualifies(rule, viewer[n])
      BY <1>5 DEF BulkSync, Qualifies
    <2>3. PICK L : /\ last'.list = L
                   /\ seen' = [m \in Members |-> [seen[m] EXCEPT !["bulk"] = {m \in L}]]
      BY <1>5 DEF BulkSync
    <2>4. \A m : (m \in L) \in BOOLEAN
      OBVIOUS
    <2>5. seen' \in [Members -> [Paths -> SUBSET BOOLEAN]]
      BY <2>3, <2>4 DEF SeenIsCurrent, Paths
    <2>6. \A m \in Members : /\ seen'[m]["player"] = seen[m]["player"]
                             /\ seen'[m]["bulk"] = {m \in L}
      BY <2>3 DEF SeenIsCurrent, Paths
    <2> QED BY <2>1, <2>2, <2>3, <2>5, <2>6 DEF SeenIsCurrent
  <1>6. ASSUME NEW m \in Members, News(m) PROVE Seen'
    <2>1. viewer' \in [Members -> SUBSET Viewers]
      BY <1>6 DEF News, Stored
    <2>2. Stored'
      BY <1>6, <2>1 DEF News, Stored
    <2>3. /\ seen' \in [Members -> [Paths -> SUBSET BOOLEAN]]
          /\ \A p \in Paths : seen'[m][p] = {}
          /\ \A n \in Members \ {m} : seen'[n] = seen[n]
      BY <1>6 DEF News, SeenIsCurrent
    <2>4. \A n \in Members \ {m} : viewer'[n] = viewer[n]
      BY <1>6 DEF News, Stored
    <2>5. \A n \in Members \ {m} :
            /\ Qualifies(rule, viewer[n])' = Qualifies(rule, viewer[n])
            /\ (n \in last.list)' = (n \in last.list)
      BY <1>6, <2>4 DEF News, Qualifies, Qualifying, GrantsNobody
    <2> QED BY <2>2, <2>3, <2>5 DEF SeenIsCurrent, Paths
  <1>7. CASE Tick
    <2>1. Stored'
      BY <1>7 DEF Tick, Stored
    <2>2. SeenIsCurrent'
      BY <1>7, <1>u DEF Tick, SeenIsCurrent, Paths
    <2> QED BY <2>1, <2>2
  <1>9. CASE UNCHANGED vars
    BY <1>9 DEF vars, Stored, SeenIsCurrent, Qualifies, Qualifying, GrantsNobody
  <1> QED BY <1>1, <1>2, <1>3, <1>4, <1>5, <1>6, <1>7, <1>8, <1>9 DEF Next, PreviewEdit

LEMMA IInvAgree == IInv => PathsAgree
  <1> SUFFICES ASSUME IInv, PortableTree(rule.tree),
                      NEW m \in Members, \A v \in viewer[m] : Past(v, now),
                      NEW said \in seen[m]["player"], NEW listed \in seen[m]["bulk"]
               PROVE  \/ said = listed
                      \/ said /\ ~listed /\ Cardinality(last.list) = last.limit
    BY DEF PathsAgree
  <1>1. said = Qualifies(rule, viewer[m]) /\ listed = (m \in last.list)
    BY DEF IInv, SeenIsCurrent
  <1>2. \A v \in viewer[m] : Evaluate(rule.tree, v, now) <=> Selects(rule.tree, v, now)
    <2>1. viewer[m] \subseteq Viewers /\ now \in Int
      BY DEF IInv, Stored
    <2> QED BY <2>1, RulesAgree, InputAssumption DEF IInv, Stored
  <1>3. Qualifies(rule, viewer[m]) \in BOOLEAN
    BY TruthOfPaths
  <1>4. Qualifies(rule, viewer[m]) <=> (m \in Qualifying(rule))
    <2>1. CASE rule.tree.any
      BY <2>1 DEF Qualifies, Qualifying, GrantsNobody, Selects, BuildRuleWhere
    <2>2. CASE ~rule.tree.any /\ rule.tree.groups = {}
      BY <2>2 DEF Qualifies, Qualifying, GrantsNobody, Evaluate
    <2>3. CASE ~rule.tree.any /\ rule.tree.groups # {}
      BY <1>2, <2>3 DEF Qualifies, Qualifying, GrantsNobody
    <2> QED BY <2>1, <2>2, <2>3
  <1>5. /\ m \in last.list => m \in Qualifying(rule)
        /\ m \in Qualifying(rule) /\ m \notin last.list => Cardinality(last.list) = last.limit
    <2>1. seen[m]["bulk"] # {}
      OBVIOUS
    <2> QED BY <2>1 DEF IInv, ListIsCurrent
  <1>6. said \in BOOLEAN /\ (said <=> m \in Qualifying(rule))
    BY <1>1, <1>3, <1>4
  <1>7. listed \in BOOLEAN /\ (listed <=> m \in last.list)
    <2>1. (m \in last.list) \in BOOLEAN
      OBVIOUS
    <2> QED BY <1>1, <2>1, Zenon
  <1>8. CASE m \in last.list
    <2>1. said = TRUE /\ listed = TRUE
      BY <1>5, <1>6, <1>7, <1>8
    <2> QED BY <2>1
  <1>9. CASE m \notin last.list /\ m \notin Qualifying(rule)
    <2>1. said = FALSE /\ listed = FALSE
      BY <1>6, <1>7, <1>9
    <2> QED BY <2>1
  <1>10. CASE m \notin last.list /\ m \in Qualifying(rule)
    BY <1>5, <1>6, <1>7, <1>10
  <1> QED BY <1>8, <1>9, <1>10

(* In every behavior the player sync and the bulk sync decide alike, but   *)
(* for whom a list that is at the user limit leaves out.                   *)
THEOREM SyncsAgree == Spec => []PathsAgree
  BY InitIInv, NextIInv, IInvAgree, PTL DEF Spec

-----------------------------------------------------------------------------
(* What the preview counts is what the bulk sync gives. *)

CountIsCurrent == \A c \in counted : c.count = Matching(c.rule)

LEMMA NextCount == CountIsCurrent /\ [Next]_vars => CountIsCurrent'
  <1> SUFFICES ASSUME CountIsCurrent, [Next]_vars PROVE CountIsCurrent'
    OBVIOUS
  <1>1. ASSUME UNCHANGED <<viewer, now>>, counted' \subseteq counted
        PROVE  CountIsCurrent'
    BY <1>1 DEF CountIsCurrent, Matching, GrantsNobody
  <1>2. ASSUME NEW r, Preview(r) PROVE CountIsCurrent'
    <2>1. UNCHANGED <<viewer, now>>
      BY <1>2 DEF Preview
    <2>2. Matching(r)' = Matching(r)
      BY <2>1 DEF Matching, GrantsNobody
    <2>3. counted' = {[rule |-> r, count |-> Matching(r)]}
      BY <1>2 DEF Preview
    <2>4. \A c \in counted' : c.rule = r /\ c.count = Matching(r)
      BY <2>3
    <2> QED BY <2>2, <2>4 DEF CountIsCurrent
  <1>3. CASE counted' = {}
    BY <1>3 DEF CountIsCurrent
  <1> QED
    BY <1>1, <1>2, <1>3 DEF Next, Edit, Save, Unbind, PreviewEdit, PlayerSync, BulkSync,
                            News, Tick, vars

(* The preview and the bulk sync, both in SQL but written twice, count the *)
(* same members for one rule, the rules for nobody and for anyone included.*)
LEMMA MatchingIsQualifying ==
  ASSUME NEW r
  PROVE  Matching(r) = Cardinality(Qualifying(r))
  <1>1. CASE GrantsNobody(r)
    BY <1>1, FS_EmptySet DEF Matching, Qualifying
  <1>2. CASE ~GrantsNobody(r) /\ r.tree.any
    <2>1. \A v : Selects(r.tree, v, now)
      BY <1>2 DEF Selects, BuildRuleWhere
    <2>2. Qualifying(r) = {m \in Members : viewer[m] # {}}
      BY <1>2, <2>1 DEF Qualifying
    <2> QED BY <1>2, <2>2 DEF Matching
  <1>3. CASE ~GrantsNobody(r) /\ ~r.tree.any
    BY <1>3 DEF Matching, Qualifying
  <1> QED BY <1>1, <1>2, <1>3

(* Members that the last bulk sync gave the role to are those it listed.   *)
LEMMA CountTold == IInv /\ CountIsCurrent => PreviewTold
  <1> SUFFICES ASSUME IInv, CountIsCurrent, NEW c \in counted, c.rule = rule,
                      \A m \in Members : seen[m]["bulk"] # {}
               PROVE  Cardinality({m \in Members : seen[m]["bulk"] = {TRUE}})
                        = (IF c.count <= last.limit THEN c.count ELSE last.limit)
    BY DEF PreviewTold
  <1> DEFINE listed == {m \in Members : seen[m]["bulk"] = {TRUE}}
  <1>1. c.count = Cardinality(Qualifying(rule))
    BY MatchingIsQualifying DEF CountIsCurrent
  <1>2. ASSUME NEW m \in Members PROVE m \in listed <=> m \in last.list
    <2> DEFINE given == m \in last.list
    <2>1. \A l \in seen[m]["bulk"] : l = given
      BY DEF IInv, SeenIsCurrent
    <2>2. given \in BOOLEAN
      BY TruthOfPaths
    <2>3. seen[m]["bulk"] # {}
      OBVIOUS
    <2>4. seen[m]["bulk"] = {TRUE} <=> given = TRUE
      <3> HIDE DEF given
      <3> QED BY <2>1, <2>3
    <2>5. given = TRUE <=> m \in last.list
      BY <2>2, Zenon
    <2> QED BY <2>4, <2>5
  <1>3. Qualifying(rule) \subseteq Members
    BY DEF Qualifying
  <1>4. CASE Members = {}
    <2>1. Qualifying(rule) = {} /\ listed = {}
      BY <1>3, <1>4
    <2>2. c.count = 0 /\ Cardinality(listed) = 0
      BY <1>1, <2>1, FS_EmptySet
    <2>3. last.limit \in Nat
      BY DEF IInv, ListIsCurrent
    <2> HIDE DEF listed
    <2>4. Cardinality(listed) = (IF c.count <= last.limit THEN c.count ELSE last.limit)
      BY <2>2, <2>3
    <2> QED BY <2>4 DEF listed
  <1>5. CASE Members # {}
    <2>1. last.list \in Listings(rule, last.limit)
      BY <1>5 DEF IInv, ListIsCurrent
    <2>2. listed = last.list
      BY <1>2, <1>3, <2>1, ListingsFit
    <2>3. Cardinality(last.list)
            = (IF Cardinality(Qualifying(rule)) <= last.limit
               THEN Cardinality(Qualifying(rule)) ELSE last.limit)
      BY <2>1 DEF Listings
    <2> QED BY <1>1, <2>2, <2>3
  <1> QED BY <1>4, <1>5

(* The number shown before a save is the number of members the bulk sync   *)
(* then gives the role to, up to the user limit, if nothing else changes.  *)
THEOREM PreviewCounts == Spec => []PreviewTold
  <1>1. Init => CountIsCurrent
    BY DEF Init, CountIsCurrent
  <1> QED BY <1>1, NextCount, CountTold, InitIInv, NextIInv, PTL DEF Spec

-----------------------------------------------------------------------------
(* What validation stores, it accepts and leaves as it is, where the page  *)
(* is given the keys that from_key knows.                                  *)

LEMMA BoolTextInk == ASSUME NEW b \in BOOLEAN PROVE Trim(BoolText(b)) # << >>
  <1>1. "true" # Blank /\ "false" # Blank
    BY Zenon DEF Blank
  <1>2. PICK x : BoolText(b) = <<x>> /\ x # Blank
    BY <1>1 DEF BoolText
  <1>3. {i \in 1..Len(<<x>>) : <<x>>[i] # Blank} = {1}
    BY <1>2
  <1>4. Trim(<<x>>) = SubSeq(<<x>>, 1, 1)
    BY <1>3 DEF Trim
  <1>5. Len(SubSeq(<<x>>, 1, 1)) = 1
    OBVIOUS
  <1> QED BY <1>2, <1>4, <1>5

LEMMA NormalIntOnce ==
  ASSUME NEW v, NEW w \in NormalInt(v)
  PROVE  NormalInt(v) = {w} /\ NormalInt(w) = {w}
  <1>1. PICK n : NormalInt(v) = {Number(n)}
    <2>1. CASE v.json = "text"
      <3>1. PICK s \in {Trim(v.text)} \cap DOMAIN Numerals : w = Number(Numerals[s])
        BY <2>1 DEF NormalInt
      <3> QED BY <2>1, <3>1 DEF NormalInt
    <2>2. CASE v.json # "text"
      BY <2>2 DEF NormalInt, AsInt
    <2> QED BY <2>1, <2>2
  <1>2. w = Number(n)
    BY <1>1
  <1>3. w.json = "num" /\ w.num = n
    BY <1>2 DEF Number, NumValue
  <1>4. NormalInt(w) = {Number(n)}
    BY <1>3 DEF NormalInt, AsInt
  <1> QED BY <1>1, <1>2, <1>4

LEMMA NormalBoolOnce ==
  ASSUME NEW v, IsJson(v), NEW w \in NormalBool(v)
  PROVE  NormalBool(v) = {w} /\ NormalBool(w) = {w}
  <1>1. PICK b \in BOOLEAN : w = BoolValue(b)
    BY DEF NormalBool, IsJson, AsBool, NullValue, BoolValue, TextValue, NumValue
  <1>2. NormalBool(w) = {w}
    BY <1>1 DEF NormalBool, AsBool, BoolValue
  <1>3. CASE v.json = "text"
    <2> DEFINE words(x) == IF x THEN TrueWords ELSE FalseWords
    <2>1. NormalBool(v) = {BoolValue(x) : x \in {y \in BOOLEAN : Trim(v.text) \in words(y)}}
      BY <1>3 DEF NormalBool
    <2>2. \A x, y \in BOOLEAN : Trim(v.text) \in words(x) /\ Trim(v.text) \in words(y)
                               => x = y
      BY RuleAssumption
    <2> QED BY <1>2, <2>1, <2>2
  <1>4. CASE v.json # "text"
    BY <1>2, <1>4 DEF NormalBool, AsBool
  <1> QED BY <1>2, <1>3, <1>4

LEMMA NormalListOnce ==
  ASSUME NEW v, NEW w \in NormalList(v)
  PROVE  NormalList(v) = {w} /\ NormalList(w) = {w}
  <1> DEFINE none == {NullValue, TextValue(<< >>)}
             items == CASE v.json = "list" -> v.list \ none
                        [] v.json = "text" -> {TextValue(s) : s \in Pieces(v.text)}
                        [] v.json = "null" -> {}
                        [] OTHER -> {v}
  <1>1. NormalList(v) = (IF items = {} THEN {} ELSE {ListValue(items)})
    BY DEF NormalList
  <1>2. items # {} /\ w = ListValue(items) /\ NormalList(v) = {w}
    BY <1>1
  <1>3. items \cap none = {}
    <2>1. CASE v.json = "list"
      BY <2>1
    <2>2. CASE v.json = "text"
      <3>1. << >> \notin Pieces(v.text)
        BY DEF Pieces
      <3>2. items = {TextValue(s) : s \in Pieces(v.text)}
        BY <2>2
      <3>3. \A s : TextValue(s) # NullValue /\ (TextValue(s) = TextValue(<< >>) => s = << >>)
        BY DEF TextValue, NullValue
      <3> QED BY <3>1, <3>2, <3>3
    <2>3. CASE v.json = "null"
      BY <2>3
    <2>4. CASE v.json \notin {"list", "text", "null"}
      <3>1. items = {v}
        BY <2>4
      <3>2. v \notin none
        BY <2>4 DEF TextValue, NullValue
      <3> QED BY <3>1, <3>2
    <2> QED BY <2>1, <2>2, <2>3, <2>4
  <1>4. w.json = "list" /\ w.list = items
    BY <1>2 DEF ListValue
  <1> HIDE DEF items
  <1>5. w.list \ none = items
    BY <1>3, <1>4
  <1>6. NormalList(w) = {ListValue(items)}
    BY <1>2, <1>4, <1>5 DEF NormalList
  <1> QED BY <1>2, <1>6

LEMMA NormalTextOnce ==
  ASSUME NEW v, IsJson(v), NEW w \in NormalText(v)
  PROVE  NormalText(v) = {w} /\ NormalText(w) = {w}
  <1>1. \A s : Trim(s) # << >> => NormalText(TextValue(s)) = {TextValue(s)}
    BY DEF NormalText, TextValue
  <1>2. CASE v.json = "text"
    <2>1. Trim(v.text) # << >> /\ w = v /\ NormalText(v) = {v}
      BY <1>2 DEF NormalText
    <2> QED BY <2>1
  <1>3. CASE v.json = "num"
    <2>1. Trim(v.text) # << >>
      BY <1>3 DEF IsJson, NullValue, BoolValue, TextValue
    <2>2. NormalText(v) = {TextValue(v.text)}
      BY <1>3 DEF NormalText
    <2> QED BY <1>1, <2>1, <2>2
  <1>4. CASE v.json = "bool"
    <2>1. v.bool \in BOOLEAN
      BY <1>4 DEF IsJson, NullValue, BoolValue, TextValue, NumValue
    <2>2. NormalText(v) = {TextValue(BoolText(v.bool))}
      BY <1>4 DEF NormalText
    <2> QED BY <1>1, <2>1, <2>2, BoolTextInk
  <1>5. CASE v.json \notin {"text", "num", "bool"}
    BY <1>5 DEF NormalText
  <1> QED BY <1>2, <1>3, <1>4, <1>5

(* A value that was normalised is normal, and there is no choice in it.    *)
LEMMA NormalOnce ==
  ASSUME NEW v, IsJson(v), NEW kind \in {"bool", "int", "string"}, NEW op,
         NEW w \in NormalizeValue(kind, op, v)
  PROVE  NormalizeValue(kind, op, v) = {w} /\ NormalizeValue(kind, op, w) = {w}
  BY NormalBoolOnce, NormalIntOnce, NormalListOnce, NormalTextOnce DEF NormalizeValue

LEMMA ValidateOnce ==
  ASSUME NEW raw, IsJson(raw.value), \A e \in raw.end : IsJson(e),
         \A d, e \in raw.end : d = e, NEW c \in ValidateCondition(raw)
  PROVE  ValidateCondition(raw) = {c} /\ ValidateCondition(c) = {c}
  <1> DEFINE kind == KindOf(raw.target)
             norm(v) == NormalizeValue(kind, raw.operator, v)
             ends(r) == IF raw.operator = "between"
                        THEN {{e} : e \in UNION {norm(v) : v \in r.end}}
                        ELSE {{}}
             made(r) == {[target |-> raw.target, operator |-> raw.operator,
                          value |-> w, end |-> e] : w \in norm(r.value), e \in ends(r)}
             kept(x) == raw.operator = "regex" => AsText(x.value) \subseteq RustPatterns
  <1>1. /\ raw.target \in Targets /\ raw.operator \in ValidFor(kind)
        /\ kind \in {"bool", "int", "string"}
    BY DEF ValidateCondition, KindOf
  <1>2. ASSUME NEW r, r.target = raw.target, r.operator = raw.operator
        PROVE  ValidateCondition(r) = {x \in made(r) : kept(x)}
    BY <1>1, <1>2 DEF ValidateCondition
  <1>3. ValidateCondition(raw) = {x \in made(raw) : kept(x)}
    BY <1>2
  <1>4. PICK w \in norm(raw.value), end \in ends(raw) :
          c = [target |-> raw.target, operator |-> raw.operator,
               value |-> w, end |-> end]
    BY <1>3
  <1>5. /\ c.target = raw.target /\ c.operator = raw.operator
        /\ c.value = w /\ c.end = end
    BY <1>4
  <1>6. norm(raw.value) = {w} /\ norm(c.value) = {w}
    BY <1>1, <1>5, NormalOnce
  <1>7. ends(raw) = {end} /\ ends(c) = {end}
    <2>1. CASE raw.operator = "between"
      <3>1. PICK d \in raw.end : \E e \in norm(d) : end = {e}
        BY <2>1
      <3>2. PICK e \in norm(d) : end = {e}
        BY <3>1
      <3>3. norm(d) = {e} /\ norm(e) = {e}
        BY <1>1, <3>2, NormalOnce
      <3>4. raw.end = {d} /\ c.end = {e}
        BY <1>5, <3>2
      <3> HIDE DEF norm
      <3> QED BY <2>1, <3>2, <3>3, <3>4
    <2>2. CASE raw.operator # "between"
      BY <2>2
    <2> QED BY <2>1, <2>2
  <1>8. made(raw) = {c} /\ made(c) = {c}
    <2> HIDE DEF norm, ends
    <2> QED BY <1>4, <1>6, <1>7
  <1>9. kept(c)
    BY <1>3
  <1>10. ValidateCondition(c) = {x \in made(c) : kept(x)}
    BY <1>2, <1>5
  <1> QED BY <1>3, <1>8, <1>9, <1>10

(* What validation makes of a group.                                       *)
Group(g) == UNION {ValidateCondition(raw) : raw \in g}

LEMMA GroupOnce ==
  ASSUME NEW g, IsFiniteSet(g), Cardinality(g) \in 1..MaxConditions,
         \A raw \in g : ValidateCondition(raw) # {},
         \A raw \in g : /\ IsJson(raw.value) /\ \A e \in raw.end : IsJson(e)
                        /\ \A d, e \in raw.end : d = e
  PROVE  /\ Cardinality(Group(g)) \in 1..MaxConditions
         /\ \A c \in Group(g) : ValidateCondition(c) = {c}
         /\ Group(Group(g)) = Group(g)
  <1>1. \A raw \in g : \A c \in ValidateCondition(raw) :
          ValidateCondition(raw) = {c} /\ ValidateCondition(c) = {c}
    BY ValidateOnce
  <1>2. \A c \in Group(g) : ValidateCondition(c) = {c}
    BY <1>1 DEF Group
  <1>3. Group(Group(g)) = Group(g)
    BY <1>2 DEF Group
  <1> DEFINE f == [raw \in g |-> CHOOSE c \in ValidateCondition(raw) : TRUE]
  <1>4. \A raw \in g : f[raw] \in ValidateCondition(raw)
    OBVIOUS
  <1>5. f \in Surjection(g, Group(g))
    BY <1>1, <1>4 DEF Surjection, Group
  <1>6. IsFiniteSet(Group(g)) /\ Cardinality(Group(g)) <= Cardinality(g)
    BY <1>5, FS_Surjection
  <1>7. Group(g) # {}
    <2>1. g # {}
      BY FS_EmptySet
    <2> QED BY <1>4, <2>1 DEF Group
  <1>8. Cardinality(Group(g)) \in Nat \ {0}
    BY <1>6, <1>7, FS_EmptySet, FS_CardinalityType
  <1> QED BY <1>2, <1>3, <1>6, <1>8, RuleAssumption

LEMMA GroupsStay ==
  ASSUME NEW H, \A h \in H : Group(h) = h
  PROVE  {Group(h) : h \in H} = H
  OBVIOUS

(* The body the editor would send when it is opened and saved again, with  *)
(* the keys of from_key.                                                   *)
Reload(r) == [any |-> r.tree.any, bound |-> r.bound, groups |-> r.tree.groups]

(* A condition has its four fields and no more. *)
IsCondition(c) ==
  c = [target |-> c.target, operator |-> c.operator, value |-> c.value, end |-> c.end]

Reloads(r) ==
  /\ r = [bound |-> r.bound, tree |-> r.tree]
  /\ r.tree.any => r.tree.groups = {}
  /\ \A g \in r.tree.groups : \A c \in g : IsCondition(c)
  /\ r.tree.any \/ r.tree.groups # {} => ParseRuleTree(Reload(r)) = {r.tree}

(* What validation stores has the four fields of a condition. *)
LEMMA ValidIsCondition ==
  ASSUME NEW raw, NEW c \in ValidateCondition(raw)
  PROVE  IsCondition(c)
  <1>1. PICK w, e : c = [target |-> raw.target, operator |-> raw.operator,
                         value |-> w, end |-> e]
    BY DEF ValidateCondition
  <1>2. /\ c.target = raw.target /\ c.operator = raw.operator
        /\ c.value = w /\ c.end = e
    BY <1>1
  <1> QED BY <1>1, <1>2 DEF IsCondition

LEMMA ParsedReloads ==
  ASSUME NEW body, IsBody(body), NEW r \in Parsed(body)
  PROVE  Reloads(r)
  <1>1. PICK t \in ParseRuleTree(body) : r = [bound |-> body.bound, tree |-> t]
    BY DEF Parsed
  <1>2. r.tree = t /\ r = [bound |-> r.bound, tree |-> r.tree]
    BY <1>1
  <1>3. CASE body.any
    <2>1. t = [any |-> TRUE, groups |-> {}]
      BY <1>3 DEF ParseRuleTree
    <2>2. Reload(r).any
      BY <1>2, <2>1 DEF Reload
    <2>3. ParseRuleTree(Reload(r)) = {t}
      BY <2>1, <2>2 DEF ParseRuleTree
    <2> QED BY <1>2, <2>1, <2>3 DEF Reloads
  <1>4. CASE ~body.any
    <2> DEFINE G == body.groups
               H == {Group(g) : g \in G}
    <2>1. /\ Cardinality(G) \in 1..MaxGroups
          /\ \A g \in G : /\ Cardinality(g) \in 1..MaxConditions
                          /\ \A raw \in g : ValidateCondition(raw) # {}
          /\ t = [any |-> FALSE, groups |-> H]
      BY <1>4 DEF ParseRuleTree, Group
    <2>2. \A g \in G : /\ Cardinality(Group(g)) \in 1..MaxConditions
                       /\ \A c \in Group(g) : ValidateCondition(c) = {c}
                       /\ Group(Group(g)) = Group(g)
      BY <2>1, GroupOnce DEF IsBody
    <2> DEFINE f == [g \in G |-> Group(g)]
    <2>3. f \in Surjection(G, H)
      BY DEF Surjection
    <2>4. IsFiniteSet(G)
      BY DEF IsBody
    <2>5. IsFiniteSet(H) /\ Cardinality(H) <= Cardinality(G)
      BY <2>3, <2>4, FS_Surjection
    <2>6. H # {}
      <3>1. G # {}
        BY <2>1, <2>4, FS_EmptySet, RuleAssumption
      <3> QED BY <3>1
    <2>7. Cardinality(H) \in 1..MaxGroups
      <3>1. Cardinality(H) \in Nat \ {0}
        BY <2>5, <2>6, FS_EmptySet, FS_CardinalityType
      <3> QED BY <2>1, <2>5, <3>1, RuleAssumption
    <2>8. \A h \in H : /\ Cardinality(h) \in 1..MaxConditions
                       /\ \A c \in h : ValidateCondition(c) # {}
                       /\ Group(h) = h
      BY <2>2
    <2>9. {Group(h) : h \in H} = H
      <3>1. \A h \in H : Group(h) = h
        BY <2>2
      <3> QED BY <3>1, GroupsStay
    <2>10. Reload(r).any = FALSE /\ Reload(r).groups = H
      BY <1>2, <2>1 DEF Reload
    <2>11. ParseRuleTree(Reload(r)) = {[any |-> FALSE, groups |-> {Group(h) : h \in H}]}
      <3> HIDE DEF H
      <3> QED BY <2>7, <2>8, <2>10 DEF ParseRuleTree, Group
    <2>12. \A h \in H : \A c \in h : IsCondition(c)
      BY ValidIsCondition DEF Group
    <2>13. ParseRuleTree(Reload(r)) = {r.tree}
      BY <1>2, <2>1, <2>9, <2>11
    <2>14. r.tree.any = FALSE /\ r.tree.groups = H
      BY <1>2, <2>1
    <2> HIDE DEF H
    <2> QED BY <1>2, <2>12, <2>13, <2>14 DEF Reloads
  <1> QED BY <1>3, <1>4

(* A rule that loses its channel is the same rule without it.              *)
LEMMA UnboundReloads ==
  ASSUME NEW r, Reloads(r)
  PROVE  Reloads([bound |-> FALSE, tree |-> r.tree])
  BY DEF Reloads, Reload, ParseRuleTree

(* A condition that counts no chat messages is stored with the key of its  *)
(* target, so the page has it as it is; one that does is refused.          *)
LEMMA KeyStays ==
  ASSUME NEW c, IsCondition(c), c.target # "chat_messages_30d"
  PROVE  [c EXCEPT !.target = StoredKey(@)] = c
  <1>1. StoredKey(c.target) = c.target
    BY DEF StoredKey
  <1> DEFINE t == c.target
             o == c.operator
             v == c.value
             e == c.end
             k == StoredKey(c.target)
  <1>2. c = [target |-> t, operator |-> o, value |-> v, end |-> e]
    BY DEF IsCondition
  <1>3. [c EXCEPT !.target = k] = [target |-> k, operator |-> o, value |-> v, end |-> e]
    <2> HIDE DEF t, o, v, e, k
    <2> QED BY <1>2
  <1> QED BY <1>1, <1>2, <1>3

(* from_key does not know the stored key of a count of chat messages.      *)
LEMMA ChatRefused ==
  ASSUME NEW c, IsCondition(c), c.target = "chat_messages_30d"
  PROVE  ValidateCondition([c EXCEPT !.target = StoredKey(@)]) = {}
  <1> DEFINE d == [c EXCEPT !.target = StoredKey(@)]
  <1>1. StoredKey(c.target) = "chat_messages30d"
    BY DEF StoredKey
  <1>2. d.target = "chat_messages30d"
    <2>1. "target" \in DOMAIN c
      BY DEF IsCondition
    <2> QED BY <1>1, <2>1
  <1>3. d.target \notin Targets
    BY <1>2 DEF Targets, BoolTargets, CountTargets, AgeTargets, TextTargets
  <1> QED BY <1>3 DEF ValidateCondition

Reloadable == Reloads(rule) /\ \A r \in draft : Reloads(r)

LEMMA NextReloadable == Reloadable /\ [Next]_vars => Reloadable'
  <1> SUFFICES ASSUME Reloadable, [Next]_vars PROVE Reloadable'
    OBVIOUS
  <1>1. ASSUME NEW body \in Bodies, Edit(body) PROVE Reloadable'
    BY <1>1, InputAssumption, ParsedReloads DEF Edit, Reloadable
  <1>2. CASE Save
    BY <1>2 DEF Save, Reloadable
  <1>3. CASE Unbind
    BY <1>3, UnboundReloads DEF Unbind, Reloadable
  <1>4. CASE UNCHANGED <<rule, draft>>
    BY <1>4 DEF Reloadable
  <1> QED
    BY <1>1, <1>2, <1>3, <1>4 DEF Next, PreviewEdit, Preview, PlayerSync, BulkSync, News,
                                  Tick, vars

(* What the page has of a stored rule. *)
LEMMA LoadedRule ==
  ASSUME NEW r, Reloads(r), r.tree.any \/ r.tree.groups # {}
  PROVE  Parsed(Loaded(r)) = (IF CountsChat(r.tree) THEN {} ELSE {r})
  <1> DEFINE key(c) == [c EXCEPT !.target = StoredKey(@)]
             loaded(g) == {key(c) : c \in g}
  <1>1. \A g \in r.tree.groups : \A c \in g : IsCondition(c)
    BY DEF Reloads
  <1>2. Loaded(r) = [any |-> r.tree.any, bound |-> r.bound,
                     groups |-> {loaded(g) : g \in r.tree.groups}]
    BY DEF Loaded
  <1>3. CASE ~CountsChat(r.tree)
    <2>1. ASSUME NEW g \in r.tree.groups PROVE loaded(g) = g
      <3>1. \A c \in g : key(c) = c
        BY <1>1, <1>3, <2>1, KeyStays DEF CountsChat
      <3> HIDE DEF key
      <3> QED BY <3>1
    <2>2. {loaded(g) : g \in r.tree.groups} = r.tree.groups
      <3> HIDE DEF loaded
      <3> QED BY <2>1
    <2>3. Loaded(r) = Reload(r)
      BY <1>2, <2>2 DEF Reload
    <2>4. ParseRuleTree(Reload(r)) = {r.tree} /\ Reload(r).bound = r.bound
      BY DEF Reloads, Reload
    <2>5. Parsed(Loaded(r)) = {[bound |-> r.bound, tree |-> r.tree]}
      BY <2>3, <2>4 DEF Parsed
    <2> QED BY <1>3, <2>5 DEF Reloads
  <1>4. CASE CountsChat(r.tree)
    <2>0. PICK g \in r.tree.groups : \E c \in g : c.target = "chat_messages_30d"
      BY <1>4 DEF CountsChat
    <2>1. PICK c \in g : c.target = "chat_messages_30d"
      BY <2>0
    <2>2. ValidateCondition(key(c)) = {}
      BY <1>1, <2>1, ChatRefused
    <2>3. key(c) \in loaded(g)
      OBVIOUS
    <2>4. loaded(g) \in {loaded(h) : h \in r.tree.groups}
      <3> HIDE DEF loaded
      <3> QED OBVIOUS
    <2>5. Loaded(r).any = FALSE
      BY <1>2, <2>1 DEF Reloads
    <2>6. loaded(g) \in Loaded(r).groups
      <3> HIDE DEF loaded
      <3> QED BY <1>2, <2>4
    <2>7. ParseRuleTree(Loaded(r)) = {}
      <3> HIDE DEF loaded, key
      <3> QED BY <2>2, <2>3, <2>5, <2>6 DEF ParseRuleTree
    <2>8. Parsed(Loaded(r)) = {}
      BY <2>7 DEF Parsed
    <2> QED BY <1>4, <2>8
  <1> QED BY <1>3, <1>4

(* The stored rule, opened in the editor and saved again, is accepted and  *)
(* stays the rule it was, whatever body it came from, unless it counts     *)
(* chat messages: then it is refused.                                      *)
THEOREM RulesReload == Spec => []SavesAsItself
  <1>1. Init => Reloadable
    <2> SUFFICES ASSUME Init PROVE Reloads(Unconfigured)
      BY DEF Init, Reloadable
    <2> QED BY DEF Reloads, Unconfigured
  <1>2. Reloadable => SavesAsItself
    <2> SUFFICES ASSUME Reloadable, ~GrantsNobody(rule)
                 PROVE  Parsed(Loaded(rule)) = (IF CountsChat(rule.tree) THEN {} ELSE {rule})
      BY DEF SavesAsItself
    <2> QED BY LoadedRule DEF Reloadable, GrantsNobody
  <1> QED BY <1>1, <1>2, NextReloadable, PTL DEF Spec
=============================================================================
