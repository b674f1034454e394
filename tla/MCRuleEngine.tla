---------------------------- MODULE MCRuleEngine ----------------------------
(* Instances of RuleEngine for TLC: every operator on one target of each   *)
(* kind with every shape of value, and rules of several conditions.        *)
EXTENDS RuleEngine, TLC

MCNumerals   == (<<"0">> :> 0) @@ (<<"1">> :> 1) @@ (<<"2">> :> 2)
MCTrueWords  == {<<"true">>, <<"1">>, <<"yes">>}
MCFalseWords == {<<"false">>, <<"0">>, <<"no">>}

(* Names, patterns, and texts that go wrong: empty, blank, padded, listed, *)
(* with the characters LIKE knows.                                         *)
Names   == {<<"a", "b">>, <<"a", "_">>}
Special == UNION {[1..n -> {"a", "_", "%", "\\"}] : n \in 0..2}
MCTexts == Special \cup Names \cup DOMAIN MCNumerals \cup
  {<<" ">>, <<" ", "1">>, <<"yes">>, <<"true">>, <<"false">>,
   <<"a", "b", ",", " ", "a", "_">>, <<",">>, <<"1", ".", "9">>,
   <<"^", "a">>, <<"\\", "p">>, <<"(">>}

(* A pattern both engines read alike, one that only the regex crate knows  *)
(* (a class as \p{L}), and one that is none.                               *)
MCRustPatterns == {<<"^", "a">>, <<"\\", "p">>}
MCPgPatterns   == {<<"^", "a">>}
MCRustRegex == {<<s, <<"^", "a">>>> : s \in {t \in MCTexts : t # << >> /\ t[1] = "a"}}
                 \cup {<<s, <<"\\", "p">>>> : s \in MCTexts}
MCPgRegex   == {x \in MCRustRegex : x[2] \in MCPgPatterns}

Values == {NullValue, BoolValue(TRUE), NumValue(1, <<"1">>),
           NumValue(1, <<"1", ".", "9">>), ListValue({NullValue}),
           ListValue({TextValue(<<"a", "b">>), TextValue(<< >>), NumValue(1, <<"1">>)}),
           ListValue({NumValue(1, <<"1">>)})} \cup
  {TextValue(s) : s \in {<< >>, <<" ">>, <<" ", "1">>, <<"yes">>, <<"a", "_">>,
     <<"_">>, <<"a", "b", ",", " ", "a", "_">>, <<"^", "a">>, <<"\\", "p">>,
     <<"(">>}}

Conds(targets, ops, values, ends) ==
  [target : targets, operator : ops, value : values, end : ends]
(* Every value for a target of each kind, those that matter for a country, *)
(* which nobody has, and for a target there is not.                        *)
Singles ==
  Conds({"is_vip", "kicks_donated_to_channel", "follow_age_days", "username"},
        Operators \ {"between"}, Values, {{}})
  \cup Conds({"country_code"}, Operators \ {"between"},
             {NullValue, TextValue(<<"a", "_">>), ListValue({NullValue}),
              ListValue({TextValue(<<"a", "b">>), TextValue(<< >>), NumValue(1, <<"1">>)})},
             {{}})
  \cup Conds({"no_such_target"}, {"eq"}, Values, {{}})
  \cup Conds({"follow_age_days", "kicks_donated_to_channel"}, {"between"},
             {NumValue(0, <<"0">>), TextValue(<< >>)},
             {{}, {NumValue(1, <<"1">>)}, {TextValue(<<"2">>)}, {TextValue(<<" ">>)}})

Vip  == [target |-> "is_vip", operator |-> "eq", value |-> BoolValue(TRUE), end |-> {}]
Week == [target |-> "follow_age_days", operator |-> "gte",
         value |-> NumValue(1, <<"1">>), end |-> {}]
Named == [target |-> "username", operator |-> "contains",
          value |-> TextValue(<<"_">>), end |-> {}]
Chat == [target |-> "chat_messages_30d", operator |-> "gte",
         value |-> NumValue(1, <<"1">>), end |-> {}]
Bad  == [target |-> "username", operator |-> "gt", value |-> NullValue, end |-> {}]
SomeGroups == {{}, {{}}, {{Vip, Week}}, {{Vip}, {Week, Named}}, {{Vip, Bad}},
               {{Vip, Week, Named}}, {{Vip}, {Week}, {Named}},
               {{Chat}}, {{Vip}, {Chat, Named}}}

MCBodies ==
  {[any |-> FALSE, bound |-> TRUE, groups |-> {{c}}] : c \in Singles} \cup
  {[any |-> a, bound |-> b, groups |-> G] :
     a \in BOOLEAN, b \in BOOLEAN, G \in SomeGroups}

Row(vip, kicks, followed) ==
  [flags  |-> [t \in BoolTargets |-> t = "is_vip" /\ vip],
   counts |-> [t \in CountTargets |-> IF t = "kicks_donated_to_channel" THEN kicks ELSE 0],
   followed |-> followed]
(* No country is ever stored: nothing in the program writes one. *)
Stored(row, name) == [row |-> row, created |-> -1, country |-> {}, name |-> name]
MCViewers ==
  {Stored({}, <<"a", "b">>), Stored({Row(FALSE, 0, {})}, <<"a", "_">>),
   Stored({Row(TRUE, 1, {-1})}, <<"a", "_">>), Stored({Row(FALSE, 2, {1})}, <<"a", "b">>)}

MemberSymmetry == Permutations(Members)
=============================================================================
