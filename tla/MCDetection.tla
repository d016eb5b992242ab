------------------------------ MODULE MCDetection ------------------------------
(* Two kinds of product: a title alone with any three hits of two rules, some  *)
(* negated; and copy in every field, over texts without a hit, with one claim, *)
(* with one twice, with one that compliance data makes as well, and with a     *)
(* negated one.                                                                *)
EXTENDS Detection

CONSTANTS premium, country, licence

UpToThreeHits == {{}} \cup {{a, b, c} : a, b, c \in Hits}

RuleKey == <<premium, country>>

Text(found, before) ==
  [hits |-> found, negated |-> before, key |-> [h \in found |-> RuleKey[h.rule]]]

Hit(start, end, rule) == [start |-> start, end |-> end, rule |-> rule]

Blank == Text({}, {})

FewTexts ==
  {Blank, Text({Hit(0, 1, 1)}, {}), Text({Hit(0, 1, 1), Hit(2, 4, 1)}, {}),
   Text({Hit(0, 2, 2), Hit(1, 3, 1)}, {}), Text({Hit(1, 3, 1), Hit(3, 4, 2)}, {1})}

Product(title, aboutItems, short, long, origin, fssai) ==
  [title |-> title, aboutItems |-> aboutItems, shortDescription |-> short,
   longDescription |-> long, country_of_origin |-> origin, fssai_no |-> fssai]

AnyTitle ==
  {p \in {Product(Text(found, before), <<>>, Blank, Blank, "absent", "absent") :
            found \in UpToThreeHits, before \in SUBSET (1 .. Length - 1)} :
     p.title.negated \subseteq Negatable(p.title.hits)}

FullProducts ==
  {Product(t, a, s, l, o, f) :
     t \in FewTexts, a \in UNION {[1 .. n -> FewTexts] : n \in {0, 2}}, s \in {Blank, Text({Hit(0, 1, 1)}, {})},
     l \in FewTexts, o \in RawValues, f \in {"rejected", "acceptable"}}

AnyProduct == AnyTitle \cup FullProducts

===============================================================================
