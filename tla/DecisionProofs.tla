--------------------------- MODULE DecisionProofs ---------------------------
(***************************************************************************)
(* What the decisions of a tool run are, for all rules, versions, tables   *)
(* of tools and environments: the policy engine, the tool registry and the *)
(* environment builder decide by functions of what they are given, so the  *)
(* theorems are about Policy, Registry and Environment, not about steps.   *)
(***************************************************************************)
EXTENDS Policy, Registry, Environment,
        FiniteSetTheorems, SequenceTheorems, WellFoundedInduction, TLAPS

-----------------------------------------------------------------------------
(* A set of naturals has a least element.                                  *)
LEMMA Least ==
  ASSUME NEW T \in SUBSET Nat, T # {}
  PROVE  \E m \in T : \A n \in T : m <= n
<1>. DEFINE L == OpToRel(<, Nat)
<1>1. IsWellFoundedOn(L, Nat)
  BY NatLessThanWellFounded
<1>2. ASSUME NEW x \in Nat, NEW y \in Nat, <<x, y>> \notin L
      PROVE  y <= x
  BY <1>2 DEF OpToRel
<1>. HIDE DEF L
<1>3. PICK x \in T : \A y \in T : <<y, x>> \notin L
  BY <1>1, WFMin
<1>4. \A y \in T : x <= y
  BY <1>2, <1>3
<1>. QED BY <1>4

(* A star counts one.                                                      *)
LEMMA LengthOfRule ==
  ASSUME NEW rule, Len(rule.text) \in Nat
  PROVE  Length(rule) \in {Len(rule.text), Len(rule.text) + 1}
<1>1. CASE rule.star
  <2>1. (IF rule.star THEN 1 ELSE 0) = 1
    BY <1>1, Zenon
  <2>. QED BY <2>1 DEF Length
<1>2. CASE ~rule.star
  <2>1. (IF rule.star THEN 1 ELSE 0) = 0
    BY <1>2, Zenon
  <2>2. Length(rule) = Len(rule.text) + 0
    BY <2>1, Zenon DEF Length
  <2>3. \A n \in Nat : n + 0 = n
    OBVIOUS
  <2>. QED BY <2>2, <2>3
<1>. QED BY <1>1, <1>2

(* Rules as a configuration has them. *)
Rules(rules) == \A i \in DOMAIN rules : i \in Nat /\ Len(rules[i].text) \in Nat

(* The first of the longest rules that match. *)
Deciding(rules, subject, i) ==
  /\ i \in Matching(rules, subject)
  /\ \A j \in Matching(rules, subject) :
       \/ Length(rules[j]) < Length(rules[i])
       \/ Length(rules[j]) = Length(rules[i]) /\ i <= j

(* The rules that match are no longer than the subject and a star, so one  *)
(* of them is longest.                                                     *)
LEMMA ChosenDecides ==
  ASSUME NEW rules, NEW subject, Len(subject) \in Nat, Rules(rules),
         Matching(rules, subject) # {}
  PROVE  Deciding(rules, subject, Chosen(rules, subject))
<1>. DEFINE M == Matching(rules, subject)
            length(i) == Length(rules[i])
            Bound == Len(subject) + 1
            Short == {Bound - length(i) : i \in M}
<1>1. M \subseteq Nat
  BY DEF Matching, Rules
<1>2. ASSUME NEW i \in M
      PROVE  length(i) \in Nat /\ Bound - length(i) \in Nat
  <2>1. Len(rules[i].text) <= Len(subject) /\ Len(rules[i].text) \in Nat
    BY DEF Matching, Matches, IsPrefix, Rules
  <2>2. length(i) = Len(rules[i].text) \/ length(i) = Len(rules[i].text) + 1
    BY <2>1, LengthOfRule
  <2>. HIDE DEF length
  <2>. QED BY <2>1, <2>2
<1>3. PICK m \in Short : \A n \in Short : m <= n
  <2>1. Short \in SUBSET Nat /\ Short # {}
    BY <1>2
  <2>. HIDE DEF Short
  <2>. QED BY <2>1, Least
<1>. DEFINE Longest == {i \in M : Bound - length(i) = m}
<1>4. PICK first \in Longest : \A j \in Longest : first <= j
  <2>1. Longest \in SUBSET Nat /\ Longest # {}
    BY <1>1, <1>3
  <2>. HIDE DEF Longest
  <2>. QED BY <2>1, Least
<1>. DEFINE Best(i) == \A j \in M : length(j) < length(i) \/ (length(j) = length(i) /\ i <= j)
<1>5. first \in M /\ Best(first)
  <2>1. first \in M /\ Bound - length(first) = m
    BY <1>4
  <2>2. ASSUME NEW j \in M
        PROVE  length(j) < length(first) \/ (length(j) = length(first) /\ first <= j)
    <3>1. m <= Bound - length(j)
      BY <1>3
    <3>2. length(j) \in Nat /\ length(first) \in Nat /\ Bound \in Nat
      BY <1>2, <2>1
    <3>3. CASE Bound - length(j) = m
      <4>1. first <= j
        BY <1>4, <3>3
      <4>. HIDE DEF length, Bound
      <4>. QED BY <2>1, <3>2, <3>3, <4>1
    <3>4. CASE Bound - length(j) # m
      <4>1. \A a, b, bound \in Nat : a # b /\ bound - b <= bound - a => a < b
        OBVIOUS
      <4>2. length(j) # length(first) /\ Bound - length(first) <= Bound - length(j)
        BY <2>1, <3>1, <3>4
      <4>. HIDE DEF length, Bound
      <4>. QED BY <3>2, <4>1, <4>2
    <3>. QED BY <3>3, <3>4
  <2>. QED BY <2>1, <2>2
<1>6. \E i \in Matching(rules, subject) : \A j \in Matching(rules, subject) :
        \/ Length(rules[j]) < Length(rules[i])
        \/ Length(rules[j]) = Length(rules[i]) /\ i <= j
  BY <1>5
<1>. HIDE DEF M
<1>. QED BY <1>6 DEF Chosen, Deciding

LEMMA LengthsOfMatching ==
  ASSUME NEW rules, NEW subject, Rules(rules), NEW i \in Matching(rules, subject)
  PROVE  i \in DOMAIN rules /\ i \in Nat /\ Length(rules[i]) \in Nat
<1>1. i \in DOMAIN rules /\ i \in Nat /\ Len(rules[i].text) \in Nat
  BY DEF Rules, Matching
<1>2. Length(rules[i]) \in {Len(rules[i].text), Len(rules[i].text) + 1}
  BY <1>1, LengthOfRule
<1>3. Length(rules[i]) = Len(rules[i].text) \/ Length(rules[i]) = Len(rules[i].text) + 1
  BY <1>2
<1>. QED BY <1>1, <1>3

(* A rule that is chosen matches, and none that matches is longer.         *)
LEMMA ChosenIsLongest ==
  ASSUME NEW rules, NEW subject, Len(subject) \in Nat, Rules(rules),
         Matching(rules, subject) # {}
  PROVE  /\ Chosen(rules, subject) \in Matching(rules, subject)
         /\ \A j \in Matching(rules, subject) :
              Length(rules[j]) <= Length(rules[Chosen(rules, subject)])
BY ChosenDecides, LengthsOfMatching DEF Deciding

LEMMA OneDecides ==
  ASSUME NEW rules, NEW subject, Rules(rules), NEW i, NEW j,
         Deciding(rules, subject, i), Deciding(rules, subject, j)
  PROVE  i = j
<1>1. i \in Matching(rules, subject) /\ j \in Matching(rules, subject)
  BY DEF Deciding
<1>2. /\ i \in Nat /\ j \in Nat
      /\ Length(rules[i]) \in Nat /\ Length(rules[j]) \in Nat
  BY <1>1, LengthsOfMatching
<1>. QED BY <1>1, <1>2 DEF Deciding

(* One rule decides what a subject may do: the first of the longest that   *)
(* match it (internal/policy/policy.go:92, 96).                           *)
THEOREM OneRuleDecides ==
  ASSUME NEW rules, NEW subject, Len(subject) \in Nat, Rules(rules),
         NEW i, Deciding(rules, subject, i), NEW capability
  PROVE  Evaluate(rules, subject, capability) <=>
           capability \notin AlwaysDeny /\ Permits(rules[i], capability)
<1>1. Matching(rules, subject) # {}
  BY DEF Deciding
<1>2. Chosen(rules, subject) = i
  BY <1>1, ChosenDecides, OneDecides
<1>. QED BY <1>1, <1>2 DEF Evaluate

(* Rules that do not match a subject have no part in what it may do.       *)
THEOREM OtherRulesDoNotMatter ==
  ASSUME NEW rules, NEW others, NEW subject, Len(subject) \in Nat,
         Rules(rules), Rules(others),
         Matching(rules, subject) = Matching(others, subject),
         \A i \in Matching(rules, subject) : rules[i] = others[i],
         NEW capability
  PROVE  Evaluate(rules, subject, capability) <=> Evaluate(others, subject, capability)
<1>1. CASE Matching(rules, subject) = {}
  BY <1>1 DEF Evaluate
<1>2. CASE Matching(rules, subject) # {}
  <2>. DEFINE c == Chosen(rules, subject)
  <2>1. Deciding(rules, subject, c)
    BY <1>2, ChosenDecides
  <2>. HIDE DEF c
  <2>2. rules[c] = others[c] /\ Deciding(others, subject, c)
    BY <2>1 DEF Deciding
  <2>. QED BY <2>1, <2>2, OneRuleDecides
<1>. QED BY <1>1, <1>2

(* A rule that is added at the end changes what a subject may do only if   *)
(* it matches and is longer than the rule that decided before, or if no    *)
(* rule matched (internal/policy/policy.go:96).                            *)
THEOREM LaterRuleMustBeLonger ==
  ASSUME NEW S, NEW rules \in Seq(S), NEW rule \in S, NEW subject, Len(subject) \in Nat,
         \A r \in S : Len(r.text) \in Nat,
         NEW i, Deciding(rules, subject, i),
         ~Matches(rule, subject) \/ Length(rule) <= Length(rules[i]),
         NEW capability
  PROVE  Evaluate(Append(rules, rule), subject, capability)
           <=> Evaluate(rules, subject, capability)
<1>. DEFINE longer == Append(rules, rule)
            n == Len(rules)
<1>1. /\ n \in Nat /\ DOMAIN rules = 1 .. n /\ DOMAIN longer = 1 .. n + 1
      /\ \A j \in 1 .. n : longer[j] = rules[j] /\ rules[j] \in S
      /\ longer[n + 1] = rule
  BY AppendProperties, LenProperties, ElementOfSeq
<1>. HIDE DEF longer, n
<1>2. \A j \in 1 .. n + 1 : j \in 1 .. n \/ j = n + 1
  BY <1>1
<1>3. Rules(rules) /\ Rules(longer)
  BY <1>1, <1>2 DEF Rules
<1>4. i \in Matching(rules, subject) /\ i \in 1 .. n
  BY <1>1 DEF Deciding, Matching
<1>5. i \in Nat /\ Length(rules[i]) \in Nat /\ longer[i] = rules[i]
  BY <1>1, <1>3, <1>4, LengthsOfMatching
<1>6. i \in Matching(longer, subject)
  BY <1>1, <1>2, <1>4, <1>5 DEF Matching
<1>7. ASSUME NEW j \in Matching(longer, subject)
      PROVE  \/ Length(longer[j]) < Length(longer[i])
             \/ Length(longer[j]) = Length(longer[i]) /\ i <= j
  <2>1. Length(longer[j]) \in Nat /\ j \in Nat /\ j \in 1 .. n + 1
    BY <1>1, <1>3, LengthsOfMatching DEF Matching
  <2>2. CASE j \in 1 .. n
    <3>1. j \in Matching(rules, subject)
      BY <1>1, <2>2 DEF Matching
    <3>. QED BY <1>1, <1>5, <2>2, <3>1 DEF Deciding
  <2>3. CASE j = n + 1
    <3>1. Length(longer[j]) <= Length(longer[i])
      BY <1>1, <1>5, <2>3 DEF Matching
    <3>2. i <= j
      BY <1>1, <1>4, <2>3
    <3>. QED BY <1>5, <2>1, <3>1, <3>2
  <2>. QED BY <1>2, <2>1, <2>2, <2>3
<1>8. Deciding(longer, subject, i)
  BY <1>6, <1>7 DEF Deciding
<1>. QED BY <1>3, <1>5, <1>8, OneRuleDecides DEF longer

-----------------------------------------------------------------------------
(* Versions.  Order compares two segments, and Compare decides by the      *)
(* first segments that differ; beyond both versions no segments do.        *)
Equal(a, b, i) == Order(Segment(a, i), Segment(b, i)) = 0

FirstDiffers(a, b, i) ==
  /\ i \in Nat \ {0}
  /\ ~Equal(a, b, i)
  /\ \A j \in Nat \ {0} : j < i => Equal(a, b, j)

LEMMA OrderOfSegments ==
  ASSUME NEW x \in Segments, NEW y \in Segments
  PROVE  /\ Order(x, y) \in {-1, 0, 1}
         /\ Order(x, x) = 0
         /\ Order(y, x) = -Order(x, y)
<1>1. CASE x \in Numeric /\ y \in Numeric
  <2>1. Value[x] \in Nat /\ Value[y] \in Nat
    BY <1>1, RegistrySegments
  <2>. QED BY <1>1, <2>1 DEF Order, Sign
<1>2. CASE ~(x \in Numeric /\ y \in Numeric)
  <2>1. /\ Rank[x] \in Nat /\ Rank[y] \in Nat
        /\ x \in Numeric => Value[x] \in Nat
    BY RegistrySegments
  <2>. QED BY <1>2, <2>1 DEF Order, Sign
<1>. QED BY <1>1, <1>2

LEMMA SegmentsOf ==
  ASSUME NEW S, Zero \in S, NEW version \in Seq(S), NEW i \in Nat \ {0}
  PROVE  Segment(version, i) \in S
<1>1. Len(version) \in Nat /\ \A j \in 1 .. Len(version) : version[j] \in S
  BY LenProperties, ElementOfSeq
<1>. QED BY <1>1 DEF Segment

LEMMA EqualBeyond ==
  ASSUME NEW a \in Seq(Segments), NEW b \in Seq(Segments), NEW i \in Nat \ {0},
         i > Len(a), i > Len(b)
  PROVE  Equal(a, b, i)
<1>1. Len(a) \in Nat /\ Len(b) \in Nat
  OBVIOUS
<1>2. Segment(a, i) = Zero /\ Segment(b, i) = Zero
  BY <1>1 DEF Segment
<1>3. Zero \in Segments
  BY RegistrySegments
<1>. QED BY <1>2, <1>3, OrderOfSegments DEF Equal

LEMMA CompareDecides ==
  ASSUME NEW a \in Seq(Segments), NEW b \in Seq(Segments), NEW i, FirstDiffers(a, b, i)
  PROVE  Compare(a, b) = Order(Segment(a, i), Segment(b, i))
<1>. DEFINE n == IF Len(a) > Len(b) THEN Len(a) ELSE Len(b)
            differ == {j \in 1 .. n : Order(Segment(a, j), Segment(b, j)) # 0}
            first == CHOOSE j \in differ : \A k \in differ : j <= k
<1>1. n \in Nat /\ n >= Len(a) /\ n >= Len(b) /\ Len(a) \in Nat /\ Len(b) \in Nat
  OBVIOUS
<1>2. i \in Nat \ {0} /\ Order(Segment(a, i), Segment(b, i)) # 0
  BY DEF FirstDiffers, Equal
<1>3. i <= n
  <2>. SUFFICES ASSUME i > n PROVE FALSE
    BY <1>1, <1>2
  <2>. HIDE DEF n
  <2>1. i > Len(a) /\ i > Len(b)
    BY <1>1, <1>2
  <2>. QED BY <1>2, <2>1, EqualBeyond DEF FirstDiffers
<1>4. i \in differ
  <2>. HIDE DEF n
  <2>. QED BY <1>1, <1>2, <1>3
<1>5. ASSUME NEW j \in differ PROVE i <= j
  <2>1. j \in Nat \ {0} /\ ~Equal(a, b, j)
    <3>. HIDE DEF n
    <3>. QED BY <1>1 DEF Equal
  <2>. QED BY <1>2, <2>1 DEF FirstDiffers
<1>6. first \in differ /\ \A k \in differ : first <= k
  <2>. HIDE DEF differ
  <2>. QED BY <1>4, <1>5
<1>7. first = i
  <2>1. first \in Nat
    <3>. HIDE DEF n, first
    <3>. QED BY <1>1, <1>6
  <2>. HIDE DEF differ, first
  <2>. QED BY <1>2, <1>4, <1>5, <1>6, <2>1
<1>8. Compare(a, b) = IF differ = {} THEN 0 ELSE Order(Segment(a, first), Segment(b, first))
  BY DEF Compare
<1>. HIDE DEF differ, first
<1>. QED BY <1>4, <1>7, <1>8

LEMMA CompareOfEqual ==
  ASSUME NEW a \in Seq(Segments), NEW b \in Seq(Segments),
         \A i \in Nat \ {0} : Equal(a, b, i)
  PROVE  Compare(a, b) = 0
<1>. DEFINE n == IF Len(a) > Len(b) THEN Len(a) ELSE Len(b)
            differ == {j \in 1 .. n : Order(Segment(a, j), Segment(b, j)) # 0}
<1>1. n \in Nat
  OBVIOUS
<1>2. differ = {}
  <2>. HIDE DEF n
  <2>. QED BY <1>1 DEF Equal
<1>. QED BY <1>2 DEF Compare

LEMMA EqualOrDiffer ==
  ASSUME NEW a, NEW b
  PROVE  \/ \A i \in Nat \ {0} : Equal(a, b, i)
         \/ \E i \in Nat \ {0} : FirstDiffers(a, b, i)
<1>. SUFFICES ASSUME ~ \A i \in Nat \ {0} : Equal(a, b, i)
              PROVE  \E i \in Nat \ {0} : FirstDiffers(a, b, i)
  OBVIOUS
<1>. DEFINE D == {i \in Nat \ {0} : ~Equal(a, b, i)}
<1>1. PICK i \in D : \A j \in D : i <= j
  <2>1. D \in SUBSET Nat /\ D # {}
    OBVIOUS
  <2>. HIDE DEF D
  <2>. QED BY <2>1, Least
<1>2. i \in Nat \ {0} /\ ~Equal(a, b, i)
  BY <1>1
<1>3. \A j \in Nat \ {0} : j < i => Equal(a, b, j)
  BY <1>1, <1>2
<1>. QED BY <1>2, <1>3 DEF FirstDiffers

(* Two versions compare the same way seen from either side, and a version  *)
(* is equal to itself (internal/registry/registry.go:262): ">=" and "<="   *)
(* are opposites, and "=" is met by the version that was asked for.        *)
THEOREM CompareIsAntisymmetric ==
  ASSUME NEW a \in Seq(Segments), NEW b \in Seq(Segments)
  PROVE  /\ Compare(a, b) \in {-1, 0, 1}
         /\ Compare(b, a) = -Compare(a, b)
         /\ Compare(a, a) = 0
<1>1. Zero \in Segments
  BY RegistrySegments
<1>2. \A i \in Nat \ {0} : Segment(a, i) \in Segments /\ Segment(b, i) \in Segments
  BY <1>1, SegmentsOf
<1>3. \A i \in Nat \ {0} : Equal(a, b, i) <=> Equal(b, a, i)
  <2>. TAKE i \in Nat \ {0}
  <2>. DEFINE x == Segment(a, i)
              y == Segment(b, i)
  <2>1. /\ Order(x, y) \in {-1, 0, 1}
        /\ Order(y, x) = -Order(x, y)
    BY <1>2, OrderOfSegments
  <2>. QED BY <2>1 DEF Equal
<1>4. Compare(a, a) = 0
  <2>1. \A i \in Nat \ {0} : Equal(a, a, i)
    BY <1>2, OrderOfSegments DEF Equal
  <2>. QED BY <2>1, CompareOfEqual
<1>5. CASE \A i \in Nat \ {0} : Equal(a, b, i)
  <2>1. Compare(a, b) = 0 /\ Compare(b, a) = 0
    BY <1>3, <1>5, CompareOfEqual
  <2>2. \A m, n \in Int : m + n = 0 => n = -m
    OBVIOUS
  <2>3. 0 \in {-1, 0, 1} /\ 0 \in Int /\ 0 + 0 = 0
    OBVIOUS
  <2>4. 0 = -0
    BY <2>2, <2>3, Zenon
  <2>. QED BY <1>4, <2>1, <2>3, <2>4, Zenon
<1>6. ASSUME NEW i \in Nat \ {0}, FirstDiffers(a, b, i)
      PROVE  Compare(a, b) \in {-1, 0, 1} /\ Compare(b, a) = -Compare(a, b)
  <2>1. FirstDiffers(b, a, i)
    BY <1>3, <1>6 DEF FirstDiffers
  <2>2. /\ Compare(a, b) = Order(Segment(a, i), Segment(b, i))
        /\ Compare(b, a) = Order(Segment(b, i), Segment(a, i))
    BY <1>6, <2>1, CompareDecides
  <2>3. Segment(a, i) \in Segments /\ Segment(b, i) \in Segments
    BY <1>2
  <2>. QED BY <2>2, <2>3, OrderOfSegments
<1>7. CASE \E i \in Nat \ {0} : FirstDiffers(a, b, i)
  BY <1>4, <1>6, <1>7, Zenon
<1>8. \/ \A i \in Nat \ {0} : Equal(a, b, i)
      \/ \E i \in Nat \ {0} : FirstDiffers(a, b, i)
  BY EqualOrDiffer
<1>. QED BY <1>5, <1>7, <1>8, Zenon

(* Segments "0" at the end of a version make no difference: 6000.0 is      *)
(* 6000.0.0 (internal/registry/registry.go:269).                           *)
THEOREM TrailingZerosDoNotMatter ==
  ASSUME NEW a \in Seq(Segments), NEW b \in Seq(Segments)
  PROVE  Compare(Append(a, Zero), b) = Compare(a, b)
<1>. DEFINE longer == Append(a, Zero)
<1>1. Zero \in Segments
  BY RegistrySegments
<1>2. /\ longer \in Seq(Segments) /\ Len(a) \in Nat
      /\ Len(longer) = Len(a) + 1
      /\ \A i \in 1 .. Len(a) : longer[i] = a[i]
      /\ longer[Len(a) + 1] = Zero
  BY <1>1, AppendProperties
<1>. HIDE DEF longer
<1>3. ASSUME NEW i \in Nat \ {0}
      PROVE  Segment(longer, i) = Segment(a, i)
  <2>1. CASE i <= Len(a)
    BY <1>2, <2>1 DEF Segment
  <2>2. CASE i = Len(a) + 1
    BY <1>2, <2>2 DEF Segment
  <2>3. CASE i > Len(a) + 1
    BY <1>2, <2>3 DEF Segment
  <2>. QED BY <1>2, <2>1, <2>2, <2>3
<1>4. CASE \A i \in Nat \ {0} : Equal(a, b, i)
  <2>1. \A i \in Nat \ {0} : Equal(longer, b, i)
    BY <1>3, <1>4 DEF Equal
  <2>. QED BY <1>2, <1>4, <2>1, CompareOfEqual DEF longer
<1>5. ASSUME NEW i \in Nat \ {0}, FirstDiffers(a, b, i)
      PROVE  Compare(longer, b) = Compare(a, b)
  <2>1. FirstDiffers(longer, b, i)
    BY <1>3, <1>5 DEF FirstDiffers, Equal
  <2>2. Compare(longer, b) = Order(Segment(longer, i), Segment(b, i))
    BY <1>2, <2>1, CompareDecides
  <2>3. Compare(a, b) = Order(Segment(a, i), Segment(b, i))
    BY <1>5, CompareDecides
  <2>. QED BY <1>3, <2>2, <2>3
<1>. QED BY <1>4, <1>5, EqualOrDiffer DEF longer

(* Versions of numbers. *)
Number(version, i) == Value[Segment(version, i)]

Below(a, b, i) ==
  /\ i \in Nat \ {0}
  /\ Number(a, i) < Number(b, i)
  /\ \A j \in Nat \ {0} : j < i => Number(a, j) = Number(b, j)

LEMMA NumbersOf ==
  ASSUME NEW a \in Seq(Numeric)
  PROVE  /\ a \in Seq(Segments)
         /\ \A i \in Nat \ {0} : Segment(a, i) \in Numeric /\ Number(a, i) \in Nat
<1>1. Zero \in Numeric /\ Numeric \subseteq Segments /\ Value \in [Numeric -> Nat]
  BY RegistrySegments
<1>2. a \in Seq(Segments)
  BY <1>1
<1>3. \A i \in Nat \ {0} : Segment(a, i) \in Numeric
  BY <1>1, SegmentsOf
<1>. QED BY <1>1, <1>2, <1>3 DEF Number

LEMMA OrderOfNumbers ==
  ASSUME NEW a \in Seq(Numeric), NEW b \in Seq(Numeric), NEW i \in Nat \ {0}
  PROVE  /\ Equal(a, b, i) <=> Number(a, i) = Number(b, i)
         /\ Order(Segment(a, i), Segment(b, i)) < 0 <=> Number(a, i) < Number(b, i)
<1>. DEFINE x == Segment(a, i)
            y == Segment(b, i)
<1>1. x \in Numeric /\ y \in Numeric /\ Value[x] \in Nat /\ Value[y] \in Nat
  BY NumbersOf DEF Number
<1>2. Order(x, y) = Sign(Value[x] - Value[y])
  BY <1>1 DEF Order
<1>. HIDE DEF x, y
<1>3. /\ Order(x, y) = 0 <=> Value[x] = Value[y]
      /\ Order(x, y) < 0 <=> Value[x] < Value[y]
  BY <1>1, <1>2 DEF Sign
<1>. QED BY <1>3 DEF Equal, Number, x, y

LEMMA CompareOfNumbers ==
  ASSUME NEW a \in Seq(Numeric), NEW b \in Seq(Numeric)
  PROVE  /\ Compare(a, b) \in {-1, 0, 1}
         /\ Compare(a, b) = 0 <=> \A i \in Nat \ {0} : Number(a, i) = Number(b, i)
         /\ Compare(a, b) < 0 <=> \E i \in Nat \ {0} : Below(a, b, i)
<1>1. a \in Seq(Segments) /\ b \in Seq(Segments)
  BY NumbersOf
<1>2. Compare(a, b) \in {-1, 0, 1}
  BY <1>1, CompareIsAntisymmetric
<1>3. \A i \in Nat \ {0} : Equal(a, b, i) <=> Number(a, i) = Number(b, i)
  BY OrderOfNumbers
<1>4. \A i : Below(a, b, i) => FirstDiffers(a, b, i)
  <2>1. \A i \in Nat \ {0} : Number(a, i) \in Nat /\ Number(b, i) \in Nat
    BY NumbersOf
  <2>. QED BY <1>3, <2>1 DEF Below, FirstDiffers
<1>5. CASE \A i \in Nat \ {0} : Equal(a, b, i)
  <2>1. Compare(a, b) = 0
    BY <1>1, <1>5, CompareOfEqual
  <2>2. ~ \E i \in Nat \ {0} : Below(a, b, i)
    BY <1>4, <1>5 DEF FirstDiffers
  <2>. QED BY <1>2, <1>3, <1>5, <2>1, <2>2
<1>6. ASSUME NEW i \in Nat \ {0}, FirstDiffers(a, b, i)
      PROVE  /\ Compare(a, b) = 0 <=> \A k \in Nat \ {0} : Number(a, k) = Number(b, k)
             /\ Compare(a, b) < 0 <=> \E k \in Nat \ {0} : Below(a, b, k)
  <2>1. Compare(a, b) = Order(Segment(a, i), Segment(b, i))
    BY <1>1, <1>6, CompareDecides
  <2>2. Compare(a, b) # 0 /\ Number(a, i) # Number(b, i)
    BY <1>3, <1>6, <2>1 DEF FirstDiffers, Equal
  <2>3. Compare(a, b) < 0 <=> Number(a, i) < Number(b, i)
    BY <2>1, OrderOfNumbers
  <2>4. Number(a, i) < Number(b, i) => Below(a, b, i)
    BY <1>3, <1>6 DEF FirstDiffers, Below
  <2>5. \A k \in Nat \ {0} : Below(a, b, k) => k = i
    BY <1>4, <1>6 DEF FirstDiffers
  <2>6. (\E k \in Nat \ {0} : Below(a, b, k)) => Number(a, i) < Number(b, i)
    BY <2>5 DEF Below
  <2>. QED BY <2>2, <2>3, <2>4, <2>6
<1>. QED BY <1>2, <1>5, <1>6, EqualOrDiffer

(* Versions of numbers are ordered (internal/registry/registry.go:262):    *)
(* what is no later than a version that is no later than a third is no     *)
(* later than the third, and equal to it only if all three are equal.      *)
(* Versions with other segments are not: 10 is after 9, 9 is after 1x as   *)
(* strings are compared, and 1x is after 10.                               *)
THEOREM NumbersAreOrdered ==
  ASSUME NEW a \in Seq(Numeric), NEW b \in Seq(Numeric), NEW c \in Seq(Numeric),
         Compare(a, b) <= 0, Compare(b, c) <= 0
  PROVE  /\ Compare(a, c) <= 0
         /\ Compare(a, c) = 0 => Compare(a, b) = 0 /\ Compare(b, c) = 0
<1>. DEFINE Pos == Nat \ {0}
<1>1. \A i \in Pos : Number(a, i) \in Nat /\ Number(b, i) \in Nat /\ Number(c, i) \in Nat
  BY NumbersOf
<1>2. /\ Compare(a, b) = 0 \/ Compare(a, b) < 0
      /\ Compare(b, c) = 0 \/ Compare(b, c) < 0
  BY CompareOfNumbers
<1>3. CASE Compare(a, b) = 0
  <2>1. \A i \in Pos : Number(a, i) = Number(b, i)
    BY <1>3, CompareOfNumbers
  <2>2. \A i \in Pos : Below(b, c, i) => Below(a, c, i)
    BY <2>1 DEF Below
  <2>3. CASE Compare(b, c) = 0
    <3>1. \A i \in Pos : Number(a, i) = Number(c, i)
      BY <2>1, <2>3, CompareOfNumbers
    <3>2. Compare(a, c) = 0
      BY <3>1, CompareOfNumbers
    <3>. QED BY <1>3, <2>3, <3>2
  <2>4. CASE Compare(b, c) < 0
    <3>1. Compare(a, c) < 0
      BY <2>2, <2>4, CompareOfNumbers
    <3>2. Compare(a, c) \in {-1, 0, 1}
      BY CompareOfNumbers
    <3>. QED BY <3>1, <3>2
  <2>. QED BY <1>2, <2>3, <2>4
<1>4. CASE Compare(a, b) < 0
  <2>1. PICK i \in Pos : Below(a, b, i)
    BY <1>4, CompareOfNumbers
  <2>2. \E k \in Pos : Below(a, c, k)
    <3>1. CASE Compare(b, c) = 0
      <4>1. \A j \in Pos : Number(b, j) = Number(c, j)
        BY <3>1, CompareOfNumbers
      <4>. QED BY <2>1, <4>1 DEF Below
    <3>2. CASE Compare(b, c) < 0
      <4>1. PICK j \in Pos : Below(b, c, j)
        BY <3>2, CompareOfNumbers
      <4>2. CASE i <= j
        <5>1. Number(b, i) <= Number(c, i)
          <6>1. CASE i < j
            BY <1>1, <2>1, <4>1, <6>1 DEF Below
          <6>2. CASE i = j
            BY <1>1, <2>1, <4>1, <6>2 DEF Below
          <6>. QED BY <2>1, <4>1, <4>2, <6>1, <6>2
        <5>2. \A k \in Pos : k < i => Number(a, k) = Number(c, k)
          BY <2>1, <4>1, <4>2 DEF Below
        <5>3. Number(a, i) < Number(c, i)
          BY <1>1, <2>1, <5>1 DEF Below
        <5>. QED BY <2>1, <5>2, <5>3 DEF Below
      <4>3. CASE j < i
        <5>1. Number(a, j) < Number(c, j)
          BY <1>1, <2>1, <4>1, <4>3 DEF Below
        <5>2. \A k \in Pos : k < j => Number(a, k) = Number(c, k)
          BY <2>1, <4>1, <4>3 DEF Below
        <5>. QED BY <5>1, <5>2, <4>1 DEF Below
      <4>. QED BY <2>1, <4>1, <4>2, <4>3
    <3>. QED BY <1>2, <3>1, <3>2
  <2>3. Compare(a, c) < 0 /\ Compare(a, c) \in {-1, 0, 1}
    BY <2>2, CompareOfNumbers
  <2>. QED BY <2>3
<1>. QED BY <1>2, <1>3, <1>4

(* A table of tools as the registry keeps it, and a requirement. *)
ToolTable(table) ==
  \A t \in DOMAIN table : t \in Nat /\ table[t].version \in Seq(Segments)

Fitting(table, requirement) ==
  {t \in Candidates(table, requirement) : Satisfies(table[t].version, requirement)}

LEMMA ScoreIs ==
  ASSUME NEW version \in Seq(Segments), NEW requirement,
         requirement.version \in Seq(Segments)
  PROVE  /\ Score(version, requirement) \in {-1, 0, 1, 2}
         /\ Score(version, requirement) >= 0 <=> Satisfies(version, requirement)
<1>. DEFINE c == Compare(version, requirement.version)
<1>1. c \in {-1, 0, 1}
  BY CompareIsAntisymmetric
<1>. HIDE DEF c
<1>2. c + 1 \in {0, 1, 2}
  BY <1>1
<1>3. Score(version, requirement)
        = IF ~Satisfies(version, requirement) THEN -1
          ELSE IF requirement.version = <<>> THEN 0 ELSE c + 1
  BY DEF Score, c
<1>4. CASE ~Satisfies(version, requirement)
  BY <1>3, <1>4
<1>5. CASE Satisfies(version, requirement)
  <2>1. Score(version, requirement) = 0 \/ Score(version, requirement) = c + 1
    BY <1>3, <1>5
  <2>. QED BY <1>2, <1>5, <2>1
<1>. QED BY <1>4, <1>5

(* A requirement is resolved to one tool, the first of the best, and to    *)
(* none only if no enabled tool of the type meets it                       *)
(* (internal/registry/registry.go:191).                                    *)
THEOREM ResolveFindsOne ==
  ASSUME NEW table, ToolTable(table),
         NEW requirement, requirement.version \in Seq(Segments)
  PROVE  /\ Fitting(table, requirement) # {} => Resolved(table, requirement) # {}
         /\ Resolved(table, requirement) \subseteq Fitting(table, requirement)
         /\ \A t, u \in Resolved(table, requirement) : t = u
<1>. DEFINE score(t) == Score(table[t].version, requirement)
            fit == {t \in Candidates(table, requirement) : score(t) >= 0}
            beats(t, u) == score(u) < score(t) \/ (score(u) = score(t) /\ t <= u)
<1>1. \A t \in Candidates(table, requirement) :
        /\ t \in Nat
        /\ score(t) \in {-1, 0, 1, 2}
        /\ score(t) >= 0 <=> Satisfies(table[t].version, requirement)
  BY ScoreIs DEF Candidates, ToolTable
<1>2. fit = Fitting(table, requirement)
  BY <1>1 DEF Fitting
<1>3. Resolved(table, requirement) = {t \in fit : \A u \in fit : beats(t, u)}
  BY DEF Resolved
<1>4. \A t \in fit : t \in Nat /\ score(t) \in {0, 1, 2}
  BY <1>1
<1>. HIDE DEF score, fit
<1>5. ASSUME fit # {}
      PROVE  \E t \in fit : \A u \in fit : beats(t, u)
  <2>. DEFINE short == {2 - score(t) : t \in fit}
  <2>1. PICK m \in short : \A n \in short : m <= n
    <3>1. short \in SUBSET Nat /\ short # {}
      BY <1>4, <1>5
    <3>. HIDE DEF short
    <3>. QED BY <3>1, Least
  <2>. DEFINE best == {t \in fit : 2 - score(t) = m}
  <2>2. PICK t \in best : \A u \in best : t <= u
    <3>1. best \in SUBSET Nat /\ best # {}
      BY <1>4, <2>1
    <3>. HIDE DEF best
    <3>. QED BY <3>1, Least
  <2>3. t \in fit /\ 2 - score(t) = m
    BY <2>2
  <2>4. ASSUME NEW u \in fit PROVE beats(t, u)
    <3>1. m <= 2 - score(u)
      BY <2>1
    <3>2. CASE 2 - score(u) = m
      <4>1. t <= u
        BY <2>2, <3>2
      <4>. QED BY <1>4, <2>3, <3>2, <4>1
    <3>3. CASE 2 - score(u) # m
      BY <1>4, <2>3, <3>1, <3>3
    <3>. QED BY <3>2, <3>3
  <2>. QED BY <2>3, <2>4
<1>6. ASSUME NEW t \in fit, NEW u \in fit, beats(t, u), beats(u, t)
      PROVE  t = u
  BY <1>4, <1>6
<1>. HIDE DEF beats
<1>7. \A t, u \in Resolved(table, requirement) : t = u
  BY <1>3, <1>6
<1>8. fit # {} => Resolved(table, requirement) # {}
  BY <1>3, <1>5
<1>9. Resolved(table, requirement) \subseteq fit
  BY <1>3
<1>. QED BY <1>2, <1>7, <1>8, <1>9

(* A tool that a requirement is resolved to meets it.                      *)
LEMMA ResolvedSatisfies ==
  ASSUME NEW table, NEW requirement, NEW t \in Resolved(table, requirement)
  PROVE  /\ t \in DOMAIN table
         /\ SameType(table[t].type, requirement.type)
         /\ Satisfies(table[t].version, requirement)
<1>1. t \in Candidates(table, requirement) /\ Score(table[t].version, requirement) >= 0
  BY DEF Resolved
<1>2. Satisfies(table[t].version, requirement)
  BY <1>1 DEF Score
<1>. QED BY <1>1, <1>2 DEF Candidates

-----------------------------------------------------------------------------
(* An environment that was built: nothing denied, isolated roots replaced, *)
(* and no value of the daemon's but those inherited and the copies.        *)
Isolates(cfg, n, value) ==
  /\ ~Denied(cfg.deny, n)
  /\ n \in Isolated(cfg) => value \in {Private, Fixed}
  /\ value.from = "host" =>
       \/ value = Host(n) /\ Inherits(cfg.inherit, n)
       \/ n = Original[value.name] /\ value.name \in Isolated(cfg) \cap DOMAIN Original

LEMMA BuildIsolates ==
  ASSUME NEW cfg, NEW host, NEW n \in DOMAIN Build(cfg, host)
  PROVE  Isolates(cfg, n, Build(cfg, host)[n])
<1>. DEFINE copies == {Original[m] : m \in Copied(cfg, host)}
            names == Inherited(cfg, host) \cup copies \cup Isolated(cfg) \cup Given(cfg)
            value == Build(cfg, host)[n]
<1>1. n \in names /\ ~Denied(cfg.deny, n)
  BY DEF Build
<1>2. value = IF n \in Given(cfg) THEN Fixed
              ELSE IF n \in Isolated(cfg) THEN Private
              ELSE IF n \in copies
                THEN Host(CHOOSE root \in Copied(cfg, host) : Original[root] = n)
              ELSE Host(n)
  BY <1>1 DEF Build
<1>3. Fixed.from # "host" /\ Private.from # "host"
  BY DEF Fixed, Private
<1>4. CASE n \in Given(cfg) \/ n \in Isolated(cfg)
  <2>1. value \in {Private, Fixed}
    BY <1>2, <1>4
  <2>2. value.from # "host"
    <3>. HIDE DEF value
    <3>. QED BY <1>3, <2>1
  <2>. HIDE DEF value
  <2>3. Isolates(cfg, n, value)
    BY <1>1, <2>1, <2>2 DEF Isolates
  <2>. QED BY <2>3 DEF value
<1>5. CASE n \notin Given(cfg) /\ n \notin Isolated(cfg) /\ n \in copies
  <2>. DEFINE root == CHOOSE m \in Copied(cfg, host) : Original[m] = n
  <2>1. Original[root] = n /\ root \in Copied(cfg, host)
    BY <1>5
  <2>2. value = Host(root)
    BY <1>2, <1>5
  <2>. HIDE DEF root, value, names
  <2>3. value.name = root /\ root \in Isolated(cfg) \cap DOMAIN Original
    BY <2>1, <2>2 DEF Host, Copied
  <2>4. Isolates(cfg, n, value)
    BY <1>1, <1>5, <2>1, <2>3 DEF Isolates
  <2>. QED BY <2>4 DEF value
<1>6. CASE n \notin Given(cfg) /\ n \notin Isolated(cfg) /\ n \notin copies
  <2>1. value = Host(n) /\ Inherits(cfg.inherit, n)
    BY <1>1, <1>2, <1>6 DEF Inherited
  <2>. HIDE DEF value, names
  <2>2. Isolates(cfg, n, value)
    BY <1>1, <1>6, <2>1 DEF Isolates
  <2>. QED BY <2>2 DEF value
<1>. QED BY <1>4, <1>5, <1>6

(* What a process may see of the daemon's environment: the names that are  *)
(* inherited, and the isolated roots that have a copy.                     *)
Visible(cfg, n) ==
  \/ ~Denied(cfg.deny, n) /\ Inherits(cfg.inherit, n)
  \/ n \in Isolated(cfg) /\ n \in DOMAIN Original

(* The environment that is built has values of no other variable of the    *)
(* daemon and does not depend on which others there are                    *)
(* (internal/env/env.go:96).                                               *)
THEOREM OnlyTheVisibleMatters ==
  ASSUME NEW cfg, NEW host, NEW other,
         \A n : Visible(cfg, n) => (n \in host <=> n \in other)
  PROVE  /\ Build(cfg, host) = Build(cfg, other)
         /\ \A n \in DOMAIN Build(cfg, host) :
              Build(cfg, host)[n].from = "host" => Visible(cfg, Build(cfg, host)[n].name)
<1>1. Copied(cfg, host) = Copied(cfg, other)
  BY DEF Copied, Visible
<1>2. Inherited(cfg, host) = Inherited(cfg, other)
  BY DEF Inherited, Visible
<1>3. Build(cfg, host) = Build(cfg, other)
  BY <1>1, <1>2 DEF Build
<1>4. ASSUME NEW n \in DOMAIN Build(cfg, host), Build(cfg, host)[n].from = "host"
      PROVE  Visible(cfg, Build(cfg, host)[n].name)
  <2>. DEFINE value == Build(cfg, host)[n]
  <2>1. Isolates(cfg, n, value)
    BY BuildIsolates
  <2>2. value.from = "host"
    BY <1>4
  <2>. HIDE DEF value
  <2>3. value = Host(n) => value.name = n
    BY DEF Host
  <2>4. Visible(cfg, value.name)
    BY <2>1, <2>2, <2>3 DEF Isolates, Visible
  <2>. QED BY <2>4 DEF value
<1>. QED BY <1>3, <1>4

=============================================================================
