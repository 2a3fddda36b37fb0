------------------------------ MODULE Registry ------------------------------
(***************************************************************************)
(* The tool registry (internal/registry/registry.go): versions, their      *)
(* order, and the tool that a requirement is resolved to.                  *)
(*                                                                         *)
(* A version is the sequence of its segments; <<>> is an empty version.    *)
(* Segments of digits compare as numbers, any other pair as strings: Rank  *)
(* is the place of a segment among all of them in the order of strings.    *)
(* Tools are numbered in the order of their ids, which is the order in     *)
(* which List returns them.                                                *)
(***************************************************************************)
EXTENDS Integers, Sequences, FiniteSets

CONSTANTS
  Segments,  \* the segments of versions
  Numeric,   \* those made of digits
  Value,     \* their numbers
  Rank,      \* the place of each segment in the order of strings
  Zero,      \* the segment "0"
  Types,     \* the types of tools, as they are written
  Folded     \* a type without the case of its letters

ASSUME RegistrySegments ==
  /\ Numeric \subseteq Segments
  /\ Zero \in Numeric
  /\ Value \in [Numeric -> Nat]
  /\ Rank \in [Segments -> Nat]

ASSUME RegistryTypes == Folded \in [Types -> Types]

Sign(n) == IF n < 0 THEN -1 ELSE IF n > 0 THEN 1 ELSE 0

Order(x, y) ==
  IF x \in Numeric /\ y \in Numeric
    THEN Sign(Value[x] - Value[y])
    ELSE Sign(Rank[x] - Rank[y])

(* A segment beyond the end of the shorter version is "0". *)
Segment(version, i) == IF i <= Len(version) THEN version[i] ELSE Zero

(* compareVersions: the first segment that differs decides. *)
Compare(a, b) ==
  LET n == IF Len(a) > Len(b) THEN Len(a) ELSE Len(b)
      differ == {i \in 1 .. n : Order(Segment(a, i), Segment(b, i)) # 0}
      first == CHOOSE i \in differ : \A j \in differ : i <= j
  IN  IF differ = {} THEN 0 ELSE Order(Segment(a, first), Segment(b, first))

SameMajor(a, b) == a # <<>> /\ b # <<>> /\ a[1] = b[1]

(* scoreVersion: what cmp must be under a constraint. *)
Within(constraint, cmp, version, required) ==
  CASE constraint \in {"", "="} -> cmp = 0
    [] constraint = ">="        -> cmp >= 0
    [] constraint = ">"         -> cmp > 0
    [] constraint = "<="        -> cmp <= 0
    [] constraint = "<"         -> cmp < 0
    [] constraint = "^"         -> cmp >= 0 /\ SameMajor(version, required)

Satisfies(version, requirement) ==
  \/ requirement.version = <<>>
  \/ /\ version # <<>>
     /\ Within(requirement.constraint, Compare(version, requirement.version),
               version, requirement.version)

(* Mutant: the score is the comparison itself. *)
ScoreIsComparison(version, requirement) ==
  IF ~Satisfies(version, requirement) THEN -1
  ELSE IF requirement.version = <<>> THEN 0
  ELSE Compare(version, requirement.version)

(* The score is the sign of a comparison plus one: a version that is       *)
(* greater than the one required scores 2, however much greater it is.     *)
Score(version, requirement) ==
  IF ~Satisfies(version, requirement) THEN -1
  ELSE IF requirement.version = <<>> THEN 0
  ELSE Compare(version, requirement.version) + 1

(* strings.EqualFold. *)
SameType(a, b) == Folded[a] = Folded[b]

Candidates(tools, requirement) ==
  {t \in DOMAIN tools : ~tools[t].disabled /\ SameType(tools[t].type, requirement.type)}

(* Resolve: the first of the candidates with the best score. *)
Resolved(tools, requirement) ==
  LET ScoreOf(t) == Score(tools[t].version, requirement)
      fit == {t \in Candidates(tools, requirement) : ScoreOf(t) >= 0}
      Beats(t, u) == \/ ScoreOf(u) < ScoreOf(t)
                     \/ ScoreOf(u) = ScoreOf(t) /\ t <= u
  IN  {t \in fit : \A u \in fit : Beats(t, u)}

(* Register keeps what the table has: the configuration beats detection. *)
Detected(tools, found) ==
  [t \in DOMAIN tools \cup DOMAIN found |->
     IF t \in DOMAIN tools THEN tools[t] ELSE found[t]]
=============================================================================
