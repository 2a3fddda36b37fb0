------------------------------- MODULE Policy -------------------------------
(***************************************************************************)
(* The policy engine (internal/policy/policy.go): which rule decides what  *)
(* a subject may do.  A subject is a sequence of letters; the pattern of a *)
(* rule is a text that may end in a star, and matches every subject that   *)
(* begins with the text, with a star or without.                           *)
(***************************************************************************)
EXTENDS Integers, Sequences, SequencesExt

CONSTANTS
  DefaultAllow,  \* capabilities of a subject without a rule
  AlwaysDeny,    \* capabilities that nobody has
  Every            \* "*" in a list of capabilities

ASSUME PolicyAny == Every \notin DefaultAllow \cup AlwaysDeny

Matches(rule, subject) == IsPrefix(rule.text, subject)

(* len(r.Subject): the star counts. *)
Length(rule) == Len(rule.text) + (IF rule.star THEN 1 ELSE 0)

Matching(rules, subject) == {i \in DOMAIN rules : Matches(rules[i], subject)}

Lists(capabilities, capability) ==
  capability \in capabilities \/ Every \in capabilities

(* Mutant: the list of what is allowed is read first, and a match returns. *)
PermitsFirst(rule, capability) == Lists(rule.allow, capability)

(* What a rule that was chosen says. *)
Permits(rule, capability) ==
  ~Lists(rule.deny, capability) /\ Lists(rule.allow, capability)

(* The longest of the rules that match, the first of those. *)
Chosen(rules, subject) ==
  CHOOSE i \in Matching(rules, subject) :
    \A j \in Matching(rules, subject) :
      \/ Length(rules[j]) < Length(rules[i])
      \/ Length(rules[j]) = Length(rules[i]) /\ i <= j

Evaluate(rules, subject, capability) ==
  /\ capability \notin AlwaysDeny
  /\ IF Matching(rules, subject) = {}
       THEN capability \in DefaultAllow
       ELSE Permits(rules[Chosen(rules, subject)], capability)
=============================================================================
