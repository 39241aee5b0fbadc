----------------------------- MODULE PolicyRules -----------------------------
(***************************************************************************)
(* A tenant's policy set: what parse_policy_set accepts (policies.py),     *)
(* which entries select an event (matching.py), and the dedup key an entry *)
(* renders for it (engine.render_dedup_key).                               *)
(*                                                                         *)
(* A template is a sequence of parts: literal text, a placeholder with its *)
(* format spec, or an unbalanced brace.  The conversions !s, !r and !a are *)
(* "plain": each keeps different texts different.                          *)
(***************************************************************************)
EXTENDS Envelopes, Integers, SequencesExt

CONSTANTS
  PolicyIds,
  Patterns,
  Covers,     \* fnmatchcase: pattern -> the texts it matches
  Width, Fill, \* how far a "padded" or "wide" text is padded, and with what
  NoTemplate  \* an entry without an owner_template

\* messaging_refresh stands for the six other consequences.
Consequences == {"messaging_refresh", "channel_publish"}
PolicyModes == {"active", "approval_required", "dry_run"}
PredicateFields == ScalarFields \cup MemberFields

\* nested: a placeholder inside the spec; conversion: an unknown one; mistyped:
\* a spec no text satisfies; cut: a precision of one; padded: a width, like 04;
\* wide: one over 1000.
Specs == {"plain", "nested", "conversion", "mistyped", "cut", "padded", "wide"}

Parts == [name : STRING, text : Seq(Tokens), spec : Specs]
Templates == Seq(Parts)

\* PolicyEntry, without its destination, flags and lists.
Entries == [
  policy_id : PolicyIds, types : SUBSET EventTypes,
  predicates : [PredicateFields -> SUBSET Patterns],
  consequence : Consequences, mode : PolicyModes,
  dedup : Templates, title : Templates, body : Templates,
  owner : Templates \cup {NoTemplate}]

ASSUME RulesAssumption ==
  /\ Covers \in [Patterns -> SUBSET Texts]
  /\ Width \in Nat /\ Fill \in Tokens
  /\ PolicyIds \subseteq Seq(Tokens)
  /\ Consequences \subseteq Tokens

Literal(text) == [name |-> "literal", text |-> text, spec |-> "plain"]
Brace == [name |-> "brace", text |-> <<>>, spec |-> "plain"]
FieldAs(name, spec) == [name |-> name, text |-> <<>>, spec |-> spec]
Field(name) == FieldAs(name, "plain")

Balanced(template) == \A i \in DOMAIN template : template[i].name # "brace"
FieldParts(template) == {i \in DOMAIN template : template[i].name \notin {"literal", "brace"}}

KeyFieldsAlways == {"tenant", "policy_id", "event_id", "event_type", "entity_kind",
                    "entity_id", "scope", "consequence"}
KeyFields == KeyFieldsAlways \cup Conditional

\* dedup_template_fields, which raises unless ParsesAsKey.
ParsesAsKey(template) ==
  /\ Balanced(template)
  /\ \A i \in FieldParts(template) : template[i].spec \notin {"nested", "conversion"}

ReferencedFields(template) == {template[i].name : i \in FieldParts(template)}

\* format() raises on this part, whatever text it is given.
Misapplied(part) == part.spec = "mistyped"

(* Mistake: one selected type that guarantees the field is enough.         *)
KeyTemplateOKForSome(entry) ==
  LET fields == ReferencedFields(entry.dedup) IN
  /\ ParsesAsKey(entry.dedup)
  /\ fields # {}
  /\ fields \subseteq KeyFields
  /\ \A i \in FieldParts(entry.dedup) : ~Misapplied(entry.dedup[i])
  /\ \A f \in fields \cap Conditional : \E type \in entry.types : f \in Guaranteed(type)

\* _validate_dedup_template, the dry render included.
KeyTemplateOK(entry) ==
  LET fields == ReferencedFields(entry.dedup) IN
  /\ ParsesAsKey(entry.dedup)
  /\ fields # {}
  /\ fields \subseteq KeyFields
  /\ \A i \in FieldParts(entry.dedup) : ~Misapplied(entry.dedup[i])
  /\ \A f \in fields \cap Conditional : \A type \in entry.types : f \in Guaranteed(type)

EntryOK(entry) ==
  /\ entry.types # {}
  /\ ~(entry.consequence = "channel_publish" /\ entry.mode = "active")
  /\ KeyTemplateOK(entry)

IdsAreUnique(policies) ==
  \A i, j \in DOMAIN policies : policies[i].policy_id = policies[j].policy_id => i = j

(* Mistake: only entries that select the very same types are compared.     *)
TemplatesApartIfSameTypes(policies) ==
  \A i, j \in DOMAIN policies : i < j =>
    \/ policies[i].dedup # policies[j].dedup
    \/ "policy_id" \in ReferencedFields(policies[i].dedup)
    \/ policies[i].types # policies[j].types

\* _dedup_templates_cannot_collide
TemplatesApart(policies) ==
  \A i, j \in DOMAIN policies : i < j =>
    \/ policies[i].dedup # policies[j].dedup
    \/ "policy_id" \in ReferencedFields(policies[i].dedup)
    \/ policies[i].types \cap policies[j].types = {}

\* parse_policy_set, of a decodable body resolved for a tenant.
ParsedPolicySet(body, tenant) ==
  CASE ~(/\ \A i \in DOMAIN body.policies : EntryOK(body.policies[i])
         /\ IdsAreUnique(body.policies)
         /\ TemplatesApart(body.policies)) -> "invalid_policy_set"
    [] body.tenant # tenant -> "tenant_mismatch"
    [] OTHER -> "valid"

-----------------------------------------------------------------------------
(* Matching.                                                               *)

(* Mistake: an absent value satisfies a pattern that matches anything.     *)
MatchesScalarAbsent(patterns, value) ==
  \/ patterns = {}
  \/ \E glob \in patterns : value \in Covers[glob] \/ (value = Absent /\ Covers[glob] = Texts)

MatchesScalar(patterns, value) ==
  \/ patterns = {}
  \/ value # Absent /\ \E glob \in patterns : value \in Covers[glob]

MatchesAny(patterns, values) ==
  \/ patterns = {}
  \/ \E glob \in patterns, i \in DOMAIN values : values[i] \in Covers[glob]

Matches(entry, e) ==
  /\ e.type \in entry.types
  /\ \A f \in ScalarFields : MatchesScalar(entry.predicates[f], e.payload[f])
  /\ \A f \in MemberFields : MatchesAny(entry.predicates[f], e.members[f])

\* The positions, in declaration order, of the entries that select e.
MatchingEntries(policies, e) == {i \in DOMAIN policies : Matches(policies[i], e)}

-----------------------------------------------------------------------------
(* Dedup keys.                                                             *)

KeyValue(entry, e, f) ==
  CASE f = "tenant" -> e.tenant
    [] f = "policy_id" -> entry.policy_id
    [] f = "event_id" -> e.id
    [] f = "event_type" -> Token(e.type)
    [] f = "entity_kind" -> Token(e.kind)
    [] f = "entity_id" -> e.entity
    [] f = "consequence" -> Token(entry.consequence)
    [] f \in {"scope"} \cup Conditional -> e.payload[f]

\* A text as wide as Width at least; on which side it grows makes no difference.
Padded(text) == text \o [i \in 1 .. Width - Len(text) |-> Fill]

\* What format() makes of a value it can be applied to.
Formatted(value, spec) ==
  CASE spec = "cut" /\ value # <<>> -> <<Head(value)>>
    [] spec \in {"padded", "wide"} -> Padded(value)
    [] OTHER -> value

MissingKeyFields(entry, e) ==
  {f \in ReferencedFields(entry.dedup) : KeyValue(entry, e, f) = Absent}

\* render_dedup_key raises DedupKeyUnrenderable unless this is so.
KeyRenders(entry, e) == MissingKeyFields(entry, e) = {}

RenderedKey(entry, e) ==
  FlattenSeq([i \in DOMAIN entry.dedup |->
    LET part == entry.dedup[i] IN
    IF part.name = "literal" THEN part.text
                             ELSE Formatted(KeyValue(entry, e, part.name), part.spec)])

=============================================================================
