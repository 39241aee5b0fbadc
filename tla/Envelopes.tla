------------------------------ MODULE Envelopes ------------------------------
(***************************************************************************)
(* What a consumed event is, and which bodies parse_envelope accepts       *)
(* (events.py, classify.py).                                               *)
(*                                                                         *)
(* A text is a sequence of tokens.  A field an event does not carry is     *)
(* Absent; a details key it carries with a null is Null.                   *)
(***************************************************************************)
EXTENDS Sequences

CONSTANTS
  Tokens,
  Texts,       \* the texts a producer or a policy author may write
  Absent, Null

Token(word) == <<word>>

ItemEvents == {"item_completed", "item_reopened", "item_abandoned", "item_rescoped"}
MilestoneEvents == {"milestone_state_changed", "milestone_released"}
EventTypes == ItemEvents \cup MilestoneEvents \cup
  {"initiative_phase_completed", "recurring_item_fired", "semantic_signal"}

EntityKinds == {"work_item", "initiative", "milestone", "schedule"}

ScalarFields == {"scope", "initiative", "phase", "milestone", "work_kind"}
MemberFields == {"relations", "signals"}
DetailKeys == {"to_state", "from_scope"}

\* The words of the closed vocabularies, which texts may quote.
WireWords == EventTypes \cup EntityKinds

ASSUME EnvelopeAssumption ==
  /\ Texts \subseteq Seq(Tokens)
  /\ Absent \notin Seq(Tokens) /\ Null \notin Seq(Tokens)
  /\ Null # Absent
  /\ WireWords \subseteq Tokens

\* How far a body gets: decode_json_object, then pydantic's field checks (extra
\* keys, empty ids, another schema_version, a naive occurred_at).
Shapes == {"not_json", "not_an_object", "shapeless", "shaped"}

Envelopes == [
  shape : Shapes,
  type : EventTypes, tenant : Texts, id : Texts,
  kind : EntityKinds, entity : Texts, entity_phase : Texts \cup {Absent},
  payload : [ScalarFields -> Texts \cup {Absent}],
  members : [MemberFields -> Seq(Texts)],
  details : [DetailKeys -> Texts \cup {Absent, Null}]]

AllowedKinds(type) ==
  CASE type \in ItemEvents -> {"work_item"}
    [] type = "initiative_phase_completed" -> {"initiative"}
    [] type \in MilestoneEvents -> {"milestone"}
    [] type = "recurring_item_fired" -> {"schedule"}
    [] type = "semantic_signal" -> {"work_item", "initiative"}

RequiredFields(type) ==
  CASE type = "initiative_phase_completed" -> {"initiative", "phase"}
    [] type \in MilestoneEvents -> {"milestone"}
    [] OTHER -> {}

RequiredDetails(type) ==
  CASE type = "milestone_state_changed" -> {"to_state"}
    [] type = "item_rescoped" -> {"from_scope"}
    [] OTHER -> {}

\* Required by the model for every type, and guaranteed by some type.
AlwaysPresent == {"scope"}
Conditional == UNION {RequiredFields(type) : type \in EventTypes}

Guaranteed(type) == AlwaysPresent \cup RequiredFields(type)

\* _check_type_shape.  A null detail satisfies it: only the key is looked for.
TypeShapeOK(e) ==
  /\ e.kind \in AllowedKinds(e.type)
  /\ \A f \in RequiredFields(e.type) : e.payload[f] # Absent
  /\ \A k \in RequiredDetails(e.type) : e.details[k] # Absent
  /\ e.type = "semantic_signal" => e.members["signals"] # <<>>
  /\ e.type = "initiative_phase_completed" => e.entity_phase = e.payload["phase"]

\* parse_envelope: what the body is taken for.
ParsedEnvelope(e) ==
  CASE e.shape \in {"not_json", "not_an_object"} -> e.shape
    [] e.shape = "shapeless" -> "invalid_envelope"
    [] e.shape = "shaped" ->
         IF e.payload["scope"] # Absent /\ TypeShapeOK(e) THEN "envelope"
                                                          ELSE "invalid_envelope"

=============================================================================
