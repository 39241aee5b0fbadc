---------------------------- MODULE MintRendering ----------------------------
(***************************************************************************)
(* A matched entry turned into the request a work sink takes               *)
(* (rendering.py): the three templates, rendered against the event and the *)
(* entry, with the provenance block appended to the body.                  *)
(***************************************************************************)
EXTENDS PolicyRules

CONSTANT
  Caps         \* template name -> the longest output, in tokens

Heading == <<"h1", "h2">>               \* PROVENANCE_HEADING, of two tokens
EscapedHeading == <<"e1", "e2", "e3">>  \* longer than what it replaces
Separator == <<", ">>
Break == <<"/">>

TemplateNames == {"title", "body", "owner"}

ASSUME RenderingAssumption ==
  /\ Caps \in [TemplateNames -> Nat]
  /\ {Heading, EscapedHeading, Separator, Break} \subseteq Seq(Tokens)
  /\ PolicyModes \cup {"version"} \subseteq Tokens

(* The vocabulary.  occurred_at, external_refs, the destination and the    *)
(* entry's own lists are read the way these are, and left out.             *)
AlwaysRendered == KeyFieldsAlways \cup {"mode", "policy_version_id", "dedup_key"}

TextOrAbsent(value) == IF value = Null THEN Absent ELSE value

Joined(values) ==
  IF values = <<>> THEN Absent
  ELSE FlattenSeq([i \in DOMAIN values |->
         IF i = 1 THEN values[i] ELSE Separator \o values[i]])

\* template_values; Absent stands for a name that is not in the mapping.
TemplateValue(entry, e, key, name) ==
  CASE name = "details.to_state" -> TextOrAbsent(e.details["to_state"])
    [] name = "details.from_scope" -> TextOrAbsent(e.details["from_scope"])
    [] name \in MemberFields -> Joined(e.members[name])
    [] name = "entity_phase" -> e.entity_phase
    [] name = "work_kind" -> e.payload["work_kind"]
    [] name = "mode" -> Token(entry.mode)
    [] name = "policy_version_id" -> Token("version")
    [] name = "dedup_key" -> key
    [] name \in KeyFields -> KeyValue(entry, e, name)
    [] OTHER -> Absent

-----------------------------------------------------------------------------
(* render_template.                                                        *)

Values(entry, e, key, template) ==
  [name \in ReferencedFields(template) |-> TemplateValue(entry, e, key, name)]

\* A part that ends the rendering at once, whatever else the template lacks.
Faulty(part, values) ==
  \/ part.spec \in {"nested", "conversion", "wide"}
  \/ Misapplied(part) /\ values[part.name] # Absent

Sound(template, values) ==
  /\ Balanced(template)
  /\ \A i \in FieldParts(template) : ~Faulty(template[i], values)

MissingNames(template, values) ==
  IF Sound(template, values)
  THEN {name \in ReferencedFields(template) : values[name] = Absent}
  ELSE {}

Rendered(template, values) ==
  FlattenSeq([i \in DOMAIN template |->
    IF template[i].name = "literal" THEN template[i].text
    ELSE Formatted(values[template[i].name], template[i].spec)])

\* A text grown by a token that may complete the heading.
Escaped(done, token) ==
  IF token = Heading[2] /\ done # <<>> /\ Last(done) = Heading[1]
  THEN Front(done) \o EscapedHeading ELSE Append(done, token)

\* Every occurrence of the heading in a text is replaced.
Neutralized(text) ==
  LET done[n \in 0 .. Len(text)] ==
        IF n = 0 THEN <<>> ELSE Escaped(done[n - 1], text[n])
  IN done[Len(text)]

(* Mistakes: the cap measures the text before it grows; the values are     *)
(* neutralized one by one, before they meet the template's own text.       *)
FitsBeforehand(name, template, values) == Len(Rendered(template, values)) <= Caps[name]

PostedPiecewise(template, values) ==
  Rendered([i \in DOMAIN template |-> [template[i] EXCEPT !.text = Neutralized(@)]],
           [name \in DOMAIN values |-> Neutralized(values[name])])

\* What a template contributes to the request.
Posted(template, values) == Neutralized(Rendered(template, values))

Fits(name, template, values) == Len(Posted(template, values)) <= Caps[name]

\* The template yields a text within its cap, or is a problem.
Renders(name, template, values) ==
  /\ Sound(template, values)
  /\ MissingNames(template, values) = {}
  /\ Fits(name, template, values)

-----------------------------------------------------------------------------
(* render_mint_request.                                                    *)

TemplateOf(entry, name) ==
  CASE name = "title" -> entry.title [] name = "body" -> entry.body [] name = "owner" -> entry.owner

Used(entry) == {name \in TemplateNames : TemplateOf(entry, name) # NoTemplate}

EntryValues(entry, e, key, name) == Values(entry, e, key, TemplateOf(entry, name))

(* Mistake: the first template that fails ends the rendering.              *)
FirstBrokenTemplate(entry, e, key) ==
  LET broken == {name \in Used(entry) :
                   ~Renders(name, TemplateOf(entry, name), EntryValues(entry, e, key, name))}
  IN IF broken = {} THEN {} ELSE {CHOOSE name \in broken : TRUE}

\* The templates named in the failure.
BrokenTemplates(entry, e, key) ==
  {name \in Used(entry) :
     ~Renders(name, TemplateOf(entry, name), EntryValues(entry, e, key, name))}

MissingIn(entry, e, key) ==
  UNION {MissingNames(TemplateOf(entry, name), EntryValues(entry, e, key, name)) :
           name \in Used(entry)}

\* provenance_block: the heading, then a line per fact; an absent fact has none.
\* (The escaped heading is not looked for in the facts.)
ProvenanceFacts(entry, e, key) ==
  <<e.id, Token(e.type), Token(e.kind), e.entity, e.entity_phase, entry.policy_id,
    e.payload["scope"], e.payload["initiative"], e.payload["phase"],
    e.payload["milestone"], e.payload["work_kind"],
    Joined(e.members["signals"]), Joined(e.members["relations"]), key>>

ProvenanceBlock(entry, e, key) ==
  Heading \o FlattenSeq([i \in 1 .. 14 |->
    LET fact == ProvenanceFacts(entry, e, key)[i] IN
    IF fact = Absent THEN <<>> ELSE Break \o fact])

\* A request if nothing is broken, else the failure.
Failure(entry, e, key) ==
  [posted |-> <<>>, broken |-> BrokenTemplates(entry, e, key),
   missing |-> MissingIn(entry, e, key)]

Request(entry, e, key) ==
  [posted |-> [name \in Used(entry) |->
     Posted(TemplateOf(entry, name), EntryValues(entry, e, key, name))
       \o (IF name = "body" THEN Break \o ProvenanceBlock(entry, e, key) ELSE <<>>)],
   broken |-> {}, missing |-> {}]

RenderedRequest(entry, e, key) ==
  IF BrokenTemplates(entry, e, key) = {} THEN Request(entry, e, key)
                                         ELSE Failure(entry, e, key)

=============================================================================
