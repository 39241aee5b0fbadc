-------------------------- MODULE PolicyEvaluation --------------------------
(***************************************************************************)
(* One tenant's policy bodies and raw events, taken through everything the *)
(* code decides without a database: parse the body, parse the event, match *)
(* the entries, render a key for each, refuse a key an earlier entry of    *)
(* this evaluation rendered, and render the requests (policies.py,         *)
(* events.py, matching.py, engine.evaluate, rendering.py).                 *)
(***************************************************************************)
EXTENDS MintRendering

CONSTANTS
  Tenant,      \* the tenant the pass serves
  Bodies,      \* artifact version -> its body: [tenant, policies]
  Stream       \* position -> the raw event there

Versions == DOMAIN Bodies
Positions == DOMAIN Stream

ASSUME EvaluationAssumption ==
  /\ \A v \in Versions : Bodies[v].policies \in Seq(Entries)
  /\ 0 \notin Positions
  /\ \A n \in Positions : Stream[n] \in Envelopes

VARIABLES
  phase,       \* what became of the body, then of the event
  version,     \* the artifact version in force
  pos,         \* the position of the event being handled, or 0
  left,        \* the matched entries still to be delivered
  deliveries,  \* [entry, key, outcome] of the delivered ones
  requests     \* what rendering yields for the recorded ones: [entry, result]

vars == <<phase, version, pos, left, deliveries, requests>>

policies == Bodies[version].policies
event == Stream[pos]

Phases == {"fetched", "quarantined", "evaluable", "malformed", "foreign",
           "ignored", "delivering", "raised", "rendering"}

Init ==
  /\ phase = "fetched"
  /\ version \in Versions
  /\ pos = 0
  /\ left = {}
  /\ deliveries = {}
  /\ requests = {}

\* PolicyCache.put classifies the body: a set, or a quarantined version.
LoadPolicySet ==
  /\ phase = "fetched"
  /\ phase' = IF ParsedPolicySet(Bodies[version], Tenant) = "valid" THEN "evaluable" ELSE "quarantined"
  /\ UNCHANGED <<version, pos, left, deliveries, requests>>

Selects(e) == MatchingEntries(policies, e)

\* Intake hands over an event; evaluate checks its tenant and matches it.
HandleEvent(n) ==
  LET e == Stream[n] IN
  /\ phase = "evaluable"
  /\ pos' = n
  /\ IF ParsedEnvelope(e) = "envelope" /\ e.tenant = Tenant /\ Selects(e) # {}
     THEN phase' = "delivering" /\ left' = Selects(e)
     ELSE /\ phase' = CASE ParsedEnvelope(e) # "envelope" -> "malformed"
                        [] e.tenant # Tenant -> "foreign"
                        [] OTHER -> "ignored"
          /\ left' = {}
  /\ UNCHANGED <<version, deliveries, requests>>

(* Mistake: a key is compared with the one before it only.                 *)
ClaimedByPrevious(i, key) == \E d \in deliveries : d.entry = i - 1 /\ d.key = key

\* An earlier entry of this evaluation recorded the key.
Claimed(i, key) == \E d \in deliveries : d.outcome = "matched" /\ d.key = key

\* The next entry, in declaration order: recorded, or refused as a collision.
Deliver(i) ==
  LET entry == policies[i]
      key == RenderedKey(entry, event)
  IN
  /\ phase = "delivering"
  /\ i \in left /\ \A j \in left : i <= j
  /\ KeyRenders(entry, event)
  /\ left' = left \ {i}
  /\ deliveries' = deliveries \cup
       {[entry |-> i, key |-> key, outcome |-> IF Claimed(i, key) THEN "failed" ELSE "matched"]}
  /\ phase' = IF left' = {} THEN "rendering" ELSE "delivering"
  /\ UNCHANGED <<version, pos, requests>>

\* DedupKeyUnrenderable: the evaluation is cut short, its event un-acked.
DeliverRaises(i) ==
  /\ phase = "delivering"
  /\ i \in left /\ \A j \in left : i <= j
  /\ ~KeyRenders(policies[i], event)
  /\ phase' = "raised"
  /\ left' = {}
  /\ UNCHANGED <<version, pos, deliveries, requests>>

(* Mistake: a refused collision is rendered, and minted, all the same.     *)
RenderEvenRefused(d) ==
  /\ phase = "rendering"
  /\ \A r \in requests : r.entry # d.entry
  /\ requests' = requests \cup
       {[entry |-> d.entry,
         result |-> RenderedRequest(policies[d.entry], event, d.key)]}
  /\ UNCHANGED <<phase, version, pos, left, deliveries>>

\* The minting pass renders what a recorded entry is owed.
Render(d) ==
  /\ phase = "rendering"
  /\ d.outcome = "matched"
  /\ \A r \in requests : r.entry # d.entry
  /\ requests' = requests \cup
       {[entry |-> d.entry,
         result |-> RenderedRequest(policies[d.entry], event, d.key)]}
  /\ UNCHANGED <<phase, version, pos, left, deliveries>>

EventDone ==
  \/ phase \in {"malformed", "foreign", "ignored"}
  \/ /\ phase = "rendering"
     /\ \A d \in deliveries : d.outcome = "matched" =>
          \E r \in requests : r.entry = d.entry

\* The event is acked and the pass goes on to the next.
Acknowledge ==
  /\ EventDone
  /\ phase' = "evaluable"
  /\ pos' = 0
  /\ deliveries' = {}
  /\ requests' = {}
  /\ UNCHANGED <<version, left>>

\* The pass stops; the next one resolves whatever version is then in force.
Refetch(v) ==
  /\ phase \in {"quarantined", "raised", "evaluable"}
  /\ phase' = "fetched"
  /\ version' = v
  /\ pos' = 0
  /\ deliveries' = {}
  /\ UNCHANGED <<left, requests>>

Next ==
  \/ LoadPolicySet
  \/ \E n \in Positions : HandleEvent(n)
  \/ \E i \in left : Deliver(i) \/ DeliverRaises(i)
  \/ \E d \in deliveries : Render(d)
  \/ Acknowledge
  \/ \E v \in Versions : Refetch(v)

Spec == Init /\ [][Next]_vars

-----------------------------------------------------------------------------
(* Properties.                                                             *)

\* Every variable holds what the code can put there.
TypeOK ==
  /\ phase \in Phases
  /\ version \in Versions
  /\ pos \in Positions \cup {0}
  /\ left \subseteq DOMAIN policies
  /\ \A d \in deliveries :
       d.entry \in DOMAIN policies /\ d.outcome \in {"matched", "failed"}
  /\ \A r \in requests : \E d \in deliveries : d.entry = r.entry /\ d.outcome = "matched"

(* engine.DedupKeyUnrenderable: "Unreachable by construction".  No set the *)
(* parser accepts fails to render a key for an event the parser accepts,   *)
(* which would stop its tenant's stream at that event for good.            *)
KeysRender == phase # "raised"

\* Every {policy_id} has a width or a precision, which may render two ids alike.
ReshapesPolicyId(template) ==
  LET quotes == {i \in FieldParts(template) : template[i].name = "policy_id"} IN
  quotes # {} /\ \A i \in quotes : template[i].spec \in {"cut", "padded", "wide"}

(* policies.py: "Identical templates WITH {policy_id} are safe (distinct   *)
(* ids render distinct keys)", and what the check of identical templates   *)
(* lets through takes equal field values.  Two entries that meet on one    *)
(* key have different templates, unless {policy_id} is there only with a   *)
(* width or a precision: then the code does not keep this promise.         *)
IdenticalTemplatesStayApart ==
  \A c, d \in deliveries : c.entry < d.entry /\ c.key = d.key =>
    \/ policies[c.entry].dedup # policies[d.entry].dedup
    \/ ReshapesPolicyId(policies[c.entry].dedup)

(* engine.py: within an evaluation "the row belongs to the earlier entry". *)
(* Every selected entry ends up as the one owner of its key, or refused    *)
(* aloud behind the first entry that rendered it: none is swallowed.       *)
OneOwnerPerKey ==
  phase = "rendering" =>
    \A i \in Selects(event) : \E d \in deliveries :
      /\ d.entry = i
      /\ d.outcome = "matched" <=> ~ \E c \in deliveries : c.entry < i /\ c.key = d.key

\* What the entry constrains, and what every type it selects guarantees.
Relied(entry) ==
  AlwaysRendered
    \cup {f \in PredicateFields : entry.predicates[f] # {}}
    \cup {f \in Conditional : \A type \in entry.types : f \in Guaranteed(type)}

(* rendering.py: "a template can quote what its own predicate selected".   *)
(* A rendering never misses a field the entry constrained, were it only by *)
(* "*", nor one the event's parser guaranteed.                             *)
QuotedFieldsAreCarried ==
  \A r \in requests : r.result.missing \cap Relied(policies[r.entry]) = {}

Repaired(entry, broken) ==
  LET fixed(name) == IF name \in broken THEN <<Literal(<<>>)>> ELSE TemplateOf(entry, name)
  IN [entry EXCEPT !.title = fixed("title"), !.body = fixed("body"), !.owner = fixed("owner")]

(* render_mint_request: "an operator fixing a policy sees every broken     *)
(* template at once".  Mending just the templates a failure names is       *)
(* enough for its replay to mint.                                          *)
RepairsSuffice ==
  \A r \in requests : r.result.broken # {} =>
    \A d \in deliveries : d.entry = r.entry =>
      RenderedRequest(Repaired(policies[r.entry], r.result.broken), event, d.key).broken = {}

BlockOf(r) ==
  LET d == CHOOSE d \in deliveries : d.entry = r.entry
  IN Break \o ProvenanceBlock(policies[r.entry], event, d.key)

(* rendering.py: "The cap's job is to bound what is POSTED".  No template  *)
(* contributes more than its cap, though escaping lengthens its text.      *)
PostedWithinCaps ==
  \A r \in requests : \A name \in DOMAIN r.result.posted :
    Len(r.result.posted[name]) <=
      Caps[name] + (IF name = "body" THEN Len(BlockOf(r)) ELSE 0)

Headings(text) == {i \in 1 .. Len(text) - 1 : SubSeq(text, i, i + 1) = Heading}

(* rendering.py: the un-escaped heading is "on the block this plugin       *)
(* wrote".  No value, nor a value beside a template's own text, puts one   *)
(* into a request outside that block.                                      *)
HeadingOnlyInBlock ==
  \A r \in requests : \A name \in DOMAIN r.result.posted :
    Cardinality(Headings(r.result.posted[name])) =
      IF name = "body" THEN Cardinality(Headings(BlockOf(r))) ELSE 0

(* policies.py: "a constant dedup key silently collapses every future      *)
(* delivery of that policy into the first one.  Silent lost work is        *)
(* exactly what parse-time validation is for."  So an accepted entry       *)
(* renders two keys for some two of the events it selects.                 *)
NoConstantKeys ==
  phase = "evaluable" => \A i \in DOMAIN policies :
    LET entry == policies[i]
        selected == {n \in Positions : /\ ParsedEnvelope(Stream[n]) = "envelope"
                                       /\ Stream[n].tenant = Tenant
                                       /\ Matches(entry, Stream[n])}
    IN (\E n, m \in selected : Stream[n].id # Stream[m].id) =>
         \E n, m \in selected : RenderedKey(entry, Stream[n]) # RenderedKey(entry, Stream[m])

=============================================================================
