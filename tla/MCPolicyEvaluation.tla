------------------------- MODULE MCPolicyEvaluation -------------------------
(* Small instances of PolicyEvaluation for TLC.                            *)
EXTENDS PolicyEvaluation

CONSTANTS anything, mile

acme == <<"acme">>
m1 == <<"m1">>
m2 == <<"m2">>
x == <<"x">>
xy == <<"x", "y">>
MCTexts == {acme, m1, m2, x, xy, <<"y">>, <<"h2">>, Heading, <<"app">>, <<"e1">>, <<"e2">>}
MCTokens ==
  UNION {Range(text) : text \in MCTexts \cup {Heading, EscapedHeading, Separator, Break}}
    \cup WireWords \cup Consequences \cup PolicyModes \cup {"version"}
MCCovers == [glob \in Patterns |-> IF glob = anything THEN MCTexts ELSE {m1}]
MCCaps == [name \in TemplateNames |-> IF name = "body" THEN 4 ELSE 2]

\* The pairs of two sequences, and a sequence from one of sequences.
Times(s, t) ==
  [k \in 1 .. Len(s) * Len(t) |-> <<s[((k - 1) \div Len(t)) + 1], t[((k - 1) % Len(t)) + 1]>>]
Triples(s, t, u) == [k \in 1 .. Len(s) * Len(t) * Len(u) |->
  LET pair == Times(Times(s, t), u)[k] IN <<pair[1][1], pair[1][2], pair[2]>>]

-----------------------------------------------------------------------------
(* Events.                                                                 *)

Bare == [f \in ScalarFields |-> IF f = "scope" THEN <<"app">> ELSE Absent]
NoMembers == [f \in MemberFields |-> <<>>]
NoDetails == [k \in DetailKeys |-> Absent]

Event(type, kind) ==
  [shape |-> "shaped", type |-> type, tenant |-> acme, id |-> <<"e1">>,
   kind |-> kind, entity |-> x, entity_phase |-> Absent,
   payload |-> Bare, members |-> NoMembers, details |-> NoDetails]

MilestoneEvent(type, kind, id, milestone, state) ==
  [Event(type, kind) EXCEPT !.id = id, !.payload["milestone"] = milestone, !.details["to_state"] = state]
Released ==
  LET p == Times(<<<<"e1">>, <<"y">>>>, <<m1, m2>>)
  IN [k \in DOMAIN p |-> MilestoneEvent("milestone_released", "milestone", p[k][1], p[k][2], Absent)]
Changed ==
  LET p == Times(<<"milestone", "work_item">>, Times(<<Absent, m1>>, <<Absent, Null, <<"h2">>, Heading>>))
  IN [k \in DOMAIN p |->
        MilestoneEvent("milestone_state_changed", p[k][1], <<"e1">>, p[k][2][1], p[k][2][2])]
PhaseEnds ==
  LET p == Triples(<<Absent, x>>, <<Absent, x>>, <<Absent, x>>)
  IN [k \in DOMAIN p |-> [Event("initiative_phase_completed", "initiative")
        EXCEPT !.entity_phase = p[k][1], !.payload["phase"] = p[k][2], !.payload["initiative"] = p[k][3]]]
Signals ==
  LET p == Triples(<<"initiative", "schedule">>, <<<<>>, <<m2>>, <<m2, m1>>>>, <<Absent, m1>>)
  IN [k \in DOMAIN p |-> [Event("semantic_signal", p[k][1])
        EXCEPT !.members["signals"] = p[k][2], !.payload["milestone"] = p[k][3]]]
Completed == Event("item_completed", "work_item")
Others ==
  <<Completed, [Completed EXCEPT !.shape = "shapeless"], [Completed EXCEPT !.shape = "not_json"],
    [Completed EXCEPT !.tenant = xy], [Completed EXCEPT !.payload["scope"] = Absent],
    Event("item_rescoped", "work_item"),
    [Event("item_rescoped", "work_item") EXCEPT !.details["from_scope"] = x]>>

MCStream == Released \o Changed \o PhaseEnds \o Signals \o Others

-----------------------------------------------------------------------------
(* Policies.                                                               *)

DefaultKey == <<Field("tenant"), Field("policy_id"), Field("event_id")>>
SoundKeys == <<DefaultKey, <<Field("policy_id"), Field("milestone")>>,
  <<Field("milestone"), Literal(<<"y">>)>>, <<Field("milestone"), Field("event_id")>>,
  <<FieldAs("policy_id", "cut"), Field("event_id")>>,
  <<FieldAs("policy_id", "padded"), Field("event_id")>>,
  <<FieldAs("policy_id", "padded"), Field("policy_id")>>>>
OddKeys == <<<<Literal(x)>>, <<Field("tenant"), Field("work_kind")>>, <<Field("tenant"), Brace>>,
  <<Field("phase"), Field("policy_id")>>, <<FieldAs("event_id", "nested")>>,
  <<FieldAs("event_id", "conversion")>>, <<FieldAs("event_id", "mistyped")>>,
  <<FieldAs("event_id", "wide")>>>>
\* Every placeholder of it is the same for all events of one policy.
FixedKey == <<Field("tenant"), Literal(x), Field("policy_id")>>

Unconstrained == [f \in PredicateFields |-> {}]
Constrained(f, glob) == [Unconstrained EXCEPT ![f] = {glob}]

Plain == <<Literal(x)>>
Policy(id, types, dedup) ==
  [policy_id |-> id, types |-> types, predicates |-> Unconstrained,
   consequence |-> "messaging_refresh", mode |-> "active", dedup |-> dedup,
   title |-> Plain, body |-> Plain, owner |-> NoTemplate]

MilestonesOrSignals == MilestoneEvents \cup {"semantic_signal"}

Body(entries) == [tenant |-> acme, policies |-> entries]

\* One entry: which keys are accepted for which types.
Keyed ==
  LET p == Times(<<MilestoneEvents, MilestonesOrSignals, {"initiative_phase_completed"},
                   {"item_completed", "item_rescoped"}, {}>>, SoundKeys \o OddKeys)
  IN [k \in DOMAIN p |-> Body(<<Policy(x, p[k][1], p[k][2])>>)]
Gated ==
  LET p == Times(<<"active", "approval_required", "dry_run">>, <<"messaging_refresh", "channel_publish">>)
  IN [k \in DOMAIN p |-> Body(<<[Policy(x, {"milestone_released"}, DefaultKey)
                                   EXCEPT !.mode = p[k][1], !.consequence = p[k][2]]>>)]
\* One entry: which templates and predicates meet which events.
Worded ==
  LET p == Triples(
        Times(<<MilestoneEvents, MilestonesOrSignals>>,
              <<Unconstrained, Constrained("milestone", anything), Constrained("milestone", mile),
                Constrained("signals", anything)>>),
        Times(<<NoTemplate, <<Field("dedup_key"), Field("milestone")>>>>,
              <<Plain, <<Field("milestone")>>, <<Field("phase"), Brace>>, <<Field("signals")>>,
                <<Field("details.to_state")>>, <<FieldAs("milestone", "mistyped")>>,
                <<FieldAs("scope", "padded"), FieldAs("milestone", "padded")>>,
                <<FieldAs("scope", "wide"), Field("sprint")>>>>),
        <<Plain, <<Literal(<<"h1">>), Field("details.to_state")>>,
          <<Field("details.to_state"), Literal(m1), Field("details.to_state")>>,
          <<Field("work_kind"), Field("milestone")>>>>)
  IN [k \in DOMAIN p |-> Body(<<[Policy(x, p[k][1][1], DefaultKey)
       EXCEPT !.predicates = p[k][1][2], !.owner = p[k][2][1], !.title = p[k][2][2], !.body = p[k][3]]>>)]
\* Several entries: which keys meet.
Meeting ==
  LET single == Triples(<<x, xy>>, <<MilestoneEvents, {"milestone_released"}>>, SoundKeys)
      p == Times(single, single)
      policy(q) == Policy(q[1], q[2], q[3])
  IN [k \in DOMAIN p |-> Body(<<policy(p[k][1]), policy(p[k][2])>>)]
ThreeMeeting ==
  LET p == Triples(SoundKeys, SoundKeys, SoundKeys)
  IN [k \in DOMAIN p |-> Body(<<Policy(<<"y">>, MilestoneEvents, p[k][1]),
        Policy(x, MilestoneEvents, p[k][2]), Policy(xy, {"milestone_released"}, p[k][3])>>)]

MCBodies == Keyed \o Gated \o Worded \o Meeting \o ThreeMeeting
  \o <<Body(<<>>), [Body(<<>>) EXCEPT !.tenant = xy]>>
ReleaseBodies ==
  LET keys == SoundKeys \o OddKeys \o <<FixedKey>>
  IN [k \in DOMAIN keys |-> Body(<<Policy(x, {"milestone_released"}, keys[k])>>)]

=============================================================================
