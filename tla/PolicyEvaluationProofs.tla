----------------------- MODULE PolicyEvaluationProofs -----------------------
(***************************************************************************)
(* For every policy body and every stream: no key of an accepted set is    *)
(* unrenderable for an accepted event, every selected entry owns its key   *)
(* or is refused behind the entry that does, and entries of one template   *)
(* stay apart; what a template relies on is there, one repair is enough,   *)
(* no text exceeds its cap, and only the block has the block's heading.    *)
(***************************************************************************)
EXTENDS PolicyEvaluation, NumberFacts, SequenceTheorems, FiniteSetTheorems

-----------------------------------------------------------------------------
(* Texts.                                                                  *)

(* Pieces flattened: each prefix is the one before it and the next piece.  *)
LEMMA FlattenGrows ==
  ASSUME NEW S, NEW pieces \in Seq(Seq(S)), pieces # <<>>
  PROVE  \E flat \in [1 .. Len(pieces) -> Seq(S)] :
           /\ FlattenSeq(pieces) = flat[Len(pieces)]
           /\ flat[1] = pieces[1]
           /\ \A i \in 1 .. Len(pieces) - 1 : flat[i + 1] = flat[i] \o pieces[i + 1]
<1>. DEFINE n == Len(pieces)
            Grown(f, i) == IF i = 1 THEN pieces[i] ELSE f[i - 1] \o pieces[i]
            Solves(f) == f = [i \in 1 .. n |-> Grown(f, i)]
            flat == CHOOSE f : Solves(f)
            Solved(m) == \E g \in [1 .. m -> Seq(S)] : \A i \in 1 .. m : g[i] = Grown(g, i)
            Reached == {m \in 1 .. n : Solved(m)}
<1>1. n \in Nat /\ n >= 1 /\ \A i \in 1 .. n : pieces[i] \in Seq(S)
  OBVIOUS
<1>2. Solved(n)
  <2>1. 1 \in Reached
    <3>. DEFINE g == [i \in 1 .. 1 |-> pieces[i]]
    <3>1. g \in [1 .. 1 -> Seq(S)] /\ \A i \in 1 .. 1 : g[i] = Grown(g, i)
      BY <1>1
    <3>2. Solved(1)
      BY <3>1
    <3>. HIDE DEF Solved
    <3>. QED  BY <1>1, <3>2
  <2>2. ASSUME NEW m \in 1 .. n - 1, m \in Reached
        PROVE  m + 1 \in Reached
    <3>1. PICK g \in [1 .. m -> Seq(S)] : \A i \in 1 .. m : g[i] = Grown(g, i)
      BY <2>2
    <3>. DEFINE h == [i \in 1 .. m + 1 |-> IF i = m + 1 THEN g[m] \o pieces[m + 1] ELSE g[i]]
    <3>2. g[m] \in Seq(S) /\ pieces[m + 1] \in Seq(S) /\ m + 1 \in 1 .. n
      BY <1>1
    <3>3. g[m] \o pieces[m + 1] \in Seq(S)
      BY <3>2, ConcatProperties
    <3>4. h \in [1 .. m + 1 -> Seq(S)]
      BY <3>3
    <3>5. ASSUME NEW i \in 1 .. m + 1 PROVE h[i] = Grown(h, i)
      <4>1. CASE i = m + 1
        <5>1. i # 1 /\ i - 1 = m /\ m # m + 1 /\ m \in 1 .. m + 1
          BY <1>1, <4>1
        <5>2. h[i] = g[m] \o pieces[m + 1] /\ h[m] = g[m]
          BY <4>1, <5>1
        <5>. QED  BY <4>1, <5>1, <5>2
      <4>2. CASE i # m + 1
        <5>1. i \in 1 .. m /\ (i = 1 \/ i - 1 \in 1 .. m)
          BY <4>2
        <5>2. h[i] = g[i] /\ (i = 1 \/ h[i - 1] = g[i - 1])
          BY <4>2, <5>1
        <5>. QED  BY <3>1, <5>1, <5>2
      <4>. QED  BY <4>1, <4>2
    <3>6. Solved(m + 1)
      <4>. HIDE DEF h
      <4>. QED  BY <3>4, <3>5
    <3>. HIDE DEF Solved
    <3>. QED  BY <3>2, <3>6
  <2>. HIDE DEF Solved
  <2>3. 1 .. n \subseteq Reached
    <3>. HIDE DEF Reached, n
    <3>. QED  BY <1>1, <2>1, <2>2, Climb
  <2>. QED  BY <1>1, <2>3
<1>3. PICK g \in [1 .. n -> Seq(S)] : \A i \in 1 .. n : g[i] = Grown(g, i)
  BY <1>2
<1>4. Solves(g)
  BY <1>3
<1>5. Solves(flat)
  <2>. HIDE DEF Solves
  <2>. QED  BY <1>4
<1>6. FlattenSeq(pieces) = flat[n]
  BY <1>1 DEF FlattenSeq
<1>. HIDE DEF flat
<1>7. flat[1] = pieces[1] /\ \A i \in 1 .. n - 1 : flat[i + 1] = flat[i] \o pieces[i + 1]
  <2>1. \A i \in 1 .. n : flat[i] = Grown(flat, i)
    BY <1>5
  <2>2. 1 \in 1 .. n /\ \A i \in 1 .. n - 1 : i + 1 \in 1 .. n /\ i + 1 # 1 /\ i + 1 - 1 = i
    BY <1>1
  <2>. HIDE DEF n
  <2>3. flat[1] = pieces[1]
    BY <2>1, <2>2
  <2>4. ASSUME NEW i \in 1 .. n - 1 PROVE flat[i + 1] = flat[i] \o pieces[i + 1]
    <3>1. flat[i + 1] = IF i + 1 = 1 THEN pieces[i + 1] ELSE flat[i + 1 - 1] \o pieces[i + 1]
      BY <2>1, <2>2
    <3>. QED  BY <2>2, <3>1
  <2>. QED  BY <2>3, <2>4
<1>8. \A i \in 1 .. n : flat[i] \in Seq(S)
  <2>. DEFINE Typed == {i \in 1 .. n : flat[i] \in Seq(S)}
  <2>1. 1 \in Typed
    BY <1>1, <1>7
  <2>2. ASSUME NEW i \in 1 .. n - 1, i \in Typed
        PROVE  i + 1 \in Typed
    <3>1. flat[i] \in Seq(S) /\ pieces[i + 1] \in Seq(S) /\ i + 1 \in 1 .. n
      BY <1>1, <2>2
    <3>2. flat[i] \o pieces[i + 1] \in Seq(S)
      BY <3>1, ConcatProperties
    <3>. QED  BY <1>7, <3>1, <3>2
  <2>. HIDE DEF Typed, n
  <2>3. 1 .. n \subseteq Typed
    BY <1>1, <2>1, <2>2, Climb
  <2>. QED  BY <2>3 DEF Typed
<1>9. flat \in [1 .. n -> Seq(S)]
  <2>1. flat = [i \in 1 .. n |-> flat[i]]
    BY <1>5
  <2>. QED  BY <1>8, <2>1
<1>. QED  BY <1>6, <1>7, <1>9
(* What is flattened is a text.                                            *)
LEMMA FlattenTyped ==
  ASSUME NEW S, NEW pieces \in Seq(Seq(S))
  PROVE  FlattenSeq(pieces) \in Seq(S)
<1>1. CASE pieces = <<>>
  <2>1. FlattenSeq(pieces) = <<>>
    BY <1>1 DEF FlattenSeq
  <2>. QED  BY <2>1
<1>2. CASE pieces # <<>>
  <2>1. PICK flat \in [1 .. Len(pieces) -> Seq(S)] : FlattenSeq(pieces) = flat[Len(pieces)]
    BY <1>2, FlattenGrows
  <2>2. Len(pieces) \in 1 .. Len(pieces)
    BY <1>2
  <2>. QED  BY <2>1, <2>2
<1>. QED  BY <1>1, <1>2

(* Where a heading starts.                                                 *)
LEMMA HeadingAt ==
  ASSUME NEW text \in Seq(Tokens), NEW i \in 1 .. Len(text) - 1
  PROVE  i \in Headings(text) <=> text[i] = "h1" /\ text[i + 1] = "h2"
<1>1. Len(text) \in Nat /\ i \in Nat /\ i + 1 <= Len(text) /\ i >= 1
  OBVIOUS
<1>. DEFINE pair == SubSeq(text, i, i + 1)
<1>2. pair \in Seq(Tokens) /\ Len(pair) = 2 /\ pair[1] = text[i] /\ pair[2] = text[i + 1]
  <2>1. Len(pair) = i + 1 - i + 1 /\ \A j \in 1 .. i + 1 - i + 1 : pair[j] = text[i + j - 1]
    BY <1>1, SubSeqProperties
  <2>2. pair \in Seq(Tokens)
    BY <1>1, SubSeqProperties
  <2>3. i + 1 - i + 1 = 2 /\ i + 1 - 1 = i /\ i + 2 - 1 = i + 1
    BY <1>1
  <2>. QED  BY <2>1, <2>2, <2>3
<1>. HIDE DEF pair
<1>3. pair = Heading <=> pair[1] = "h1" /\ pair[2] = "h2"
  <2>1. Heading \in Seq(Tokens) /\ Len(Heading) = 2 /\ Heading[1] = "h1" /\ Heading[2] = "h2"
    BY RenderingAssumption DEF Heading
  <2>2. pair[1] = "h1" /\ pair[2] = "h2" => pair = Heading
    BY <1>2, <2>1, SeqEqual
  <2>. QED  BY <2>1, <2>2
<1>. QED  BY <1>2, <1>3 DEF Headings, pair

(* A text without a heading grows by a token, and has none.                *)
LEMMA EscapedIsFree ==
  ASSUME NEW done \in Seq(Tokens), Headings(done) = {}, NEW token \in Tokens
  PROVE  Escaped(done, token) \in Seq(Tokens) /\ Headings(Escaped(done, token)) = {}
<1>. DEFINE grown == Escaped(done, token)
            n == Len(done)
<1>0. n \in Nat /\ \A i \in 1 .. n - 1 : ~(done[i] = "h1" /\ done[i + 1] = "h2")
  BY HeadingAt
<1>1. CASE token = "h2" /\ done # <<>> /\ done[n] = "h1"
  <2>. DEFINE front == SubSeq(done, 1, n - 1)
  <2>1. n >= 1 /\ grown = front \o EscapedHeading
    BY <1>1 DEF Escaped, Heading, Last, Front
  <2>2. front \in Seq(Tokens) /\ Len(front) = n - 1 /\ \A i \in 1 .. n - 1 : front[i] = done[i]
    <3>1. n - 1 \in 0 .. n /\ n - 1 - 1 + 1 = n - 1 /\ \A i \in 1 .. n - 1 : 1 + i - 1 = i
      BY <1>0, <2>1
    <3>. QED  BY <1>0, <2>1, <3>1, SubSeqProperties
  <2>3. /\ EscapedHeading \in Seq(Tokens) /\ Len(EscapedHeading) = 3
        /\ EscapedHeading[1] = "e1" /\ EscapedHeading[2] = "e2" /\ EscapedHeading[3] = "e3"
    BY RenderingAssumption DEF EscapedHeading
  <2>. HIDE DEF front
  <2>4. /\ grown \in Seq(Tokens) /\ Len(grown) = n + 2
        /\ \A i \in 1 .. n - 1 : grown[i] = done[i]
        /\ grown[n] = "e1" /\ grown[n + 1] = "e2" /\ grown[n + 2] = "e3"
    <3>. HIDE DEF grown, n
    <3>. DEFINE m == Len(front)
    <3>1. /\ grown \in Seq(Tokens)
          /\ Len(grown) = m + 3
          /\ \A i \in 1 .. m + 3 : grown[i] = IF i <= m THEN front[i] ELSE EscapedHeading[i - m]
      <4>1. front \in Seq(Tokens) /\ EscapedHeading \in Seq(Tokens)
        BY <2>2, <2>3
      <4>2. /\ grown \in Seq(Tokens)
            /\ Len(grown) = m + Len(EscapedHeading)
            /\ \A i \in 1 .. m + Len(EscapedHeading) :
                 grown[i] = IF i <= m THEN front[i] ELSE EscapedHeading[i - m]
        BY <2>1, <4>1, ConcatProperties
      <4>. QED  BY <2>3, <4>2
    <3>. HIDE DEF m
    <3>2. m \in Nat /\ n = m + 1
      BY <1>0, <2>1, <2>2 DEF m
    <3>3. /\ n \in 1 .. m + 3 /\ n + 1 \in 1 .. m + 3 /\ n + 2 \in 1 .. m + 3
          /\ ~(n <= m) /\ ~(n + 1 <= m) /\ ~(n + 2 <= m)
          /\ n - m = 1 /\ n + 1 - m = 2 /\ n + 2 - m = 3
      BY <3>2
    <3>4. grown[n] = "e1" /\ grown[n + 1] = "e2" /\ grown[n + 2] = "e3"
      <4>1. ASSUME NEW i \in 1 .. m + 3, ~(i <= m)
            PROVE  grown[i] = EscapedHeading[i - m]
        BY <3>1, <4>1
      <4>2. grown[n] = EscapedHeading[1]
        BY <3>3, <4>1
      <4>3. grown[n + 1] = EscapedHeading[2]
        BY <3>2, <3>3, <4>1
      <4>4. grown[n + 2] = EscapedHeading[3]
        BY <3>2, <3>3, <4>1
      <4>. QED  BY <2>3, <4>2, <4>3, <4>4
    <3>5. \A i \in 1 .. n - 1 : grown[i] = done[i]
      BY <2>2, <3>1, <3>2
    <3>. QED  BY <3>1, <3>2, <3>4, <3>5
  <2>. HIDE DEF grown
  <2>5. ASSUME NEW i \in 1 .. n + 1, grown[i] = "h1", grown[i + 1] = "h2"
        PROVE  FALSE
    <3>1. i \in 1 .. n - 2 \/ i = n - 1 \/ i = n \/ i = n + 1
      BY <1>0, <2>1
    <3>2. ASSUME i \in 1 .. n - 2
          PROVE  grown[i] = done[i] /\ grown[i + 1] = done[i + 1] /\ i \in 1 .. n - 1
      <4>1. i \in 1 .. n - 1 /\ i + 1 \in 1 .. n - 1
        BY <1>0, <2>1, <3>2
      <4>. QED  BY <2>4, <4>1
    <3>3. i = n - 1 => grown[i + 1] = "e1"
      BY <1>0, <2>4
    <3>. QED  BY <1>0, <2>4, <2>5, <3>1, <3>2, <3>3
  <2>6. Len(grown) - 1 = n + 1
    BY <1>0, <2>4
  <2>. QED  BY <2>4, <2>5, <2>6, HeadingAt DEF Headings, grown
<1>2. CASE ~(token = "h2" /\ done # <<>> /\ done[n] = "h1")
  <2>1. grown = Append(done, token)
    BY <1>2 DEF Escaped, Heading, Last
  <2>2. /\ grown \in Seq(Tokens) /\ Len(grown) = n + 1 /\ grown[n + 1] = token
        /\ \A i \in 1 .. n : grown[i] = done[i]
    <3>. HIDE DEF grown
    <3>. QED  BY <2>1, AppendProperties
  <2>3. ASSUME NEW i \in 1 .. n, grown[i] = "h1", grown[i + 1] = "h2"
        PROVE  FALSE
    <3>1. i \in 1 .. n - 1 \/ i = n
      BY <1>0
    <3>2. i \in 1 .. n - 1 => grown[i + 1] = done[i + 1]
      BY <1>0, <2>2
    <3>3. i = n => done # <<>>
      BY <1>0
    <3>. QED  BY <1>0, <1>2, <2>2, <2>3, <3>1, <3>2, <3>3
  <2>4. Len(grown) - 1 = n
    BY <1>0, <2>2
  <2>. QED  BY <2>2, <2>3, <2>4, HeadingAt DEF Headings, grown
<1>. QED  BY <1>1, <1>2

(* Neutralizing leaves a text without a heading.                           *)
LEMMA NeutralizedIsFree ==
  ASSUME NEW text \in Seq(Tokens)
  PROVE  /\ Neutralized(text) \in Seq(Tokens)
         /\ Headings(Neutralized(text)) = {}
         /\ text = <<>> => Neutralized(text) = <<>>
<1>. DEFINE n == Len(text)
            Free == {t \in Seq(Tokens) : Headings(t) = {}}
            Grown(f, i) == IF i = 0 THEN <<>> ELSE Escaped(f[i - 1], text[i])
            Solves(f) == f = [i \in 0 .. n |-> Grown(f, i)]
            done == CHOOSE f : Solves(f)
            Solved(m) == \E g \in [0 .. m -> Free] : \A i \in 0 .. m : g[i] = Grown(g, i)
            Reached == {m \in 0 .. n : Solved(m)}
<1>1. n \in Nat /\ \A i \in 1 .. n : text[i] \in Tokens
  OBVIOUS
<1>2. <<>> \in Free /\ \A t \in Free : \A token \in Tokens : Escaped(t, token) \in Free
  <2>1. <<>> \in Seq(Tokens) /\ Headings(<<>>) = {}
    BY DEF Headings
  <2>. QED  BY <2>1, EscapedIsFree
<1>. HIDE DEF Free
<1>3. Solved(n)
  <2>1. 0 \in Reached
    <3>. DEFINE g == [i \in 0 .. 0 |-> <<>>]
    <3>1. g \in [0 .. 0 -> Free] /\ \A i \in 0 .. 0 : g[i] = Grown(g, i)
      BY <1>2
    <3>2. Solved(0)
      BY <3>1
    <3>. HIDE DEF Solved
    <3>. QED  BY <1>1, <3>2
  <2>2. ASSUME NEW m \in 0 .. n - 1, m \in Reached
        PROVE  m + 1 \in Reached
    <3>1. PICK g \in [0 .. m -> Free] : \A i \in 0 .. m : g[i] = Grown(g, i)
      BY <2>2
    <3>. DEFINE h == [i \in 0 .. m + 1 |-> IF i = m + 1 THEN Escaped(g[m], text[m + 1]) ELSE g[i]]
    <3>2. g[m] \in Free /\ text[m + 1] \in Tokens /\ m + 1 \in 0 .. n /\ m \in Nat
      BY <1>1
    <3>3. Escaped(g[m], text[m + 1]) \in Free
      BY <1>2, <3>2
    <3>4. h \in [0 .. m + 1 -> Free]
      BY <3>3
    <3>5. ASSUME NEW i \in 0 .. m + 1 PROVE h[i] = Grown(h, i)
      <4>1. CASE i = m + 1
        <5>1. i # 0 /\ i - 1 = m /\ m # m + 1 /\ m \in 0 .. m + 1
          BY <3>2, <4>1
        <5>2. h[i] = Escaped(g[m], text[m + 1]) /\ h[m] = g[m]
          BY <4>1, <5>1
        <5>. QED  BY <4>1, <5>1, <5>2
      <4>2. CASE i # m + 1
        <5>1. i \in 0 .. m /\ (i = 0 \/ i - 1 \in 0 .. m)
          BY <3>2, <4>2
        <5>2. h[i] = g[i] /\ (i = 0 \/ h[i - 1] = g[i - 1])
          BY <3>2, <4>2, <5>1
        <5>. QED  BY <3>1, <5>1, <5>2
      <4>. QED  BY <4>1, <4>2
    <3>6. Solved(m + 1)
      <4>. HIDE DEF h
      <4>. QED  BY <3>4, <3>5
    <3>. HIDE DEF Solved
    <3>. QED  BY <3>2, <3>6
  <2>. HIDE DEF Solved
  <2>3. 0 .. n \subseteq Reached
    <3>. HIDE DEF Reached, n
    <3>. QED  BY <1>1, <2>1, <2>2, Climb
  <2>. QED  BY <1>1, <2>3
<1>4. PICK g \in [0 .. n -> Free] : \A i \in 0 .. n : g[i] = Grown(g, i)
  BY <1>3
<1>5. Solves(g)
  BY <1>4
<1>6. Solves(done)
  <2>. HIDE DEF Solves
  <2>. QED  BY <1>5
<1>7. Neutralized(text) = done[n]
  BY DEF Neutralized
<1>. HIDE DEF done
<1>8. done[n] \in Free
  <2>. DEFINE Typed == {i \in 0 .. n : done[i] \in Free}
  <2>1. \A i \in 0 .. n : done[i] = Grown(done, i)
    BY <1>6
  <2>. HIDE DEF n
  <2>2. 0 \in Typed
    BY <1>1, <1>2, <2>1
  <2>3. ASSUME NEW i \in 0 .. n - 1, i \in Typed
        PROVE  i + 1 \in Typed
    <3>1. done[i] \in Free /\ text[i + 1] \in Tokens /\ i + 1 \in 0 .. n /\ i + 1 # 0 /\ i + 1 - 1 = i
      BY <1>1, <2>3
    <3>2. done[i + 1] = Escaped(done[i + 1 - 1], text[i + 1])
      BY <2>1, <3>1
    <3>. QED  BY <1>2, <3>1, <3>2
  <2>. HIDE DEF Typed
  <2>4. 0 .. n \subseteq Typed
    BY <1>1, <2>2, <2>3, Climb
  <2>. QED  BY <1>1, <2>4 DEF Typed
<1>9. text = <<>> => done[n] = <<>>
  BY <1>1, <1>6
<1>. QED  BY <1>7, <1>8, <1>9 DEF Free
-----------------------------------------------------------------------------
\* An event the parser took for an envelope, and an entry it accepted.
Understood(e) == e \in Envelopes /\ ParsedEnvelope(e) = "envelope"
Accepted(entry) == entry \in Entries /\ EntryOK(entry)

LEMMA ConditionalFields == Conditional = {"initiative", "phase", "milestone"}
<1>1. \A type \in EventTypes : RequiredFields(type) \subseteq {"initiative", "phase", "milestone"}
  BY DEF RequiredFields, MilestoneEvents
<1>2. RequiredFields("initiative_phase_completed") = {"initiative", "phase"}
  BY DEF RequiredFields, MilestoneEvents
<1>3. RequiredFields("milestone_released") = {"milestone"}
  BY DEF RequiredFields, MilestoneEvents
<1>4. "initiative_phase_completed" \in EventTypes /\ "milestone_released" \in EventTypes
  BY DEF EventTypes, MilestoneEvents
<1>. QED  BY <1>1, <1>2, <1>3, <1>4 DEF Conditional

\* What the parser guarantees for the type of an event, the event carries.
LEMMA GuaranteedIsCarried ==
  ASSUME NEW e, Understood(e), NEW f \in Guaranteed(e.type)
  PROVE  e.payload[f] # Absent
<1>1. e.payload["scope"] # Absent /\ TypeShapeOK(e)
  BY DEF Understood, ParsedEnvelope, Shapes, Envelopes
<1>2. CASE f = "scope"
  BY <1>1, <1>2
<1>3. CASE f \in RequiredFields(e.type)
  BY <1>1, <1>3 DEF TypeShapeOK
<1>. QED  BY <1>2, <1>3 DEF Guaranteed, AlwaysPresent

\* A word of a closed vocabulary is a text of one token.
LEMMA WordsAreTexts ==
  \A word \in EventTypes \cup EntityKinds \cup Consequences \cup PolicyModes \cup {"version"} :
    Token(word) \in Seq(Tokens)
BY EnvelopeAssumption, RulesAssumption, RenderingAssumption DEF Token, WireWords

\* The contract between policies.py and engine.py, with events.py between them.
LEMMA AcceptedKeysRender ==
  ASSUME NEW e, Understood(e), NEW entry, Accepted(entry), Matches(entry, e)
  PROVE  KeyRenders(entry, e)
<1>1. SUFFICES ASSUME NEW f \in ReferencedFields(entry.dedup)
               PROVE  KeyValue(entry, e, f) # Absent
  BY DEF KeyRenders, MissingKeyFields
<1>2. f \in KeyFields
  BY DEF Accepted, EntryOK, KeyTemplateOK
<1>3. e.tenant # Absent /\ e.id # Absent /\ e.entity # Absent /\ entry.policy_id # Absent
  BY EnvelopeAssumption, RulesAssumption DEF Understood, Envelopes, Accepted, Entries
<1>4. Token(e.type) # Absent /\ Token(e.kind) # Absent /\ Token(entry.consequence) # Absent
  BY WordsAreTexts, EnvelopeAssumption DEF Understood, Envelopes, Accepted, Entries
<1>5. CASE f \in {"scope"} \cup Conditional
  <2>1. f \in Guaranteed(e.type)
    <3>1. CASE f = "scope"
      BY <3>1 DEF Guaranteed, AlwaysPresent
    <3>2. CASE f \in Conditional
      BY <3>2 DEF Accepted, EntryOK, KeyTemplateOK, Matches
    <3>. QED  BY <1>5, <3>1, <3>2
  <2>2. e.payload[f] # Absent
    BY <2>1, GuaranteedIsCarried
  <2>. QED  BY <1>5, <2>2, ConditionalFields DEF KeyValue
<1>6. CASE f \notin {"scope"} \cup Conditional
  BY <1>2, <1>3, <1>4, <1>6 DEF KeyValue, KeyFields, KeyFieldsAlways
<1>. QED  BY <1>5, <1>6

-----------------------------------------------------------------------------
\* Once loaded, a set is one the parser accepted.
Loaded == phase \notin {"fetched", "quarantined"}
AcceptedSet == Loaded => ParsedPolicySet(Bodies[version], Tenant) = "valid"

AtWork == phase \in {"delivering", "rendering"}
\* At work, the event is understood and its selected entries are either left or
\* delivered, in declaration order.
InOrder ==
  AtWork =>
    /\ pos \in Positions
    /\ Understood(event)
    /\ Selects(event) = left \cup {d.entry : d \in deliveries}
    /\ \A d \in deliveries, i \in left : d.entry < i

\* Entries of a delivered key: one delivery each, the owner first.
Owned ==
  /\ \A c, d \in deliveries : c.entry = d.entry => c = d
  /\ \A d \in deliveries :
       d.outcome = "matched" <=> ~ \E c \in deliveries : c.entry < d.entry /\ c.key = d.key
  /\ \A d \in deliveries : \E m \in deliveries :
       m.key = d.key /\ m.outcome = "matched" /\ m.entry <= d.entry

Idle == ~AtWork => left = {} /\ deliveries = {} /\ requests = {}
RenderedLast == phase = "delivering" => requests = {}
EmptyAtEnd == phase = "rendering" => left = {}

IInv == TypeOK /\ AcceptedSet /\ InOrder /\ Owned /\ Idle /\ RenderedLast /\ EmptyAtEnd /\ KeysRender

LEMMA EntriesTyped ==
  ASSUME version \in Versions
  PROVE  /\ policies \in Seq(Entries)
         /\ DOMAIN policies \subseteq Int
         /\ \A i \in DOMAIN policies : policies[i] \in Entries
<1>1. policies \in Seq(Entries)
  BY EvaluationAssumption DEF policies
<1>2. DOMAIN policies = 1 .. Len(policies) /\ Len(policies) \in Nat
  BY <1>1
<1>. QED  BY <1>1, <1>2

LEMMA InitIInv == Init => IInv
  BY DEF Init, IInv, TypeOK, Phases, AcceptedSet, Loaded, InOrder, AtWork, Owned, Idle,
         RenderedLast, EmptyAtEnd, KeysRender

LEMMA LoadPreserves == IInv /\ LoadPolicySet => IInv'
<1>. SUFFICES ASSUME IInv, LoadPolicySet PROVE IInv'
  OBVIOUS
<1>. USE DEF IInv, LoadPolicySet
<1>1. ~AtWork /\ ~AtWork' /\ phase' \in {"evaluable", "quarantined"}
  BY DEF AtWork
<1>2. TypeOK'
  BY <1>1 DEF TypeOK, Phases, policies
<1>3. AcceptedSet'
  BY DEF AcceptedSet, Loaded
<1>. QED  BY <1>1, <1>2, <1>3 DEF InOrder, Owned, Idle, RenderedLast, EmptyAtEnd, KeysRender

LEMMA HandlePreserves ==
  ASSUME IInv, NEW n \in Positions, HandleEvent(n)
  PROVE  IInv'
<1>. USE DEF IInv, HandleEvent
<1>1. /\ phase = "evaluable" /\ ~AtWork
      /\ deliveries = {} /\ requests = {} /\ deliveries' = {} /\ requests' = {}
      /\ policies' = policies /\ event' = Stream[n]
  BY DEF AtWork, Idle, policies, event
<1>2. Selects(Stream[n]) \subseteq DOMAIN policies
  BY DEF Selects, MatchingEntries
<1>3. AcceptedSet' /\ Owned' /\ KeysRender'
  BY <1>1 DEF AcceptedSet, Loaded, Owned, KeysRender
<1>4. CASE ParsedEnvelope(Stream[n]) = "envelope" /\ Stream[n].tenant = Tenant /\ Selects(Stream[n]) # {}
  <2>1. phase' = "delivering" /\ left' = Selects(Stream[n])
    BY <1>4
  <2>2. TypeOK'
    BY <1>1, <1>2, <2>1 DEF TypeOK, Phases
  <2>3. Selects(event)' = Selects(Stream[n])
    BY <1>1 DEF Selects
  <2>4. Understood(event)'
    BY <1>1, <1>4, EvaluationAssumption DEF Understood
  <2>5. InOrder'
    BY <1>1, <2>1, <2>3, <2>4 DEF InOrder
  <2>. QED  BY <1>1, <1>3, <2>1, <2>2, <2>5 DEF Idle, AtWork, RenderedLast, EmptyAtEnd
<1>5. CASE ~(ParsedEnvelope(Stream[n]) = "envelope" /\ Stream[n].tenant = Tenant /\ Selects(Stream[n]) # {})
  <2>1. phase' \in {"malformed", "foreign", "ignored"} /\ left' = {}
    BY <1>5
  <2>2. TypeOK'
    BY <1>1, <2>1 DEF TypeOK, Phases
  <2>. QED  BY <1>1, <1>3, <2>1, <2>2 DEF InOrder, Idle, AtWork, RenderedLast, EmptyAtEnd
<1>. QED  BY <1>4, <1>5

\* The entry being delivered was accepted, and selects the event.
LEMMA LeftIsAccepted ==
  ASSUME IInv, phase = "delivering", NEW i \in left
  PROVE  /\ i \in DOMAIN policies /\ i \in Int
         /\ Accepted(policies[i])
         /\ Understood(event)
         /\ Matches(policies[i], event)
<1>. USE DEF IInv
<1>1. version \in Versions /\ i \in DOMAIN policies
  BY DEF TypeOK
<1>2. policies[i] \in Entries /\ i \in Int
  BY <1>1, EntriesTyped
<1>3. EntryOK(policies[i])
  BY <1>1 DEF AcceptedSet, Loaded, ParsedPolicySet, policies
<1>4. Understood(event) /\ i \in Selects(event)
  BY DEF InOrder, AtWork
<1>. QED  BY <1>1, <1>2, <1>3, <1>4 DEF Accepted, Selects, MatchingEntries

LEMMA DeliverPreserves ==
  ASSUME IInv, NEW i \in left, Deliver(i)
  PROVE  IInv'
<1>. USE DEF IInv
<1>. DEFINE key == RenderedKey(policies[i], event)
            new == [entry |-> i, key |-> key,
                    outcome |-> IF Claimed(i, key) THEN "failed" ELSE "matched"]
<1>1. /\ phase = "delivering" /\ AtWork /\ AtWork'
      /\ version' = version /\ pos' = pos /\ policies' = policies /\ event' = event
      /\ left' = left \ {i} /\ deliveries' = deliveries \cup {new}
      /\ \A j \in left : i <= j
      /\ phase' = IF left' = {} THEN "rendering" ELSE "delivering"
      /\ requests = {} /\ requests' = {}
  BY DEF Deliver, AtWork, policies, event, RenderedLast
<1>2. i \in DOMAIN policies /\ i \in Int
  BY <1>1, LeftIsAccepted
<1>3. \A j \in DOMAIN policies : j \in Int
  BY EntriesTyped DEF TypeOK
<1>4. \A d \in deliveries : d.entry \in Int /\ d.entry < i
  BY <1>1, <1>3 DEF TypeOK, InOrder
<1>5. new.entry = i /\ new.key = key /\ new.outcome \in {"matched", "failed"}
      /\ (new.outcome = "matched" <=> ~Claimed(i, key))
  OBVIOUS
<1>. HIDE DEF new, key
<1>6. TypeOK'
  BY <1>1, <1>2, <1>5 DEF TypeOK, Phases
<1>7. AcceptedSet'
  BY <1>1 DEF AcceptedSet, Loaded
<1>8. InOrder'
  <2>1. Selects(event)' = Selects(event)
    BY <1>1 DEF Selects
  <2>2. {d.entry : d \in deliveries'} = {d.entry : d \in deliveries} \cup {i}
    BY <1>1, <1>5
  <2>3. Selects(event) = left' \cup {d.entry : d \in deliveries'}
    BY <1>1, <2>2 DEF InOrder
  <2>4. \A d \in deliveries', j \in left' : d.entry < j
    <3>. SUFFICES ASSUME NEW d \in deliveries', NEW j \in left' PROVE d.entry < j
      OBVIOUS
    <3>1. j \in Int /\ i <= j /\ i # j /\ j \in left
      BY <1>1, <1>3 DEF TypeOK
    <3>. QED  BY <1>1, <1>2, <1>5, <3>1 DEF InOrder
  <2>. QED  BY <1>1, <2>1, <2>3, <2>4 DEF InOrder, Understood
<1>9. Owned'
  <2>1. Claimed(i, key) <=> \E c \in deliveries : c.key = key
    BY DEF Owned, Claimed
  <2>2. \A c, d \in deliveries' : c.entry = d.entry => c = d
    BY <1>1, <1>2, <1>4, <1>5 DEF Owned
  <2>3. \A d \in deliveries' :
          d.outcome = "matched" <=> ~ \E c \in deliveries' : c.entry < d.entry /\ c.key = d.key
    <3>. SUFFICES ASSUME NEW d \in deliveries'
                  PROVE  d.outcome = "matched" <=>
                           ~ \E c \in deliveries' : c.entry < d.entry /\ c.key = d.key
      OBVIOUS
    <3>1. CASE d = new
      BY <1>1, <1>2, <1>4, <1>5, <2>1, <3>1
    <3>2. CASE d \in deliveries
      <4>1. ~(new.entry < d.entry)
        BY <1>2, <1>4, <1>5, <3>2
      <4>. QED  BY <1>1, <3>2, <4>1 DEF Owned
    <3>. QED  BY <1>1, <3>1, <3>2
  <2>4. \A d \in deliveries' : \E m \in deliveries' :
          m.key = d.key /\ m.outcome = "matched" /\ m.entry <= d.entry
    <3>. SUFFICES ASSUME NEW d \in deliveries'
                  PROVE  \E m \in deliveries' :
                           m.key = d.key /\ m.outcome = "matched" /\ m.entry <= d.entry
      OBVIOUS
    <3>1. CASE d \in deliveries
      BY <1>1, <3>1 DEF Owned
    <3>2. CASE d = new /\ Claimed(i, key)
      BY <1>1, <1>2, <1>4, <1>5, <3>2 DEF Claimed
    <3>3. CASE d = new /\ ~Claimed(i, key)
      BY <1>1, <1>2, <1>5, <3>3
    <3>. QED  BY <1>1, <3>1, <3>2, <3>3
  <2>. QED  BY <2>2, <2>3, <2>4 DEF Owned
<1>. QED  BY <1>1, <1>6, <1>7, <1>8, <1>9 DEF Idle, RenderedLast, EmptyAtEnd, KeysRender

\* The step that would stop the stream is never enabled.
LEMMA NeverRaises ==
  ASSUME IInv, NEW i \in left
  PROVE  ~DeliverRaises(i)
BY LeftIsAccepted, AcceptedKeysRender DEF DeliverRaises

LEMMA RenderPreserves ==
  ASSUME IInv, NEW d \in deliveries, Render(d)
  PROVE  IInv'
<1>. USE DEF IInv, Render
<1>1. /\ phase = "rendering" /\ phase' = "rendering" /\ AtWork /\ AtWork'
      /\ policies' = policies /\ event' = event /\ Selects(event)' = Selects(event)
  BY DEF AtWork, policies, event, Selects
<1>2. TypeOK'
  BY <1>1 DEF TypeOK
<1>3. AcceptedSet' /\ Owned' /\ KeysRender'
  BY <1>1 DEF AcceptedSet, Loaded, Owned, KeysRender
<1>4. InOrder'
  BY <1>1 DEF InOrder, Understood
<1>. QED  BY <1>1, <1>2, <1>3, <1>4 DEF Idle, RenderedLast, EmptyAtEnd

LEMMA AcknowledgePreserves == IInv /\ Acknowledge => IInv'
<1>. SUFFICES ASSUME IInv, Acknowledge PROVE IInv'
  OBVIOUS
<1>. USE DEF IInv, Acknowledge
<1>1. ~AtWork' /\ left = {} /\ left' = {} /\ policies' = policies
  BY DEF AtWork, Idle, EmptyAtEnd, EventDone, policies
<1>2. TypeOK'
  BY <1>1 DEF TypeOK, Phases
<1>3. AcceptedSet'
  BY DEF AcceptedSet, Loaded, EventDone
<1>. QED  BY <1>1, <1>2, <1>3 DEF InOrder, Owned, Idle, RenderedLast, EmptyAtEnd, KeysRender

LEMMA RefetchPreserves ==
  ASSUME IInv, NEW v \in Versions, Refetch(v)
  PROVE  IInv'
<1>. USE DEF IInv, Refetch
<1>1. ~AtWork /\ ~AtWork' /\ left' = {} /\ requests' = {}
  BY DEF AtWork, Idle
<1>2. TypeOK'
  BY <1>1 DEF TypeOK, Phases
<1>. QED  BY <1>1, <1>2 DEF AcceptedSet, Loaded, InOrder, Owned, Idle, RenderedLast, EmptyAtEnd, KeysRender

LEMMA StutterPreserves == IInv /\ UNCHANGED vars => IInv'
BY DEF IInv, vars, TypeOK, policies, event, Selects, AcceptedSet, Loaded, InOrder, AtWork,
       Understood, Owned, Idle, RenderedLast, EmptyAtEnd, KeysRender

LEMMA NextIInv == IInv /\ [Next]_vars => IInv'
BY LoadPreserves, HandlePreserves, DeliverPreserves, NeverRaises, RenderPreserves,
   AcknowledgePreserves, RefetchPreserves, StutterPreserves DEF Next

LEMMA IInvAlways == Spec => []IInv
BY InitIInv, NextIInv, PTL DEF Spec

-----------------------------------------------------------------------------
(* Every variable holds what the code can put there, and no request exists *)
(* but for an entry recorded as the owner of its key.                      *)
THEOREM TypeCorrect == Spec => []TypeOK
<1>1. IInv => TypeOK
  BY DEF IInv
<1>. QED  BY IInvAlways, <1>1, PTL

(* engine.DedupKeyUnrenderable is unreachable, for every policy set, every *)
(* event and every glob: policies.py's parse-time check and events.py's    *)
(* guarantees fit together.                                                *)
THEOREM KeysAlwaysRender == Spec => []KeysRender
<1>1. IInv => KeysRender
  BY DEF IInv
<1>. QED  BY IInvAlways, <1>1, PTL

(* Every entry that selects an event is the one owner of its key, or is    *)
(* refused aloud behind an earlier one, however many render the same key.  *)
THEOREM OwnersAreUnique == Spec => []OneOwnerPerKey
<1>1. IInv => OneOwnerPerKey
  <2>. SUFFICES ASSUME IInv, phase = "rendering", NEW i \in Selects(event)
                PROVE  \E d \in deliveries :
                         /\ d.entry = i
                         /\ d.outcome = "matched" <=> ~ \E c \in deliveries : c.entry < i /\ c.key = d.key
    BY DEF OneOwnerPerKey
  <2>1. i \in {d.entry : d \in deliveries}
    BY DEF IInv, InOrder, AtWork, EmptyAtEnd
  <2>2. PICK d \in deliveries : d.entry = i
    BY <2>1
  <2>. QED  BY <2>2 DEF IInv, Owned
<1>. QED  BY IInvAlways, <1>1, PTL

-----------------------------------------------------------------------------
(* The values a template quotes.                                           *)

TextsOrAbsent == Seq(Tokens) \cup {Absent}

(* Members joined are a text, unless there are none.                       *)
LEMMA JoinedIsText ==
  ASSUME NEW values \in Seq(Texts), values # <<>>
  PROVE  Joined(values) \in Seq(Tokens)
<1>. DEFINE pieces == [i \in DOMAIN values |-> IF i = 1 THEN values[i] ELSE Separator \o values[i]]
<1>1. Joined(values) = FlattenSeq(pieces)
  BY DEF Joined
<1>2. ASSUME NEW i \in DOMAIN values
      PROVE  pieces[i] \in Seq(Tokens)
  <2>1. values[i] \in Seq(Tokens) /\ Separator \in Seq(Tokens)
    BY EnvelopeAssumption, RenderingAssumption
  <2>2. Separator \o values[i] \in Seq(Tokens)
    BY <2>1, ConcatProperties
  <2>. QED  BY <2>1, <2>2
<1>3. pieces \in Seq(Seq(Tokens))
  <2>1. DOMAIN values = 1 .. Len(values) /\ Len(values) \in Nat
    OBVIOUS
  <2>. QED  BY <1>2, <2>1
<1>. QED  BY <1>1, <1>3, FlattenTyped

(* A field of the event or the entry is a text, if it is there.            *)
LEMMA KeyValueTyped ==
  ASSUME NEW e \in Envelopes, NEW entry \in Entries, NEW f \in KeyFields
  PROVE  KeyValue(entry, e, f) \in TextsOrAbsent
<1>1. /\ e.tenant \in Seq(Tokens) /\ e.id \in Seq(Tokens) /\ e.entity \in Seq(Tokens)
      /\ entry.policy_id \in Seq(Tokens)
  BY EnvelopeAssumption, RulesAssumption DEF Envelopes, Entries
<1>2. /\ Token(e.type) \in Seq(Tokens) /\ Token(e.kind) \in Seq(Tokens)
      /\ Token(entry.consequence) \in Seq(Tokens)
  BY WordsAreTexts DEF Envelopes, Entries
<1>3. CASE f \in {"scope"} \cup Conditional
  <2>1. f \in ScalarFields
    BY <1>3, ConditionalFields DEF ScalarFields
  <2>2. e.payload[f] \in TextsOrAbsent
    BY <2>1, EnvelopeAssumption DEF Envelopes, TextsOrAbsent
  <2>. QED  BY <1>3, <2>2, ConditionalFields DEF KeyValue
<1>4. CASE f \notin {"scope"} \cup Conditional
  BY <1>1, <1>2, <1>4 DEF KeyValue, KeyFields, KeyFieldsAlways, TextsOrAbsent
<1>. QED  BY <1>3, <1>4

OtherFields == {"details.to_state", "details.from_scope", "entity_phase", "work_kind",
                "mode", "policy_version_id", "dedup_key"}

(* The kinds of names do not overlap, so each has the value of its kind.   *)
LEMMA ValueOf ==
  ASSUME NEW e, NEW entry, NEW key, NEW name
  PROVE  LET value == TemplateValue(entry, e, key, name)
         IN /\ name = "details.to_state" => value = TextOrAbsent(e.details["to_state"])
            /\ name = "details.from_scope" => value = TextOrAbsent(e.details["from_scope"])
            /\ name \in MemberFields => value = Joined(e.members[name])
            /\ name = "entity_phase" => value = e.entity_phase
            /\ name = "work_kind" => value = e.payload["work_kind"]
            /\ name = "mode" => value = Token(entry.mode)
            /\ name = "policy_version_id" => value = Token("version")
            /\ name = "dedup_key" => value = key
            /\ name \in KeyFields => value = KeyValue(entry, e, name)
            /\ name \notin OtherFields \cup MemberFields \cup KeyFields => value = Absent
<1>1. /\ KeyFields = {"tenant", "policy_id", "event_id", "event_type", "entity_kind",
                      "entity_id", "scope", "consequence", "initiative", "phase", "milestone"}
      /\ MemberFields = {"relations", "signals"}
  BY ConditionalFields DEF KeyFields, KeyFieldsAlways, MemberFields
<1>2. CASE name \in MemberFields
  BY <1>1, <1>2 DEF TemplateValue, OtherFields
<1>3. CASE name \in KeyFields
  BY <1>1, <1>3 DEF TemplateValue, OtherFields
<1>4. CASE name \in OtherFields
  BY <1>1, <1>4 DEF TemplateValue, OtherFields
<1>5. CASE name \notin OtherFields \cup MemberFields \cup KeyFields
  BY <1>1, <1>5 DEF TemplateValue, OtherFields
<1>. QED  BY <1>2, <1>3, <1>4, <1>5

LEMMA ValueTyped ==
  ASSUME NEW e \in Envelopes, NEW entry \in Entries, NEW key \in Seq(Tokens), NEW name
  PROVE  TemplateValue(entry, e, key, name) \in TextsOrAbsent
<1>. DEFINE value == TemplateValue(entry, e, key, name)
<1>1. CASE name \in {"details.to_state", "details.from_scope"}
  <2>1. \E k \in DetailKeys : value = TextOrAbsent(e.details[k])
    BY <1>1, ValueOf DEF DetailKeys
  <2>2. \A k \in DetailKeys : TextOrAbsent(e.details[k]) \in TextsOrAbsent
    BY EnvelopeAssumption DEF Envelopes, TextOrAbsent, TextsOrAbsent
  <2>. QED  BY <2>1, <2>2
<1>2. CASE name \in MemberFields
  <2>1. e.members[name] \in Seq(Texts)
    BY <1>2 DEF Envelopes
  <2>2. Joined(e.members[name]) \in TextsOrAbsent
    BY <2>1, JoinedIsText DEF Joined, TextsOrAbsent
  <2>. QED  BY <1>2, <2>2, ValueOf
<1>3. CASE name \in {"entity_phase", "work_kind"}
  <2>1. e.entity_phase \in TextsOrAbsent /\ e.payload["work_kind"] \in TextsOrAbsent
    BY EnvelopeAssumption DEF Envelopes, ScalarFields, TextsOrAbsent
  <2>. QED  BY <1>3, <2>1, ValueOf
<1>4. CASE name \in {"mode", "policy_version_id", "dedup_key"}
  <2>1. Token(entry.mode) \in TextsOrAbsent /\ Token("version") \in TextsOrAbsent
    BY WordsAreTexts DEF Entries, TextsOrAbsent
  <2>. QED  BY <1>4, <2>1, ValueOf DEF TextsOrAbsent
<1>5. CASE name \in KeyFields
  BY <1>5, ValueOf, KeyValueTyped
<1>6. CASE name \notin OtherFields \cup MemberFields \cup KeyFields
  BY <1>6, ValueOf DEF TextsOrAbsent
<1>. QED  BY <1>1, <1>2, <1>3, <1>4, <1>5, <1>6 DEF OtherFields

(* A text padded is a text, no shorter than it was, nor than Width.        *)
LEMMA PaddedText ==
  ASSUME NEW text \in Seq(Tokens)
  PROVE  /\ Padded(text) \in Seq(Tokens)
         /\ Len(Padded(text)) = IF Len(text) <= Width THEN Width ELSE Len(text)
<1>. DEFINE more == Width - Len(text)
            fill == [i \in 1 .. more |-> Fill]
<1>1. Len(text) \in Nat /\ Width \in Nat /\ Fill \in Tokens
  BY RulesAssumption
<1>2. fill \in Seq(Tokens) /\ Len(fill) = IF Len(text) <= Width THEN more ELSE 0
  <2>1. CASE Len(text) <= Width
    <3>1. more \in Nat
      BY <1>1, <2>1
    <3>. HIDE DEF more
    <3>. QED  BY <1>1, <2>1, <3>1
  <2>2. CASE ~(Len(text) <= Width)
    <3>1. 1 .. more = {}
      BY <1>1, <2>2
    <3>2. fill = [i \in {} |-> Fill]
      BY <3>1
    <3>3. fill = <<>>
      BY <3>2
    <3>4. <<>> \in Seq(Tokens) /\ Len(<<>>) = 0
      OBVIOUS
    <3>. HIDE DEF fill
    <3>. QED  BY <2>2, <3>3, <3>4
  <2>. QED  BY <2>1, <2>2
<1>3. Padded(text) = text \o fill
  BY DEF Padded
<1>. HIDE DEF fill
<1>4. Padded(text) \in Seq(Tokens) /\ Len(Padded(text)) = Len(text) + Len(fill)
  BY <1>2, <1>3, ConcatProperties
<1>. QED  BY <1>1, <1>2, <1>4

(* A text formatted is a text.                                             *)
LEMMA FormattedIsText ==
  ASSUME NEW text \in Seq(Tokens), NEW spec
  PROVE  Formatted(text, spec) \in Seq(Tokens)
<1>1. text # <<>> => <<Head(text)>> \in Seq(Tokens)
  OBVIOUS
<1>2. Padded(text) \in Seq(Tokens)
  BY PaddedText
<1>. QED  BY <1>1, <1>2 DEF Formatted

(* A format makes no longer text the shorter, nor two of one length differ *)
(* in it.                                                                  *)
LEMMA FormattedLengths ==
  ASSUME NEW u \in Seq(Tokens), NEW v \in Seq(Tokens), NEW spec, Len(u) <= Len(v)
  PROVE  /\ Len(Formatted(u, spec)) <= Len(Formatted(v, spec))
         /\ Len(u) = Len(v) => Len(Formatted(u, spec)) = Len(Formatted(v, spec))
<1>1. Len(u) \in Nat /\ Len(v) \in Nat /\ Width \in Nat
  BY RulesAssumption
<1>2. CASE spec = "cut"
  <2>1. \A text \in Seq(Tokens) : text # <<>> => Formatted(text, spec) = <<Head(text)>>
    BY <1>2 DEF Formatted
  <2>2. \A text \in Seq(Tokens) : text # <<>> => Len(Formatted(text, spec)) = 1
    BY <2>1
  <2>3. \A text \in Seq(Tokens) : text = <<>> => Formatted(text, spec) = <<>>
    BY <1>2 DEF Formatted
  <2>4. \A text \in Seq(Tokens) : text = <<>> <=> Len(text) = 0
    OBVIOUS
  <2>. QED  BY <1>1, <2>2, <2>3, <2>4
<1>3. CASE spec \in {"padded", "wide"}
  <2>1. Formatted(u, spec) = Padded(u) /\ Formatted(v, spec) = Padded(v)
    BY <1>3 DEF Formatted
  <2>2. /\ Len(Padded(u)) = IF Len(u) <= Width THEN Width ELSE Len(u)
        /\ Len(Padded(v)) = IF Len(v) <= Width THEN Width ELSE Len(v)
    BY PaddedText
  <2>. HIDE DEF Formatted
  <2>. QED  BY <1>1, <2>1, <2>2
<1>4. CASE spec \notin {"cut", "padded", "wide"}
  BY <1>4 DEF Formatted
<1>. QED  BY <1>2, <1>3, <1>4

\* A key, part by part.
KeyPiece(entry, e, i) ==
  LET part == entry.dedup[i] IN
  IF part.name = "literal" THEN part.text
                           ELSE Formatted(KeyValue(entry, e, part.name), part.spec)

KeyPieces(entry, e) == [i \in DOMAIN entry.dedup |-> KeyPiece(entry, e, i)]

\* The parts of an accepted key are literals and fields of a key.
LEMMA KeyPartKinds ==
  ASSUME NEW entry, Accepted(entry), NEW i \in DOMAIN entry.dedup, entry.dedup[i].name # "literal"
  PROVE  /\ entry.dedup[i].name \in KeyFields \cap ReferencedFields(entry.dedup)
         /\ i \in FieldParts(entry.dedup)
<1>1. KeyTemplateOK(entry)
  BY DEF Accepted, EntryOK
<1>2. i \in FieldParts(entry.dedup)
  BY <1>1 DEF KeyTemplateOK, ParsesAsKey, Balanced, FieldParts
<1>. QED  BY <1>1, <1>2 DEF ReferencedFields, KeyTemplateOK

(* The parts of a key that renders are texts.                              *)
LEMMA KeyPiecesTyped ==
  ASSUME NEW e, Understood(e), NEW entry, Accepted(entry), KeyRenders(entry, e)
  PROVE  /\ KeyPieces(entry, e) \in Seq(Seq(Tokens))
         /\ Len(KeyPieces(entry, e)) = Len(entry.dedup)
         /\ RenderedKey(entry, e) = FlattenSeq(KeyPieces(entry, e))
<1>. DEFINE template == entry.dedup
<1>1. e \in Envelopes /\ entry \in Entries /\ template \in Seq(Parts)
  BY DEF Understood, Accepted, Entries, Templates
<1>2. ASSUME NEW i \in DOMAIN template
      PROVE  KeyPiece(entry, e, i) \in Seq(Tokens)
  <2>1. template[i] \in Parts
    BY <1>1
  <2>2. CASE template[i].name = "literal"
    BY <2>1, <2>2 DEF Parts, KeyPiece
  <2>3. CASE template[i].name # "literal"
    <3>1. template[i].name \in KeyFields /\ KeyValue(entry, e, template[i].name) # Absent
      BY <2>3, KeyPartKinds DEF KeyRenders, MissingKeyFields
    <3>2. KeyValue(entry, e, template[i].name) \in Seq(Tokens)
      BY <1>1, <3>1, KeyValueTyped DEF TextsOrAbsent
    <3>. QED  BY <2>3, <3>2, FormattedIsText DEF KeyPiece
  <2>. QED  BY <2>2, <2>3
<1>3. DOMAIN template = 1 .. Len(template) /\ Len(template) \in Nat
  BY <1>1
<1>. HIDE DEF template
<1>4. KeyPieces(entry, e) = [i \in DOMAIN template |-> KeyPiece(entry, e, i)]
  BY DEF KeyPieces, template
<1>5. RenderedKey(entry, e) = FlattenSeq(KeyPieces(entry, e))
  BY DEF RenderedKey, KeyPieces, KeyPiece
<1>6. Len(KeyPieces(entry, e)) = Len(template)
  BY <1>3, <1>4
<1>. QED  BY <1>2, <1>3, <1>4, <1>5, <1>6 DEF template

(* A key that renders is a text.                                           *)
LEMMA KeyIsText ==
  ASSUME NEW e, Understood(e), NEW entry, Accepted(entry), KeyRenders(entry, e)
  PROVE  RenderedKey(entry, e) \in Seq(Tokens)
BY KeyPiecesTyped, FlattenTyped
-----------------------------------------------------------------------------
(* What is rendered, and for which delivery.                               *)

\* Deliveries have the key evaluation rendered, and requests are the renderings
\* of recorded deliveries.
AsRendered ==
  /\ \A d \in deliveries : d.key = RenderedKey(policies[d.entry], event)
  /\ \A r \in requests : \E d \in deliveries :
       /\ d.entry = r.entry /\ d.outcome = "matched"
       /\ r.result = RenderedRequest(policies[d.entry], event, d.key)

LEMMA NextAsRendered == IInv /\ AsRendered /\ [Next]_vars => AsRendered'
<1>. SUFFICES ASSUME IInv, AsRendered, [Next]_vars PROVE AsRendered'
  OBVIOUS
<1>1. ASSUME NEW i \in left, Deliver(i)
      PROVE  AsRendered'
  <2>1. requests' = {} /\ policies' = policies /\ event' = event
    BY <1>1 DEF Deliver, IInv, RenderedLast, policies, event
  <2>. DEFINE key == RenderedKey(policies[i], event)
              new == [entry |-> i, key |-> key,
                      outcome |-> IF Claimed(i, key) THEN "failed" ELSE "matched"]
  <2>2. deliveries' = deliveries \cup {new} /\ new.entry = i /\ new.key = key
    BY <1>1 DEF Deliver
  <2>. HIDE DEF new
  <2>. QED  BY <2>1, <2>2 DEF AsRendered
<1>2. ASSUME NEW d \in deliveries, Render(d)
      PROVE  AsRendered'
  <2>1. deliveries' = deliveries /\ policies' = policies /\ event' = event
    BY <1>2 DEF Render, policies, event
  <2>2. \A r \in requests' :
          \/ r \in requests
          \/ /\ d.entry = r.entry /\ d.outcome = "matched"
             /\ r.result = RenderedRequest(policies[d.entry], event, d.key)
    BY <1>2 DEF Render
  <2>. QED  BY <2>1, <2>2 DEF AsRendered
<1>3. CASE UNCHANGED vars
  BY <1>3 DEF AsRendered, vars, policies, event
<1>4. CASE \/ LoadPolicySet \/ Acknowledge
           \/ \E n \in Positions : HandleEvent(n)
           \/ \E i \in left : DeliverRaises(i)
           \/ \E v \in Versions : Refetch(v)
  <2>1. \/ deliveries' = {} /\ requests' = {}
        \/ \E i \in left : DeliverRaises(i)
    BY <1>4 DEF LoadPolicySet, HandleEvent, Acknowledge, Refetch, IInv, Idle, AtWork
  <2>. QED  BY <2>1, NeverRaises DEF AsRendered
<1>. QED  BY <1>1, <1>2, <1>3, <1>4 DEF Next

LEMMA RenderedAlways == Spec => [](IInv /\ AsRendered)
<1>1. Init => AsRendered
  BY DEF Init, AsRendered
<1>. QED  BY <1>1, InitIInv, NextIInv, NextAsRendered, PTL DEF Spec

(* A delivered entry was accepted, selects the event and has a key.        *)
LEMMA DeliveredIsAccepted ==
  ASSUME IInv, AsRendered, NEW d \in deliveries
  PROVE  /\ d.entry \in DOMAIN policies
         /\ Accepted(policies[d.entry])
         /\ Understood(event)
         /\ Matches(policies[d.entry], event)
         /\ d.key \in Seq(Tokens)
<1>1. AtWork /\ version \in Versions /\ d.entry \in DOMAIN policies
  BY DEF IInv, Idle, TypeOK
<1>2. policies[d.entry] \in Entries
  BY <1>1, EntriesTyped
<1>3. EntryOK(policies[d.entry])
  BY <1>1 DEF IInv, AcceptedSet, AtWork, Loaded, ParsedPolicySet, policies
<1>4. Understood(event) /\ d.entry \in Selects(event)
  BY <1>1 DEF IInv, InOrder
<1>5. Accepted(policies[d.entry]) /\ Matches(policies[d.entry], event)
  BY <1>2, <1>3, <1>4 DEF Accepted, Selects, MatchingEntries
<1>6. d.key = RenderedKey(policies[d.entry], event)
  BY DEF AsRendered
<1>. QED  BY <1>1, <1>4, <1>5, <1>6, AcceptedKeysRender, KeyIsText

(* A request is the rendering for the one delivery of its entry.           *)
LEMMA RequestIsRendering ==
  ASSUME IInv, AsRendered, NEW r \in requests
  PROVE  \E d \in deliveries :
           /\ d.entry = r.entry
           /\ \A c \in deliveries : c.entry = r.entry => c = d
           /\ r.result = RenderedRequest(policies[r.entry], event, d.key)
<1>1. PICK d \in deliveries :
        /\ d.entry = r.entry /\ d.outcome = "matched"
        /\ r.result = RenderedRequest(policies[d.entry], event, d.key)
  BY DEF AsRendered
<1>2. \A c \in deliveries : c.entry = r.entry => c = d
  BY <1>1 DEF IInv, Owned
<1>. QED  BY <1>1, <1>2

-----------------------------------------------------------------------------
(* A field the entry relied on is there.                                   *)
LEMMA ReliedIsCarried ==
  ASSUME NEW e, Understood(e), NEW entry, Accepted(entry), Matches(entry, e),
         NEW key \in Seq(Tokens), NEW f \in Relied(entry)
  PROVE  TemplateValue(entry, e, key, f) # Absent
<1>. DEFINE value == TemplateValue(entry, e, key, f)
<1>1. /\ e \in Envelopes /\ entry \in Entries /\ Absent \notin Seq(Tokens)
      /\ e.payload["scope"] # Absent
  BY EnvelopeAssumption, GuaranteedIsCarried
  DEF Understood, Accepted, Guaranteed, AlwaysPresent
<1>2. Conditional \subseteq KeyFields /\ ScalarFields = {"scope", "work_kind"} \cup Conditional
  BY ConditionalFields DEF KeyFields, ScalarFields
<1>3. \A g \in {"scope"} \cup Conditional : KeyValue(entry, e, g) = e.payload[g]
  BY ConditionalFields DEF KeyValue
<1>4. CASE f \in Conditional \cup {"scope"} /\ e.payload[f] # Absent
  <2>1. f \in KeyFields
    BY <1>4 DEF KeyFields, KeyFieldsAlways
  <2>2. value = KeyValue(entry, e, f)
    BY <2>1, ValueOf
  <2>. QED  BY <1>3, <1>4, <2>2
<1>5. CASE f \in AlwaysRendered
  <2>1. CASE f \in KeyFieldsAlways \ {"scope"}
    <3>1. /\ e.tenant \in Seq(Tokens) /\ e.id \in Seq(Tokens) /\ e.entity \in Seq(Tokens)
          /\ entry.policy_id \in Seq(Tokens)
      BY <1>1, EnvelopeAssumption, RulesAssumption DEF Envelopes, Entries
    <3>2. /\ Token(e.type) \in Seq(Tokens) /\ Token(e.kind) \in Seq(Tokens)
          /\ Token(entry.consequence) \in Seq(Tokens)
      BY <1>1, WordsAreTexts DEF Envelopes, Entries
    <3>3. value = KeyValue(entry, e, f)
      BY <2>1, ValueOf DEF KeyFields
    <3>4. KeyValue(entry, e, f) \in Seq(Tokens)
      BY <2>1, <3>1, <3>2, ConditionalFields DEF KeyValue, KeyFieldsAlways
    <3>. QED  BY <1>1, <3>3, <3>4
  <2>2. CASE f \in {"mode", "policy_version_id", "dedup_key"}
    BY <1>1, <2>2, ValueOf, WordsAreTexts DEF Entries
  <2>3. CASE f = "scope"
    BY <1>1, <1>4, <2>3
  <2>. QED  BY <1>5, <2>1, <2>2, <2>3 DEF AlwaysRendered
<1>6. CASE f \in PredicateFields /\ entry.predicates[f] # {}
  <2>1. CASE f \in ScalarFields
    <3>1. e.payload[f] # Absent
      BY <1>6, <2>1 DEF Matches, MatchesScalar
    <3>. QED  BY <1>2, <1>4, <2>1, <3>1, ValueOf
  <2>2. CASE f \in MemberFields
    <3>1. e.members[f] \in Seq(Texts) /\ MatchesAny(entry.predicates[f], e.members[f])
      BY <1>1, <2>2 DEF Envelopes, Matches
    <3>2. e.members[f] # <<>>
      BY <1>6, <3>1 DEF MatchesAny
    <3>. QED  BY <1>1, <2>2, <3>1, <3>2, JoinedIsText, ValueOf
  <2>. QED  BY <1>6, <2>1, <2>2 DEF PredicateFields
<1>7. CASE f \in Conditional /\ \A type \in entry.types : f \in Guaranteed(type)
  <2>1. e.payload[f] # Absent
    BY <1>7, GuaranteedIsCarried DEF Matches
  <2>. QED  BY <1>4, <1>7, <2>1
<1>. QED  BY <1>5, <1>6, <1>7 DEF Relied

(* A template can quote what its own predicate selected, and what every    *)
(* type it selects guarantees: no rendering misses such a field.           *)
THEOREM QuotedFieldsAreThere == Spec => []QuotedFieldsAreCarried
<1>1. IInv /\ AsRendered => QuotedFieldsAreCarried
  <2>. SUFFICES ASSUME IInv, AsRendered, NEW r \in requests,
                       NEW f \in r.result.missing, f \in Relied(policies[r.entry])
                PROVE  FALSE
    BY DEF QuotedFieldsAreCarried
  <2>1. PICK d \in deliveries :
          d.entry = r.entry /\ r.result = RenderedRequest(policies[r.entry], event, d.key)
    BY RequestIsRendering
  <2>2. TemplateValue(policies[r.entry], event, d.key, f) # Absent
    BY <2>1, DeliveredIsAccepted, ReliedIsCarried
  <2>3. f \in MissingIn(policies[r.entry], event, d.key)
    BY <2>1 DEF RenderedRequest, Request, Failure
  <2>4. PICK name \in Used(policies[r.entry]) :
          f \in MissingNames(TemplateOf(policies[r.entry], name),
                             EntryValues(policies[r.entry], event, d.key, name))
    BY <2>3 DEF MissingIn
  <2>. QED  BY <2>2, <2>4 DEF MissingNames, EntryValues, Values
<1>. QED  BY <1>1, RenderedAlways, PTL

-----------------------------------------------------------------------------
(* What a template contributes.                                            *)

(* A template without a fault or a missing name renders to a text.         *)
LEMMA RenderedIsText ==
  ASSUME NEW e \in Envelopes, NEW entry \in Entries, NEW key \in Seq(Tokens),
         NEW template \in Templates, NEW name,
         Renders(name, template, Values(entry, e, key, template))
  PROVE  Rendered(template, Values(entry, e, key, template)) \in Seq(Tokens)
<1>. DEFINE values == Values(entry, e, key, template)
            pieces == [i \in DOMAIN template |->
              IF template[i].name = "literal" THEN template[i].text
              ELSE Formatted(values[template[i].name], template[i].spec)]
<1>1. template \in Seq(Parts) /\ Balanced(template) /\ MissingNames(template, values) = {}
      /\ Sound(template, values)
  BY DEF Templates, Renders, Sound
<1>2. ASSUME NEW i \in DOMAIN template
      PROVE  pieces[i] \in Seq(Tokens)
  <2>1. template[i] \in Parts
    BY <1>1
  <2>2. CASE template[i].name = "literal"
    BY <2>1, <2>2 DEF Parts
  <2>3. CASE template[i].name # "literal"
    <3>1. template[i].name \in ReferencedFields(template)
      BY <1>1, <2>3 DEF Balanced, FieldParts, ReferencedFields
    <3>2. values[template[i].name] # Absent
      BY <1>1, <3>1 DEF MissingNames
    <3>3. values[template[i].name] = TemplateValue(entry, e, key, template[i].name)
      BY <3>1 DEF Values
    <3>4. values[template[i].name] \in Seq(Tokens)
      BY <3>2, <3>3, ValueTyped DEF TextsOrAbsent
    <3>. HIDE DEF values
    <3>. QED  BY <2>3, <3>4, FormattedIsText
  <2>. QED  BY <2>2, <2>3
<1>3. pieces \in Seq(Seq(Tokens))
  <2>1. DOMAIN template = 1 .. Len(template) /\ Len(template) \in Nat
    BY <1>1
  <2>. HIDE DEF values
  <2>. QED  BY <1>2, <2>1
<1>4. Rendered(template, values) = FlattenSeq(pieces)
  BY DEF Rendered
<1>. QED  BY <1>3, <1>4, FlattenTyped

(* So the block is one, whatever facts there are.                          *)
LEMMA BlockIsText ==
  ASSUME NEW e \in Envelopes, NEW entry \in Entries, NEW key \in Seq(Tokens)
  PROVE  /\ Break \o ProvenanceBlock(entry, e, key) \in Seq(Tokens)
         /\ Break \o ProvenanceBlock(entry, e, key) # <<>>
         /\ (Break \o ProvenanceBlock(entry, e, key))[1] = "/"
<1>. DEFINE facts == ProvenanceFacts(entry, e, key)
            pieces == [i \in 1 .. 14 |-> LET fact == facts[i] IN
                        IF fact = Absent THEN <<>> ELSE Break \o fact]
<1>0. Break \in Seq(Tokens) /\ Heading \in Seq(Tokens) /\ Len(Break) = 1 /\ Break[1] = "/"
  BY RenderingAssumption DEF Break
<1>1. ASSUME NEW i \in 1 .. 14
      PROVE  facts[i] \in TextsOrAbsent
  <2>1. /\ e.id \in Seq(Tokens) /\ e.entity \in Seq(Tokens) /\ entry.policy_id \in Seq(Tokens)
        /\ e.entity_phase \in TextsOrAbsent
        /\ \A f \in ScalarFields : e.payload[f] \in TextsOrAbsent
    BY EnvelopeAssumption, RulesAssumption DEF Envelopes, Entries, TextsOrAbsent
  <2>2. Token(e.type) \in Seq(Tokens) /\ Token(e.kind) \in Seq(Tokens)
    BY WordsAreTexts DEF Envelopes
  <2>3. ASSUME NEW f \in MemberFields
        PROVE  Joined(e.members[f]) \in TextsOrAbsent
    <3>1. e.members[f] \in Seq(Texts)
      BY DEF Envelopes
    <3>. QED  BY <3>1, JoinedIsText DEF Joined, TextsOrAbsent
  <2>4. facts \in Seq(TextsOrAbsent)
    BY <2>1, <2>2, <2>3 DEF ProvenanceFacts, TextsOrAbsent, ScalarFields, MemberFields
  <2>5. Len(facts) = 14
    BY DEF ProvenanceFacts
  <2>. HIDE DEF facts
  <2>. QED  BY <2>4, <2>5, ElementOfSeq
<1>2. ASSUME NEW i \in 1 .. 14
      PROVE  pieces[i] \in Seq(Tokens)
  <2>1. facts[i] \in Seq(Tokens) => Break \o facts[i] \in Seq(Tokens)
    BY <1>0, ConcatProperties
  <2>. HIDE DEF facts
  <2>. QED  BY <1>1, <2>1 DEF TextsOrAbsent
<1>3. pieces \in Seq(Seq(Tokens))
  <2>. HIDE DEF facts
  <2>. QED  BY <1>2
<1>4. ProvenanceBlock(entry, e, key) = Heading \o FlattenSeq(pieces)
  BY DEF ProvenanceBlock
<1>5. FlattenSeq(pieces) \in Seq(Tokens)
  BY <1>3, FlattenTyped
<1>6. ProvenanceBlock(entry, e, key) \in Seq(Tokens)
  BY <1>0, <1>4, <1>5, ConcatProperties
<1>7. ASSUME NEW block \in Seq(Tokens)
      PROVE  /\ Break \o block \in Seq(Tokens) /\ Break \o block # <<>>
             /\ (Break \o block)[1] = "/"
  <2>1. Break \o block \in Seq(Tokens) /\ Len(Break \o block) = 1 + Len(block)
    BY <1>0, ConcatProperties
  <2>2. Len(block) \in Nat /\ 1 \in 1 .. Len(Break) + Len(block) /\ 1 <= Len(Break)
    BY <1>0
  <2>3. (Break \o block)[1] = Break[1]
    BY <1>0, <2>2, ConcatProperties
  <2>. QED  BY <1>0, <2>1, <2>2, <2>3
<1>. QED  BY <1>6, <1>7

\* The block goes with the body.
Appended(entry, e, key, name) ==
  IF name = "body" THEN Break \o ProvenanceBlock(entry, e, key) ELSE <<>>

(* What is posted of a template is a text within its cap, without a        *)
(* heading, and its appendix.                                              *)
LEMMA PostedParts ==
  ASSUME IInv, AsRendered, NEW r \in requests, NEW name \in DOMAIN r.result.posted
  PROVE  \E d \in deliveries : \E text \in Seq(Tokens) :
           /\ name \in TemplateNames
           /\ d.key \in Seq(Tokens) /\ policies[r.entry] \in Entries /\ event \in Envelopes
           /\ r.result.posted[name] = text \o Appended(policies[r.entry], event, d.key, name)
           /\ BlockOf(r) = Break \o ProvenanceBlock(policies[r.entry], event, d.key)
           /\ Len(text) <= Caps[name]
           /\ Headings(text) = {}
<1>1. PICK d \in deliveries :
        /\ d.entry = r.entry
        /\ \A c \in deliveries : c.entry = r.entry => c = d
        /\ r.result = RenderedRequest(policies[r.entry], event, d.key)
  BY RequestIsRendering
<1>. DEFINE entry == policies[r.entry]
            key == d.key
            template == TemplateOf(entry, name)
            values == EntryValues(entry, event, key, name)
            text == Posted(template, values)
<1>2. key \in Seq(Tokens) /\ entry \in Entries /\ event \in Envelopes
  BY <1>1, DeliveredIsAccepted DEF Accepted, Understood
<1>. HIDE DEF entry, key
<1>3. r.result = RenderedRequest(entry, event, key)
  BY <1>1 DEF entry, key
<1>4. /\ BrokenTemplates(entry, event, key) = {}
      /\ r.result.posted = [n \in Used(entry) |->
           Posted(TemplateOf(entry, n), EntryValues(entry, event, key, n))
             \o (IF n = "body" THEN Break \o ProvenanceBlock(entry, event, key) ELSE <<>>)]
  <2>1. CASE BrokenTemplates(entry, event, key) # {}
    <3>1. r.result.posted = <<>>
      BY <1>3, <2>1 DEF RenderedRequest, Failure
    <3>. QED  BY <3>1
  <2>2. CASE BrokenTemplates(entry, event, key) = {}
    BY <1>3, <2>2 DEF RenderedRequest, Request
  <2>. QED  BY <2>1, <2>2
<1>5. /\ name \in Used(entry)
      /\ r.result.posted[name] = text \o Appended(entry, event, key, name)
      /\ Renders(name, template, values)
  BY <1>4 DEF Appended, BrokenTemplates
<1>6. name \in TemplateNames /\ template \in Templates
  BY <1>2, <1>5 DEF Used, TemplateOf, TemplateNames, Entries
<1>7. Rendered(template, values) \in Seq(Tokens)
  <2>. HIDE DEF template
  <2>. QED  BY <1>2, <1>5, <1>6, RenderedIsText DEF EntryValues, template
<1>8. text \in Seq(Tokens) /\ Headings(text) = {}
  BY <1>7, NeutralizedIsFree DEF Posted
<1>9. Len(text) <= Caps[name]
  BY <1>5 DEF Renders, Fits
<1>10. BlockOf(r) = Break \o ProvenanceBlock(entry, event, key)
  <2>1. (CHOOSE c \in deliveries : c.entry = r.entry) = d
    BY <1>1
  <2>. QED  BY <2>1 DEF BlockOf, entry, key
<1>. QED  BY <1>2, <1>5, <1>6, <1>8, <1>9, <1>10 DEF entry, key

(* No template contributes more than its cap to what is posted.            *)
THEOREM CapsBoundPosted == Spec => []PostedWithinCaps
<1>1. IInv /\ AsRendered => PostedWithinCaps
  <2>. SUFFICES ASSUME IInv, AsRendered, NEW r \in requests, NEW name \in DOMAIN r.result.posted
                PROVE  Len(r.result.posted[name]) <=
                         Caps[name] + (IF name = "body" THEN Len(BlockOf(r)) ELSE 0)
    BY DEF PostedWithinCaps
  <2>1. PICK d \in deliveries : \E text \in Seq(Tokens) :
           /\ name \in TemplateNames
           /\ d.key \in Seq(Tokens) /\ policies[r.entry] \in Entries /\ event \in Envelopes
           /\ r.result.posted[name] = text \o Appended(policies[r.entry], event, d.key, name)
           /\ BlockOf(r) = Break \o ProvenanceBlock(policies[r.entry], event, d.key)
           /\ Len(text) <= Caps[name]
           /\ Headings(text) = {}
    BY PostedParts
  <2>2. PICK text \in Seq(Tokens) :
           /\ r.result.posted[name] = text \o Appended(policies[r.entry], event, d.key, name)
           /\ Len(text) <= Caps[name]
    BY <2>1
  <2>3. Caps[name] \in Nat /\ Len(text) \in Nat
    BY <2>1, RenderingAssumption
  <2>4. CASE name = "body"
    <3>1. BlockOf(r) \in Seq(Tokens)
      BY <2>1, BlockIsText
    <3>2. r.result.posted[name] = text \o BlockOf(r)
      BY <2>1, <2>2, <2>4 DEF Appended
    <3>3. Len(r.result.posted[name]) = Len(text) + Len(BlockOf(r)) /\ Len(BlockOf(r)) \in Nat
      BY <3>1, <3>2, ConcatProperties
    <3>. QED  BY <2>2, <2>3, <2>4, <3>3
  <2>5. CASE name # "body"
    <3>1. r.result.posted[name] = text
      BY <2>2, <2>5 DEF Appended
    <3>. QED  BY <2>2, <2>3, <2>5, <3>1
  <2>. QED  BY <2>4, <2>5
<1>. QED  BY <1>1, RenderedAlways, PTL

(* Headings of an appendix that does not complete one are its own.         *)
LEMMA HeadingsOfAppendix ==
  ASSUME NEW a \in Seq(Tokens), NEW b \in Seq(Tokens), Headings(a) = {},
         b = <<>> \/ b[1] # "h2"
  PROVE  Cardinality(Headings(a \o b)) = Cardinality(Headings(b))
<1>. DEFINE m == Len(a)
            n == Len(b)
            shift == [i \in Headings(b) |-> m + i]
<1>1. m \in Nat /\ n \in Nat /\ (b = <<>> <=> n = 0)
  OBVIOUS
<1>2. /\ a \o b \in Seq(Tokens) /\ Len(a \o b) = m + n
      /\ \A i \in 1 .. m + n : (a \o b)[i] = IF i <= m THEN a[i] ELSE b[i - m]
  BY ConcatProperties
<1>. DEFINE ab == a \o b
<1>3. ab \in Seq(Tokens) /\ Len(ab) = m + n
  BY <1>2
<1>. HIDE DEF ab
<1>4. /\ \A i \in 1 .. m : ab[i] = a[i]
      /\ \A i \in 1 .. n : ab[m + i] = b[i]
  <2>1. ASSUME NEW i \in 1 .. m PROVE ab[i] = a[i]
    <3>1. i \in 1 .. m + n /\ i <= m
      BY <1>1
    <3>. QED  BY <1>2, <3>1 DEF ab
  <2>2. ASSUME NEW i \in 1 .. n PROVE ab[m + i] = b[i]
    <3>. DEFINE j == m + i
    <3>1. j \in 1 .. m + n /\ ~(j <= m) /\ j - m = i
      BY <1>1
    <3>. HIDE DEF j
    <3>2. ab[j] = b[j - m]
      BY <1>2, <3>1 DEF ab
    <3>. QED  BY <3>1, <3>2 DEF j
  <2>. QED  BY <2>1, <2>2
<1>5. /\ \A i \in 1 .. n - 1 : i \in Headings(b) <=> b[i] = "h1" /\ b[i + 1] = "h2"
      /\ \A j \in 1 .. m + n - 1 : j \in Headings(ab) <=> ab[j] = "h1" /\ ab[j + 1] = "h2"
      /\ \A i \in 1 .. m - 1 : ~(a[i] = "h1" /\ a[i + 1] = "h2")
      /\ Headings(b) \subseteq 1 .. n - 1 /\ Headings(ab) \subseteq 1 .. m + n - 1
  <2>1. \A i \in 1 .. m - 1 : ~(a[i] = "h1" /\ a[i + 1] = "h2")
    BY HeadingAt
  <2>2. \A i \in 1 .. n - 1 : i \in Headings(b) <=> b[i] = "h1" /\ b[i + 1] = "h2"
    BY HeadingAt
  <2>3. \A j \in 1 .. Len(ab) - 1 : j \in Headings(ab) <=> ab[j] = "h1" /\ ab[j + 1] = "h2"
    BY <1>3, HeadingAt
  <2>4. Headings(b) \subseteq 1 .. n - 1 /\ Headings(ab) \subseteq 1 .. Len(ab) - 1
    BY DEF Headings
  <2>. QED  BY <1>3, <2>1, <2>2, <2>3, <2>4
<1>. HIDE DEF m, n
<1>6. ASSUME NEW i \in 1 .. n - 1
      PROVE  m + i \in Headings(ab) <=> i \in Headings(b)
  <2>1. m + i \in 1 .. m + n - 1 /\ i \in 1 .. n /\ i + 1 \in 1 .. n /\ m + (i + 1) = m + i + 1
    BY <1>1
  <2>2. ab[m + i] = b[i]
    BY <1>4, <2>1
  <2>3. ab[m + (i + 1)] = b[i + 1]
    BY <1>4, <2>1
  <2>4. ab[m + i + 1] = b[i + 1]
    BY <2>1, <2>3
  <2>5. m + i \in Headings(ab) <=> ab[m + i] = "h1" /\ ab[m + i + 1] = "h2"
    BY <1>5, <2>1
  <2>. QED  BY <1>5, <2>2, <2>4, <2>5
<1>7. ASSUME NEW j \in Headings(ab)
      PROVE  j > m
  <2>. SUFFICES ASSUME j <= m PROVE FALSE
    BY <1>1, <1>5
  <2>1. j \in 1 .. m + n - 1 /\ j \in 1 .. m
    BY <1>1, <1>5
  <2>2. a[j] = "h1" /\ ab[j + 1] = "h2"
    BY <1>4, <1>5, <2>1
  <2>3. CASE j < m
    <3>1. j \in 1 .. m - 1 /\ j + 1 \in 1 .. m
      BY <1>1, <2>1, <2>3
    <3>2. ab[j + 1] = a[j + 1]
      BY <1>4, <3>1
    <3>. QED  BY <1>5, <2>2, <3>1, <3>2
  <2>4. CASE j = m
    <3>1. 1 \in 1 .. n /\ n # 0
      BY <1>1, <2>1, <2>4
    <3>2. ab[m + 1] = b[1]
      BY <1>4, <3>1
    <3>. QED  BY <1>1, <2>2, <2>4, <3>1, <3>2
  <2>. QED  BY <1>1, <2>1, <2>3, <2>4
<1>8. shift \in Bijection(Headings(b), Headings(ab))
  <2>1. ASSUME NEW i \in Headings(b) PROVE m + i \in Headings(ab) /\ i \in Nat
    BY <1>5, <1>6
  <2>2. shift \in [Headings(b) -> Headings(ab)]
    BY <2>1
  <2>3. \A i, j \in Headings(b) : shift[i] = shift[j] => i = j
    <3>1. \A i, j \in Nat : m + i = m + j => i = j
      BY <1>1
    <3>. QED  BY <2>1, <3>1
  <2>4. ASSUME NEW j \in Headings(ab)
        PROVE  \E i \in Headings(b) : shift[i] = j
    <3>. DEFINE i == j - m
    <3>1. i \in 1 .. n - 1 /\ m + i = j
      BY <1>1, <1>5, <1>7
    <3>. HIDE DEF i
    <3>2. i \in Headings(b)
      BY <1>6, <3>1
    <3>. QED  BY <3>1, <3>2
  <2>. HIDE DEF shift
  <2>5. shift \in Injection(Headings(b), Headings(ab))
    BY <2>2, <2>3 DEF Injection, IsInjective
  <2>6. shift \in Surjection(Headings(b), Headings(ab))
    BY <2>2, <2>4 DEF Surjection
  <2>. QED  BY <2>5, <2>6 DEF Bijection
<1>9. IsFiniteSet(Headings(b))
  <2>1. IsFiniteSet(1 .. n - 1)
    BY <1>1, FS_Interval
  <2>. QED  BY <1>5, <2>1, FS_Subset
<1>. QED  BY <1>8, <1>9, FS_Bijection DEF ExistsBijection, ab

(* No heading is posted but in the block.                                  *)
THEOREM OnlyTheBlockHasHeadings == Spec => []HeadingOnlyInBlock
<1>1. IInv /\ AsRendered => HeadingOnlyInBlock
  <2>. SUFFICES ASSUME IInv, AsRendered, NEW r \in requests, NEW name \in DOMAIN r.result.posted
                PROVE  Cardinality(Headings(r.result.posted[name])) =
                         IF name = "body" THEN Cardinality(Headings(BlockOf(r))) ELSE 0
    BY DEF HeadingOnlyInBlock
  <2>1. PICK d \in deliveries : \E text \in Seq(Tokens) :
           /\ name \in TemplateNames
           /\ d.key \in Seq(Tokens) /\ policies[r.entry] \in Entries /\ event \in Envelopes
           /\ r.result.posted[name] = text \o Appended(policies[r.entry], event, d.key, name)
           /\ BlockOf(r) = Break \o ProvenanceBlock(policies[r.entry], event, d.key)
           /\ Len(text) <= Caps[name]
           /\ Headings(text) = {}
    BY PostedParts
  <2>2. PICK text \in Seq(Tokens) :
           /\ r.result.posted[name] = text \o Appended(policies[r.entry], event, d.key, name)
           /\ Headings(text) = {}
    BY <2>1
  <2>3. CASE name = "body"
    <3>1. BlockOf(r) \in Seq(Tokens) /\ BlockOf(r)[1] # "h2"
      BY <2>1, BlockIsText
    <3>2. r.result.posted[name] = text \o BlockOf(r)
      BY <2>1, <2>2, <2>3 DEF Appended
    <3>. QED  BY <2>2, <2>3, <3>1, <3>2, HeadingsOfAppendix
  <2>4. CASE name # "body"
    <3>1. r.result.posted[name] = text
      BY <2>2, <2>4 DEF Appended
    <3>. QED  BY <2>2, <2>4, <3>1, FS_EmptySet
  <2>. QED  BY <2>3, <2>4
<1>. QED  BY <1>1, RenderedAlways, PTL

-----------------------------------------------------------------------------
(* Repairs.                                                                *)

(* An empty text renders, whatever the cap.                                *)
LEMMA MendedRenders ==
  ASSUME NEW name \in TemplateNames, NEW values
  PROVE  Renders(name, <<Literal(<<>>)>>, values)
<1>. DEFINE template == <<Literal(<<>>)>>
<1>1. /\ DOMAIN template = 1 .. 1
      /\ template[1].name = "literal" /\ template[1].text = <<>>
  BY DEF Literal
<1>. HIDE DEF template
<1>2. Balanced(template) /\ FieldParts(template) = {}
  BY <1>1 DEF Balanced, FieldParts
<1>3. Sound(template, values) /\ MissingNames(template, values) = {}
  BY <1>2 DEF Sound, MissingNames, ReferencedFields
<1>4. Rendered(template, values) = <<>>
  <2>. DEFINE pieces == [i \in DOMAIN template |->
                IF template[i].name = "literal" THEN template[i].text
                ELSE Formatted(values[template[i].name], template[i].spec)]
  <2>1. Rendered(template, values) = FlattenSeq(pieces)
    BY DEF Rendered
  <2>2. pieces = <<<<>>>>
    BY <1>1
  <2>. HIDE DEF pieces
  <2>3. <<>> \in Seq(Tokens) /\ pieces \in Seq(Seq(Tokens)) /\ pieces # <<>>
        /\ Len(pieces) = 1 /\ pieces[1] = <<>>
    BY <2>2
  <2>4. FlattenSeq(pieces) = <<>>
    BY <2>3, FlattenGrows
  <2>. QED  BY <2>1, <2>4
<1>5. Posted(template, values) = <<>>
  <2>1. <<>> \in Seq(Tokens)
    OBVIOUS
  <2>. QED  BY <1>4, <2>1, NeutralizedIsFree DEF Posted
<1>6. Fits(name, template, values)
  BY <1>5, RenderingAssumption DEF Fits
<1>. QED  BY <1>3, <1>6 DEF Renders, template

(* Mending the templates a failure names, and no other, is enough.         *)
LEMMA MendedMints ==
  ASSUME NEW e, NEW entry \in Entries, NEW key
  PROVE  LET mended == Repaired(entry, BrokenTemplates(entry, e, key))
         IN RenderedRequest(mended, e, key).broken = {}
<1>. DEFINE broken == BrokenTemplates(entry, e, key)
            mended == Repaired(entry, broken)
<1>1. /\ mended.policy_id = entry.policy_id /\ mended.mode = entry.mode
      /\ mended.consequence = entry.consequence
      /\ \A name \in TemplateNames :
           TemplateOf(mended, name) =
             IF name \in broken THEN <<Literal(<<>>)>> ELSE TemplateOf(entry, name)
  BY DEF Repaired, Entries, TemplateOf, TemplateNames
<1>. HIDE DEF mended
<1>2. \A template : Values(mended, e, key, template) = Values(entry, e, key, template)
  BY <1>1 DEF Values, TemplateValue, KeyValue
<1>3. ASSUME NEW name \in Used(mended)
      PROVE  Renders(name, TemplateOf(mended, name), EntryValues(mended, e, key, name))
  <2>1. name \in TemplateNames
    BY DEF Used
  <2>2. CASE name \in broken
    BY <1>1, <2>1, <2>2, MendedRenders
  <2>3. CASE name \notin broken
    <3>1. TemplateOf(mended, name) = TemplateOf(entry, name)
      BY <1>1, <2>1, <2>3
    <3>2. name \in Used(entry)
      BY <2>1, <3>1 DEF Used
    <3>3. Renders(name, TemplateOf(entry, name), EntryValues(entry, e, key, name))
      BY <2>3, <3>2 DEF BrokenTemplates
    <3>. QED  BY <1>2, <3>1, <3>3 DEF EntryValues
  <2>. QED  BY <2>2, <2>3
<1>4. BrokenTemplates(mended, e, key) = {}
  BY <1>3 DEF BrokenTemplates
<1>. QED  BY <1>4 DEF RenderedRequest, Request, mended

(* A rendering names every broken template at once.                        *)
THEOREM OneRepairIsEnough == Spec => []RepairsSuffice
<1>1. IInv /\ AsRendered => RepairsSuffice
  <2>. SUFFICES ASSUME IInv, AsRendered, NEW r \in requests, NEW d \in deliveries, d.entry = r.entry
                PROVE  RenderedRequest(Repaired(policies[r.entry], r.result.broken),
                                       event, d.key).broken = {} \/ r.result.broken = {}
    BY DEF RepairsSuffice
  <2>1. r.result = RenderedRequest(policies[r.entry], event, d.key)
    BY RequestIsRendering
  <2>2. r.result.broken = {} \/ r.result.broken = BrokenTemplates(policies[r.entry], event, d.key)
    BY <2>1 DEF RenderedRequest, Request, Failure
  <2>3. policies[r.entry] \in Entries
    BY DeliveredIsAccepted DEF Accepted
  <2>. QED  BY <2>2, <2>3, MendedMints
<1>. QED  BY <1>1, RenderedAlways, PTL

-----------------------------------------------------------------------------
(* Identical templates.                                                    *)

SameText(a, x, b, y) == a \o x = b \o y

(* A text is cut in one way, if the length of its tail is known.           *)
LEMMA ConcatCancel ==
  ASSUME NEW S, NEW a \in Seq(S), NEW b \in Seq(S), NEW x \in Seq(S), NEW y \in Seq(S),
         Len(x) = Len(y), SameText(a, x, b, y)
  PROVE  a = b /\ x = y
<1>. DEFINE m == Len(a)
            n == Len(x)
<1>1. m \in Nat /\ n \in Nat
  OBVIOUS
<1>2. Len(a \o x) = m + n /\ Len(b \o y) = Len(b) + n /\ Len(b) \in Nat /\ m + n = Len(b) + n
  <2>1. Len(a \o x) = Len(a) + Len(x) /\ Len(b \o y) = Len(b) + Len(y)
    BY ConcatProperties
  <2>2. a \o x = b \o y
    BY DEF SameText
  <2>. QED  BY <2>1, <2>2
<1>3. Len(b) = m
  BY <1>1, <1>2
<1>4. ASSUME NEW i \in 1 .. m PROVE a[i] = b[i]
  <2>1. i \in 1 .. m + n /\ i <= m
    BY <1>1
  <2>2. (a \o x)[i] = a[i]
    BY <2>1, ConcatProperties
  <2>3. (b \o y)[i] = b[i]
    BY <1>3, <2>1, ConcatProperties
  <2>. QED  BY <2>2, <2>3 DEF SameText
<1>5. ASSUME NEW i \in 1 .. n PROVE x[i] = y[i]
  <2>. DEFINE j == m + i
  <2>1. j \in 1 .. m + n /\ ~(j <= m) /\ j - m = i
    BY <1>1
  <2>. HIDE DEF j
  <2>2. (a \o x)[j] = x[j - m]
    BY <2>1, ConcatProperties
  <2>3. (b \o y)[j] = y[j - m]
    BY <1>3, <2>1, ConcatProperties
  <2>. QED  BY <2>1, <2>2, <2>3 DEF SameText
<1>6. a = b
  BY <1>3, <1>4, SeqEqual
<1>7. x = y
  BY <1>5, SeqEqual
<1>. QED  BY <1>6, <1>7

(* Pieces none of which is shorter, and one longer, flatten to more.       *)
LEMMA LongerPieces ==
  ASSUME NEW S, NEW s \in Seq(Seq(S)), NEW t \in Seq(Seq(S)), NEW n, Len(s) = n, Len(t) = n,
         \A i \in 1 .. n : Len(s[i]) <= Len(t[i]),
         NEW a \in 1 .. n, Len(s[a]) < Len(t[a])
  PROVE  Len(FlattenSeq(s)) < Len(FlattenSeq(t))
<1>1. n \in Nat /\ 1 \in 1 .. n /\ n \in 1 .. n /\ s # <<>> /\ t # <<>>
      /\ \A i \in 1 .. n : s[i] \in Seq(S) /\ t[i] \in Seq(S)
  OBVIOUS
<1>2. PICK fs \in [1 .. n -> Seq(S)] :
        /\ FlattenSeq(s) = fs[n] /\ fs[1] = s[1]
        /\ \A i \in 1 .. n - 1 : fs[i + 1] = fs[i] \o s[i + 1]
  <2>1. \E f \in [1 .. Len(s) -> Seq(S)] :
          /\ FlattenSeq(s) = f[Len(s)] /\ f[1] = s[1]
          /\ \A i \in 1 .. Len(s) - 1 : f[i + 1] = f[i] \o s[i + 1]
    BY <1>1, FlattenGrows
  <2>. QED  BY <2>1
<1>3. PICK ft \in [1 .. n -> Seq(S)] :
        /\ FlattenSeq(t) = ft[n] /\ ft[1] = t[1]
        /\ \A i \in 1 .. n - 1 : ft[i + 1] = ft[i] \o t[i + 1]
  <2>1. \E f \in [1 .. Len(t) -> Seq(S)] :
          /\ FlattenSeq(t) = f[Len(t)] /\ f[1] = t[1]
          /\ \A i \in 1 .. Len(t) - 1 : f[i + 1] = f[i] \o t[i + 1]
    BY <1>1, FlattenGrows
  <2>. QED  BY <2>1
<1>. DEFINE Ahead(m) == Len(fs[m]) <= Len(ft[m]) /\ (a <= m => Len(fs[m]) < Len(ft[m]))
            Reached == {m \in 1 .. n : Ahead(m)}
<1>4. ASSUME NEW i \in 1 .. n
      PROVE  Len(s[i]) \in Nat /\ Len(t[i]) \in Nat /\ Len(fs[i]) \in Nat /\ Len(ft[i]) \in Nat
  <2>1. s[i] \in Seq(S) /\ t[i] \in Seq(S)
    BY <1>1
  <2>2. fs[i] \in Seq(S) /\ ft[i] \in Seq(S)
    OBVIOUS
  <2>3. \A u \in Seq(S) : Len(u) \in Nat
    OBVIOUS
  <2>. QED  BY <2>1, <2>2, <2>3
<1>5. 1 \in Reached
  <2>1. a <= 1 => a = 1
    OBVIOUS
  <2>2. Ahead(1)
    BY <1>1, <1>2, <1>3, <2>1
  <2>. HIDE DEF Ahead
  <2>. QED  BY <1>1, <2>2
<1>6. ASSUME NEW m \in 1 .. n - 1, m \in Reached
      PROVE  m + 1 \in Reached
  <2>1. m + 1 \in 1 .. n /\ m \in 1 .. n /\ Ahead(m)
    BY <1>1, <1>6
  <2>2. Len(fs[m + 1]) = Len(fs[m]) + Len(s[m + 1])
    <3>1. fs[m + 1] = fs[m] \o s[m + 1] /\ fs[m] \in Seq(S) /\ s[m + 1] \in Seq(S)
      BY <1>1, <1>2, <2>1
    <3>. QED  BY <3>1, ConcatProperties
  <2>3. Len(ft[m + 1]) = Len(ft[m]) + Len(t[m + 1])
    <3>1. ft[m + 1] = ft[m] \o t[m + 1] /\ ft[m] \in Seq(S) /\ t[m + 1] \in Seq(S)
      BY <1>1, <1>3, <2>1
    <3>. QED  BY <3>1, ConcatProperties
  <2>4. Len(s[m + 1]) <= Len(t[m + 1]) /\ (a = m + 1 => Len(s[m + 1]) < Len(t[m + 1]))
    BY <2>1
  <2>5. a <= m + 1 <=> a <= m \/ a = m + 1
    BY <1>1
  <2>6. Ahead(m + 1)
    <3>1. /\ Len(s[m + 1]) \in Nat /\ Len(t[m + 1]) \in Nat
          /\ Len(fs[m]) \in Nat /\ Len(ft[m]) \in Nat
      BY <1>4, <2>1
    <3>2. Len(fs[m + 1]) <= Len(ft[m + 1])
      BY <2>1, <2>2, <2>3, <2>4, <3>1
    <3>3. ASSUME a <= m + 1 PROVE Len(fs[m + 1]) < Len(ft[m + 1])
      <4>1. CASE a <= m
        BY <2>1, <2>2, <2>3, <2>4, <3>1, <4>1
      <4>2. CASE a = m + 1
        BY <2>1, <2>2, <2>3, <2>4, <3>1, <4>2
      <4>. QED  BY <2>5, <3>3, <4>1, <4>2
    <3>. QED  BY <3>2, <3>3
  <2>. HIDE DEF Ahead
  <2>. QED  BY <2>1, <2>6
<1>7. n \in Reached
  <2>. HIDE DEF Reached
  <2>1. 1 .. n \subseteq Reached
    BY <1>1, <1>5, <1>6, Climb
  <2>. QED  BY <1>1, <2>1
<1>8. a <= n
  OBVIOUS
<1>. QED  BY <1>2, <1>3, <1>7, <1>8

SameLengths(s, t) == \A i \in DOMAIN s : Len(s[i]) = Len(t[i])

(* Pieces of the same lengths that flatten to one text are the same.       *)
LEMMA EqualPieces ==
  ASSUME NEW S, NEW s \in Seq(Seq(S)), NEW t \in Seq(Seq(S)), NEW n, Len(s) = n, Len(t) = n,
         SameLengths(s, t),
         NEW a \in 1 .. n
  PROVE  FlattenSeq(s) = FlattenSeq(t) => s[a] = t[a]
<1>1. n \in Nat /\ 1 \in 1 .. n /\ n \in 1 .. n /\ s # <<>> /\ t # <<>>
      /\ \A i \in 1 .. n : s[i] \in Seq(S) /\ t[i] \in Seq(S)
  OBVIOUS
<1>2. PICK fs \in [1 .. n -> Seq(S)] :
        /\ FlattenSeq(s) = fs[n] /\ fs[1] = s[1]
        /\ \A i \in 1 .. n - 1 : fs[i + 1] = fs[i] \o s[i + 1]
  <2>1. \E f \in [1 .. Len(s) -> Seq(S)] :
          /\ FlattenSeq(s) = f[Len(s)] /\ f[1] = s[1]
          /\ \A i \in 1 .. Len(s) - 1 : f[i + 1] = f[i] \o s[i + 1]
    BY <1>1, FlattenGrows
  <2>. QED  BY <2>1
<1>3. PICK ft \in [1 .. n -> Seq(S)] :
        /\ FlattenSeq(t) = ft[n] /\ ft[1] = t[1]
        /\ \A i \in 1 .. n - 1 : ft[i + 1] = ft[i] \o t[i + 1]
  <2>1. \E f \in [1 .. Len(t) -> Seq(S)] :
          /\ FlattenSeq(t) = f[Len(t)] /\ f[1] = t[1]
          /\ \A i \in 1 .. Len(t) - 1 : f[i + 1] = f[i] \o t[i + 1]
    BY <1>1, FlattenGrows
  <2>. QED  BY <2>1
<1>. SUFFICES ASSUME fs[n] = ft[n] PROVE s[a] = t[a]
  BY <1>2, <1>3
<1>. DEFINE hi == n - 1
            Reached == {k \in 0 .. hi : fs[n - k] = ft[n - k]}
<1>4. ASSUME NEW m \in 1 .. n - 1, fs[m + 1] = ft[m + 1]
      PROVE  fs[m] = ft[m] /\ s[m + 1] = t[m + 1]
  <2>1. m \in 1 .. n /\ m + 1 \in 1 .. n
    BY <1>1
  <2>2. fs[m] \in Seq(S) /\ ft[m] \in Seq(S) /\ s[m + 1] \in Seq(S) /\ t[m + 1] \in Seq(S)
    BY <1>1, <2>1
  <2>3. Len(s[m + 1]) = Len(t[m + 1])
    <3>1. m + 1 \in DOMAIN s
      BY <2>1
    <3>. QED  BY <3>1 DEF SameLengths
  <2>4. SameText(fs[m], s[m + 1], ft[m], t[m + 1])
    BY <1>2, <1>3, <1>4 DEF SameText
  <2>. DEFINE j == m + 1
  <2>. HIDE DEF j
  <2>5. /\ fs[m] \in Seq(S) /\ ft[m] \in Seq(S) /\ s[j] \in Seq(S) /\ t[j] \in Seq(S)
        /\ Len(s[j]) = Len(t[j])
        /\ SameText(fs[m], s[j], ft[m], t[j])
    BY <2>2, <2>3, <2>4 DEF j
  <2>6. fs[m] = ft[m] /\ s[j] = t[j]
    BY ONLY <2>5, ConcatCancel
  <2>. QED  BY <2>6 DEF j
<1>5. 0 \in Reached
  <2>1. 0 \in 0 .. n - 1 /\ n - 0 = n
    BY <1>1
  <2>. QED  BY <2>1
<1>6. ASSUME NEW k \in 0 .. hi - 1, k \in Reached
      PROVE  k + 1 \in Reached
  <2>. DEFINE m == n - (k + 1)
  <2>1. m \in 1 .. n - 1 /\ m + 1 = n - k /\ k + 1 \in 0 .. n - 1
    BY <1>1
  <2>. HIDE DEF m
  <2>2. fs[m] = ft[m]
    BY <1>4, <1>6, <2>1
  <2>. QED  BY <2>1, <2>2 DEF m
<1>7. 0 .. hi \subseteq Reached
  <2>1. hi \in Nat /\ 0 \in Nat
    BY <1>1
  <2>. HIDE DEF Reached, hi
  <2>. QED  BY <1>5, <1>6, <2>1, Climb
<1>8. ASSUME NEW m \in 1 .. n PROVE fs[m] = ft[m]
  <2>1. n - m \in 0 .. n - 1 /\ n - (n - m) = m
    BY <1>1
  <2>. QED  BY <1>7, <2>1
<1>9. CASE a = 1
  BY <1>1, <1>2, <1>3, <1>8, <1>9
<1>10. CASE a # 1
  <2>. DEFINE m == a - 1
  <2>1. m \in 1 .. n - 1 /\ m + 1 = a /\ a \in 1 .. n
    BY <1>1, <1>10
  <2>. HIDE DEF m
  <2>2. s[m + 1] = t[m + 1]
    BY <1>4, <1>8, <2>1
  <2>. QED  BY <2>1, <2>2
<1>. QED  BY <1>9, <1>10


\* Accepted entries of one template, which quotes their ids somewhere as they are.
Twins(p, q, e) ==
  /\ Understood(e)
  /\ Accepted(p) /\ KeyRenders(p, e) /\ Accepted(q) /\ KeyRenders(q, e)
  /\ p.dedup = q.dedup /\ ~ReshapesPolicyId(p.dedup)
  /\ "policy_id" \in ReferencedFields(p.dedup)

(* Two entries of one template render parts of the same lengths, but where *)
(* it quotes their ids.                                                    *)
LEMMA TwinPieces ==
  ASSUME NEW e, NEW p, NEW q, Twins(p, q, e), NEW i \in DOMAIN p.dedup
  PROVE  /\ p.dedup[i].name # "policy_id" => Len(KeyPiece(p, e, i)) = Len(KeyPiece(q, e, i))
         /\ p.dedup[i].name = "policy_id" =>
              /\ KeyPiece(p, e, i) = Formatted(p.policy_id, p.dedup[i].spec)
              /\ KeyPiece(q, e, i) = Formatted(q.policy_id, p.dedup[i].spec)
<1>. DEFINE name == p.dedup[i].name
            spec == p.dedup[i].spec
<1>. USE DEF Twins
<1>1. CASE name = "literal"
  BY <1>1 DEF KeyPiece
<1>2. CASE name # "literal"
  <2>1. name \in KeyFields /\ i \in FieldParts(p.dedup)
    BY <1>2, KeyPartKinds
  <2>2. /\ KeyPiece(p, e, i) = Formatted(KeyValue(p, e, name), spec)
        /\ KeyPiece(q, e, i) = Formatted(KeyValue(q, e, name), spec)
    BY <1>2 DEF KeyPiece
  <2>. HIDE DEF name
  <2>3. CASE name = "policy_id"
    <3>1. KeyValue(p, e, name) = p.policy_id /\ KeyValue(q, e, name) = q.policy_id
      BY <2>3, ConditionalFields DEF KeyValue
    <3>. QED  BY <2>2, <2>3, <3>1 DEF name
  <2>4. CASE name = "consequence"
    <3>1. KeyValue(p, e, name) = Token(p.consequence) /\ KeyValue(q, e, name) = Token(q.consequence)
      BY <2>4, ConditionalFields DEF KeyValue
    <3>2. Token(p.consequence) \in Seq(Tokens) /\ Token(q.consequence) \in Seq(Tokens)
      BY RulesAssumption DEF Accepted, Entries, Token
    <3>3. Len(Token(p.consequence)) = 1 /\ Len(Token(q.consequence)) = 1
      BY DEF Token
    <3>4. Len(Formatted(Token(p.consequence), spec)) = Len(Formatted(Token(q.consequence), spec))
      BY <3>2, <3>3, FormattedLengths
    <3>. QED  BY <2>2, <2>4, <3>1, <3>4 DEF name
  <2>5. CASE name \notin {"policy_id", "consequence"}
    <3>1. KeyValue(p, e, name) = KeyValue(q, e, name)
      BY <2>1, <2>5 DEF KeyValue
    <3>. QED  BY <2>2, <2>5, <3>1 DEF name
  <2>. QED  BY <2>3, <2>4, <2>5
<1>. QED  BY <1>1, <1>2

QuotesId(entry, i) == entry.dedup[i].name = "policy_id"

\* What two such entries' keys are made of.
TwinTexts(p, q, s, t, n) ==
  /\ s \in Seq(Seq(Tokens)) /\ t \in Seq(Seq(Tokens))
  /\ Len(s) = n /\ Len(t) = n /\ DOMAIN s = 1 .. n
  /\ \A i \in 1 .. n : /\ ~QuotesId(p, i) => Len(s[i]) = Len(t[i])
                       /\ QuotesId(p, i) => \E spec : /\ s[i] = Formatted(p.policy_id, spec)
                                                     /\ t[i] = Formatted(q.policy_id, spec)
  /\ \E i \in 1 .. n : s[i] = p.policy_id /\ t[i] = q.policy_id
  /\ p.policy_id \in Seq(Tokens) /\ q.policy_id \in Seq(Tokens)

LEMMA TwinKeys ==
  ASSUME NEW e, NEW p, NEW q, Twins(p, q, e)
  PROVE  /\ TwinTexts(p, q, KeyPieces(p, e), KeyPieces(q, e), Len(p.dedup))
         /\ RenderedKey(p, e) = FlattenSeq(KeyPieces(p, e))
         /\ RenderedKey(q, e) = FlattenSeq(KeyPieces(q, e))
<1>. DEFINE s == KeyPieces(p, e)
            t == KeyPieces(q, e)
            n == Len(p.dedup)
<1>1. /\ s \in Seq(Seq(Tokens)) /\ t \in Seq(Seq(Tokens)) /\ Len(s) = n /\ Len(t) = n
      /\ RenderedKey(p, e) = FlattenSeq(s) /\ RenderedKey(q, e) = FlattenSeq(t)
  BY KeyPiecesTyped DEF Twins
<1>2. DOMAIN p.dedup = 1 .. n /\ p.policy_id \in Seq(Tokens) /\ q.policy_id \in Seq(Tokens)
  BY RulesAssumption DEF Twins, Accepted, Entries, Templates
<1>3. DOMAIN s = 1 .. n
  BY <1>2 DEF KeyPieces
<1>4. ASSUME NEW i \in 1 .. n
      PROVE  /\ ~QuotesId(p, i) => Len(s[i]) = Len(t[i])
             /\ QuotesId(p, i) => /\ s[i] = Formatted(p.policy_id, p.dedup[i].spec)
                                 /\ t[i] = Formatted(q.policy_id, p.dedup[i].spec)
  <2>1. i \in DOMAIN p.dedup
    BY <1>2
  <2>2. /\ ~QuotesId(p, i) => Len(KeyPiece(p, e, i)) = Len(KeyPiece(q, e, i))
        /\ QuotesId(p, i) => /\ KeyPiece(p, e, i) = Formatted(p.policy_id, p.dedup[i].spec)
                            /\ KeyPiece(q, e, i) = Formatted(q.policy_id, p.dedup[i].spec)
    BY <2>1, TwinPieces DEF QuotesId
  <2>3. s[i] = KeyPiece(p, e, i) /\ t[i] = KeyPiece(q, e, i)
    BY <2>1 DEF KeyPieces, Twins
  <2>. HIDE DEF s, t
  <2>. QED  BY <2>2, <2>3
<1>5. \E i \in 1 .. n : s[i] = p.policy_id /\ t[i] = q.policy_id
  <2>1. PICK i \in FieldParts(p.dedup) :
          QuotesId(p, i) /\ p.dedup[i].spec \notin {"cut", "padded", "wide"}
    BY DEF ReferencedFields, Twins, QuotesId, ReshapesPolicyId
  <2>2. i \in 1 .. n
    BY <1>2 DEF FieldParts
  <2>. HIDE DEF s, t, n
  <2>. QED  BY <1>4, <2>1, <2>2 DEF Formatted
<1>. HIDE DEF s, t, n
<1>6. TwinTexts(p, q, s, t, n)
  BY <1>1, <1>2, <1>3, <1>4, <1>5 DEF TwinTexts
<1>. QED  BY <1>1, <1>6 DEF s, t, n

(* If one of two ids is longer, so is its key.                             *)
LEMMA LongerIdLongerKey ==
  ASSUME NEW p, NEW q, NEW s, NEW t, NEW n, TwinTexts(p, q, s, t, n),
         Len(p.policy_id) < Len(q.policy_id)
  PROVE  FlattenSeq(s) # FlattenSeq(t)
<1>1. PICK a \in 1 .. n : s[a] = p.policy_id /\ t[a] = q.policy_id
  BY DEF TwinTexts
<1>2. Len(p.policy_id) \in Nat /\ Len(q.policy_id) \in Nat
  BY DEF TwinTexts
<1>3. ASSUME NEW i \in 1 .. n
      PROVE  Len(s[i]) <= Len(t[i])
  <2>1. CASE QuotesId(p, i)
    <3>1. \A spec : Len(Formatted(p.policy_id, spec)) <= Len(Formatted(q.policy_id, spec))
      BY <1>2, FormattedLengths DEF TwinTexts
    <3>. QED  BY <2>1, <3>1 DEF TwinTexts
  <2>2. CASE ~QuotesId(p, i)
    <3>1. Len(s[i]) \in Nat
      BY DEF TwinTexts
    <3>. QED  BY <2>2, <3>1 DEF TwinTexts
  <2>. QED  BY <2>1, <2>2
<1>4. Len(s[a]) < Len(t[a])
  BY <1>1 DEF TwinTexts
<1>5. s \in Seq(Seq(Tokens)) /\ t \in Seq(Seq(Tokens)) /\ Len(s) = n /\ Len(t) = n
  BY DEF TwinTexts
<1>6. Len(FlattenSeq(s)) < Len(FlattenSeq(t))
  BY <1>3, <1>4, <1>5, LongerPieces
<1>7. FlattenSeq(s) \in Seq(Tokens)
  BY <1>5, FlattenTyped
<1>8. Len(FlattenSeq(s)) \in Nat
  BY <1>7
<1>. QED  BY <1>6, <1>8

(* If the ids are as long as each other, equal keys quote equal ids.       *)
LEMMA EqualKeysEqualIds ==
  ASSUME NEW p, NEW q, NEW s, NEW t, NEW n, TwinTexts(p, q, s, t, n),
         Len(p.policy_id) = Len(q.policy_id)
  PROVE  FlattenSeq(s) = FlattenSeq(t) => p.policy_id = q.policy_id
<1>1. PICK a \in 1 .. n : s[a] = p.policy_id /\ t[a] = q.policy_id
  BY DEF TwinTexts
<1>2. SameLengths(s, t)
  <2>1. Len(p.policy_id) <= Len(q.policy_id)
    BY DEF TwinTexts
  <2>2. \A spec : Len(Formatted(p.policy_id, spec)) = Len(Formatted(q.policy_id, spec))
    BY <2>1, FormattedLengths DEF TwinTexts
  <2>. QED  BY <2>2 DEF TwinTexts, SameLengths
<1>3. s \in Seq(Seq(Tokens)) /\ t \in Seq(Seq(Tokens)) /\ Len(s) = n /\ Len(t) = n
  BY DEF TwinTexts
<1>4. FlattenSeq(s) = FlattenSeq(t) => s[a] = t[a]
  BY <1>2, <1>3, EqualPieces
<1>. QED  BY <1>1, <1>4 DEF TwinTexts

(* Such entries that meet on one key have one id.                          *)
LEMMA TwinsAreOne ==
  ASSUME NEW e, NEW p, NEW q, Twins(p, q, e), RenderedKey(p, e) = RenderedKey(q, e)
  PROVE  p.policy_id = q.policy_id
<1>1. Twins(q, p, e)
  BY DEF Twins
<1>2. ~(Len(p.policy_id) < Len(q.policy_id))
  BY TwinKeys, LongerIdLongerKey
<1>3. ~(Len(q.policy_id) < Len(p.policy_id))
  BY <1>1, TwinKeys, LongerIdLongerKey
<1>4. Len(p.policy_id) \in Nat /\ Len(q.policy_id) \in Nat
  BY TwinKeys DEF TwinTexts
<1>5. Len(p.policy_id) = Len(q.policy_id)
  BY <1>2, <1>3, <1>4
<1>. QED  BY <1>5, TwinKeys, EqualKeysEqualIds

(* Two entries of an accepted set that meet on one key have different      *)
(* templates, unless {policy_id} has a width or a precision wherever it    *)
(* is quoted: the parser lets identical ones through only with {policy_id} *)
(* in them or no event in common, and where it stands as it is, ids that   *)
(* differ are told apart whatever else is cut, padded or joined.           *)
THEOREM TwinsStayApart == Spec => []IdenticalTemplatesStayApart
<1>1. IInv /\ AsRendered => IdenticalTemplatesStayApart
  <2>. SUFFICES ASSUME IInv, AsRendered, NEW c \in deliveries, NEW d \in deliveries,
                       c.entry < d.entry, c.key = d.key,
                       policies[c.entry].dedup = policies[d.entry].dedup,
                       ~ReshapesPolicyId(policies[c.entry].dedup)
                PROVE  FALSE
    BY DEF IdenticalTemplatesStayApart
  <2>. DEFINE i == c.entry
              j == d.entry
              p == policies[i]
              q == policies[j]
  <2>1. /\ i \in DOMAIN policies /\ Accepted(p) /\ Understood(event) /\ Matches(p, event)
        /\ j \in DOMAIN policies /\ Accepted(q) /\ Matches(q, event)
    BY DeliveredIsAccepted
  <2>2. KeyRenders(p, event) /\ KeyRenders(q, event)
    BY <2>1, AcceptedKeysRender
  <2>3. RenderedKey(p, event) = RenderedKey(q, event)
    BY DEF AsRendered
  <2>4. IdsAreUnique(policies) /\ TemplatesApart(policies)
    <3>1. Loaded
      BY DEF IInv, Idle, AtWork, Loaded
    <3>. QED  BY <3>1 DEF IInv, AcceptedSet, ParsedPolicySet, policies
  <2>5. event.type \in p.types \cap q.types
    BY <2>1 DEF Matches
  <2>6. "policy_id" \in ReferencedFields(p.dedup)
    BY <2>1, <2>4, <2>5 DEF TemplatesApart
  <2>7. p.policy_id = q.policy_id
    <3>1. Twins(p, q, event)
      BY <2>1, <2>2, <2>6 DEF Twins
    <3>. QED  BY <2>3, <3>1, TwinsAreOne
  <2>8. i = j
    BY <2>1, <2>4, <2>7 DEF IdsAreUnique
  <2>9. i \in Int /\ j \in Int
    BY <2>1, EntriesTyped DEF IInv, TypeOK
  <2>. QED  BY <2>8, <2>9
<1>. QED  BY <1>1, RenderedAlways, PTL
=============================================================================
