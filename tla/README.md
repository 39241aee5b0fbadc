# Formal models of snowline-marketing

This directory holds TLA+ models of `src/snowline_marketing`, the TLC configurations that
check them on small instances, and TLAPS proofs of the properties that must hold for every
instance. The models are translated from the Python code; paths below are relative to the
repository root, and `X.py` means `src/snowline_marketing/X.py`.

    tlc -workers 2 -config MCOverlap.cfg MCMintingPipeline.tla      # one run
    tlapm MintingPipelineProofs.tla                                  # one proof module

## The system

snowline-marketing consumes a stream of domain events, evaluates each against the tenant's
governed policy set, and mints a PM work item for every matching policy. When a minted item
completes, the completion's provenance is recorded in a ledger of deliverables, or the
completion is quarantined for an operator.

    event source -> intake -> watch -> engine -> minting -> PM
                      |         |         |         |
                   cursor   quarantine  delivery  delivery
                            deliverables ledger    ledger
                               ^                     ^
                        operator verbs         operator verbs

| component | state | operations | hard behaviour | what makes it correct |
|---|---|---|---|---|
| intake, cursors (`intake.py`, `cursors.py`) | the acked position, per consumer and stream | read, pull, handle, ack | at-least-once delivery, overlapping passes, a pass dying between handling and ack | the position never rewinds; nothing is acked that was not handled; no event wedges the stream |
| engine (`engine.py`) | none of its own | resolve once per pass, match, record, read back | two passes record one row; two policies render one key; a re-delivery meets a claim | every acked event left its rows; one policy's work is never taken for another's |
| delivery ledger (`ledger.py`, `models.py`) | one row per dedup key | record once, seven guarded transitions | compare-and-set races, late closers | settled rows do not move; a claim has one owner |
| minting (`minting.py`), sink (`work_sink.py`) | none of its own; the claim is the durable marker | dispatch on mode, claim, render, submit, settle | crash after the send, lost answers, requests PM acts on late, outages, revised modes | at most one item per key; an item is always behind a claimed or created row |
| watch (`watch.py`) | none of its own | watch a completion; resolve, dismiss, requeue | re-deliveries out of order, racing operators, half-written declarations | every acked completion is observed; only the winner's attachment is written |
| quarantine (`quarantine.py`) | one row per completion | file, close, close all of an item | racing closers | a closed row is a decision and stays |
| deliverable ledger (`deliverables.py`) | one row per item, channel and class | guarded upsert | stale writes after newer ones | newest completion wins |
| policy resolution and cache (`policy_source.py`, `policy_cache.py`) | one cache row per version id, with its verdict | ask governance, classify, tenant-guarded upsert | outage taken for "no policy"; a version id colliding across tenants; a rollout of the parser | stall rather than skip; an audit row joins to its own tenant's policy |
| policies, matching, rendering (`policies.py`, `matching.py`, `rendering.py`) | none | validate, match, render | two validators that must agree, keys that meet, absent fields, text that grows after it was measured | what both validators accept renders; keys that meet have one owner; a request is whole or its failure names every broken template |
| events (`events.py`, `classify.py`) | none | parse, classify | poison messages | what a type guarantees is there on every envelope accepted |
| dry run (`dryrun.py`) | none of its own, in-memory stores | report what a live pass would do | drift from evaluation, retries, re-deliveries | nothing is minted unannounced; the rows end up as announced |
| registration (`registration.py`, `app.py`, `config.py`) | registered or not, at the platform; beats in flight | boot, beat, sleep, shut down | platform restarts and outages, beats of an earlier boot landing late, absurd intervals | the running boot's entry comes back within an interval, and stays |

`PROJECT.json` lists every component with its status, and the hazards with the line each
bites at and the properties that cover it.

## Modules

| module | models |
|---|---|
| `DeliveryLedger` | `ledger.py`: the rows, `Record` (insert once, read back), the transitions table and the guarded `Apply` |
| `WorkSink` | `work_sink.py`: how an exchange with PM ends, what PM may have done behind it, what the sink reads it as |
| `MintingPipeline` | intake, engine and minting over that ledger and that sink, the operator's verbs, governance's revisions |
| `MintOnce` | the abstract promise to PM: an item per key at most, named once by its row |
| `DryRun` | `dryrun.py`: the preview of a stream, compared with the live passes; extends `MintingPipeline` |
| `ProvenanceWatch` | the watch, the quarantine, the deliverable ledger and the three operator verbs |
| `PolicyResolution` | the policy provider, the version cache, `parse_policy_set`'s verdicts and `EvaluationHandler`'s resolution, for several tenants |
| `PolicyAudit` | the abstract promise to the audit trail: a version id has one holder for good, and decides for it only |
| `Envelopes`, `PolicyRules`, `MintRendering` | the pure part: `parse_envelope`; `parse_policy_set`, matching and dedup keys; templates and the provenance block |
| `PolicyEvaluation` | bodies and events taken through all of it: load, handle, deliver, render |
| `Registration` | the heartbeat of successive boots against a platform that forgets |
| `MC...` | the small instances TLC checks |
| `MintingPipelineProofs` | type correctness, the inductive invariant and the four state invariants |
| `MintOnceProofs` | the action properties, the refinement of `MintOnce`, that acked events left their rows |
| `DryRunProofs` | that nothing is minted unannounced, that rows are the preview's and meet their fates, that gates are kept and nothing acked is due |
| `ProvenanceWatchProofs` | type correctness and the four safety properties of the watch |
| `PolicyResolutionProofs` | type correctness, the safety properties of policy resolution, the refinement of `PolicyAudit` |
| `PolicyEvaluationProofs` | type correctness, the properties of keys, and those of rendered text |
| `RegistrationProofs` | type correctness, that registration heals within an interval |
| `NumberFacts` | the two forms of induction the proofs use |

A definition whose comment begins with *Mistake* is a plausible bug kept beside the operator
it would replace; each property names one that breaks it, so that the runs are known to be
able to fail.

### MintingPipeline

A step is what the code does between two points where another process can interfere: one
database transaction (`session_scope`) or one call of PM. The steps of a pass follow `pc`:
`idle`, `first` / `next` (between events), `handle` (the event is pulled), `record` (one ledger
row per matched entry, `left` to go), `mint` (the `owed` entries of this event), `claimed`
(claim committed, nothing sent yet), `answered` (PM or the transport answered), `ack`.

| variable | code |
|---|---|
| `ledger`, `eventRows` | `delivery_ledger` rows: outcome, policy, item ref, and whether a claim is younger than `claim_stale_seconds`; quarantined / ignored rows of whole events |
| `cursor` | `consumer_cursors.position` |
| `version` | the mode each policy is published in, or absent |
| `minted`, `late` | the items PM holds per key; requests PM has yet to act on |
| `surfaced` | rows some re-delivery reported as stuck |
| `pos`, `pin`, `left`, `owed`, `held`, `answer`, `deferred` | a pass's position, resolved policy set, loop variables, claim in hand, sink result, and "an unavailable answer defers this event" |

`Abort` is a death of the process, or an exception a store raised, at any step: the pass's
volatile state goes, its committed writes stay. `LateRequest` is a request that was sent and
that PM acts on after its sender gave up. `ClaimGoesStale` is time passing; it may
happen at any moment, so the properties hold for every threshold.

What is abstracted: detail and timestamp columns; the attempt counter; the text of keys (a key is
a value `KeyOf` gives an entry of an event, and two entries may share one); one tenant, one
consumer, one stream; `limit`, which is a pass that finishes early (`FinishPass`).

`Submit` draws an exchange from `WorkSink`: it ends unsent, unbuilt, interrupted, or answered
with a status and a body; `PMEffects` says what PM may have done behind that exchange, `Read` what
the sink makes of it without seeing PM. That no reading gives back a claim whose item exists is
therefore checked of the status table itself, not assumed of an answer's name.

Assumptions about what is outside the code: PM creates at most one item per request; a status below
500 other than a 2xx means PM did nothing, a 5xx or an interrupted exchange leaves it open; the operator calls
`release_stale_claim` only for a claim that he verified was never sent and that no live
pass holds, which `ledger.py` asks of him; the stream is fixed, finite and in order.

### ProvenanceWatch

A pass watches a completion (`watch`, `file`, `check`, `write`), then evaluates and mints
(`mint`, which may stop it un-acked), then acks; an operator's resolve or heal is in `write`, a
requeue in `requeue`. `OccurredAt` is separate from the position in the stream, so that completions
may arrive out of completion order. A deliverable keeps the completion that produced it, its time
and the attachment it came from; a quarantine row its status, the attached declaration and the
completion credited with closing it. `readable` stands for the deployed parser: `ParserFixed` is
a release that reads a declaration the last one could not, which is what requeue exists for.
`named` are the items a created row of the delivery ledger names, the join of `created_for_item`.
Reason and detail columns are left out, and with them `refresh_open`, which changes nothing else.

### PolicyResolution

| variable | code |
|---|---|
| `published` | governance: the artifact version in force for each tenant; revised, registered or retired by `Revise` at any time |
| `cache` | `policy_cache` rows: tenant, body, and one verdict for `parse_outcome` with `quarantine_reason` |
| `decided` | the artifact versions evaluated into ledger rows; a row stores the id, the model also remembers the body |
| `release` | the parser release each driver process runs; `Deploy` restarts it on the next |
| `pass` | the handler's memo: nothing, no policies, fetched but not cached, evaluating, stalled |

`Resolve` and `MisHear` are `provider.resolve` with the answer governance owes and with one that
went wrong (nothing, an error status, a page that is no artifact version, a bare 404, a 404 about
another tenant); `Reading` is how `GatewayPolicyProvider` reads both, and `InMemoryPolicyProvider` is the
case in which only the first kind occurs. `Put` is `PolicyCache.put`, one statement in one
transaction, so one step: `Answer` is what it returns to the engine, `Upserted` the row it writes.
`InMemoryPolicyCache.put` does the same without a database. `Evaluate` stands for every event of the
pass: which rows it writes is `MintingPipeline`'s matter. `Discard` is the end of a pass, a
death, or a `put` that raised, after which a new handler resolves anew. Bodies are told apart by the
tenant they declare and the releases that accept them; why a pass stalled, `fetched_at` and the artifact id are left out.
`Issued` says which versions may be in force, and may hold one id twice: ids are the caller's to choose
on the fixtures path.

### DryRun

A preview runs the same evaluation over a capture of the same events, with in-memory stores and no
minting pass, so that no row of it ever leaves `matched` and every entry that is not refused as a
collision yields its consequence, again for a key already seen. `PreviewOf` is that list in
delivery order, `WouldMint` the headline (first occurrence per key, `dry_run` entries left out),
`PreviewRows` the rows. The properties compare it with what the passes do with crashes, retries
and overlaps: `Fate` is what may become of a row, by the mode of its first delivery. They say nothing
once governance has revised a policy. A candidate that does not
parse, and a capture that cannot be read, return before any event is evaluated and are left out.

### Envelopes, PolicyRules, MintRendering, PolicyEvaluation

The conversions are modelled by what they do: a text is a sequence of `Tokens` (the headings and the
words of the closed vocabularies are texts of that kind too), a template a sequence of parts (literal, placeholder with its format spec, stray brace), and formatting, joining and
escaping are operators on them, since the properties are about texts that coincide, are absent, or
grow. A format spec may leave a text as it is, cut it to a token (a precision), pad it to `Width` with `Fill` (a
width), or fail; a conversion (`!s`, `!r`, `!a`) keeps different texts different and is left out. A
word of a closed vocabulary is one token, though the consequences' words differ in length: none of
them occurs inside another, so that a template's other parts cannot make up for the difference.
What pydantic checks field by field is one shape (`shapeless`), or what makes a body
undecodable. `fnmatchcase` is the constant relation `Covers`. `PolicyEvaluation` takes a body and
events through the handlers in order: `LoadPolicySet` (`_classify`), `HandleEvent` (parse,
tenant, matching), `Deliver` per entry with the collision guard, `Render` for what was recorded,
`Acknowledge`; `DeliverRaises` is `DedupKeyUnrenderable`, which stops the stream. The vocabulary leaves
out `occurred_at`, `external_refs`, `destination_*`, `artifact_refs`, `channels`,
`deliverable_classes` and the boolean flags: each is always present, or a list read like `signals`.

### Registration

| variable | code |
|---|---|
| `loop`, `wait`, `beatEvery`, `confirmed` | where `registration_heartbeat` is, its sleep, `beat_every`, `confirmed` |
| `boot` | one lifespan of the app; each may advertise another `base_url` |
| `beats` | the POSTs on worker threads, of this boot and, abandoned by a shutdown, of earlier ones |
| `registry`, `legacy` | the boot whose entry the platform holds; whether it is an older platform that answers 409 and keeps what it has |
| `lost` | a history variable: ticks slept since an upserting platform lost the boot, or since a beat failed |

`Land` is the POST reaching the platform, `Fail` a transport error or another status before it
landed or after, `PostRaises` what the backstop catches. A tick is a slice of the interval.
`Cadence` is `registration_heartbeat_seconds` with its fallbacks and its floor. A boot whose migration fails
never starts the heartbeat and is left out.

## Runs

| run | instance | question |
|---|---|---|
| `overlap` | 2 passes, 2 events sharing a key, 1 death, 1 revision, one policy active and one gated, the operator's verbs, every exchange with PM | is a key ever minted twice or unannounced, an item lost from its row, a settled row moved, an event acked with no row? |
| `single_driver` | 1 pass, 7 events (malformed, foreign, ignored, keys that meet across events, two entries that collide on one), a policy of each mode, 2 deaths, outages, fair | without overlap: nothing acked is still due; the rows are as previewed and meet their fates; the stream is consumed |
| `watch` | 2 passes, 1 operator, 3 completions out of order, 1 death | is every acked completion observed, do stale facts return, do closed rows move? |
| `resolvers` | 1 pass, 2 operators with different attachments, 2 items, 2 deaths, fair | is only the winner's attachment written, and is it in the end? |
| `policies` | 2 passes, 2 tenants, one version id for three artifacts (one misregistered, one only the second parser release reads), fair | does an audit row join to its own tenant's policy, is an outage ever taken for no policies, does a valid policy take effect? |
| `evaluation` | 1,722 bodies (each key form against each set of event types, templates against predicates, pairs and triples of entries) and 47 events | do accepted keys render and apart from each other; is a rendered request whole, within its caps, and its failure complete? |
| `registration` | 3 boots, 7 raw intervals, 2 platform restarts, 2 failed beats, both platforms, fair | does the running boot's entry come back in an interval, and for good? is each boot confirmed? |
| `crash_strands`, `gated_stranded`, `swallowed` | minting | statements of the docs the code does not keep, below |
| `closes_forward` | 2 passes, 1 operator | the same, of the watch |
| `constant_keys` | one entry per key form, 4 events of one type | the same, of the dedup template check |

The bounds: two processes of a kind are what every race here needs (a claim, a close, an upsert
each has one winner and one loser); two events of `overlap` sharing a key are what a re-delivery
beside a later delivery needs, and `single_driver` has the longer stream; two deaths allow a
death during the recovery from a death; three boots allow a beat of an earlier boot to land after two restarts.
`evaluation` needs at most three entries, the smallest set in which a key meets one that is not its neighbour,
and caps of two tokens, so that every text that escaping lengthens goes past one.
`overlap` explores its two passes up to their exchange (`PassSymmetry`): no action names or orders
passes and the run checks safety only, where symmetry is sound. No other run uses symmetry.
The proofs remove the bounds for most safety properties. Every run checks deadlock.

### Fairness

`MintingPipeline!Fairness`: the scheduled driver starts a pass again and a pass that
runs takes its next step (weak fairness of `PassStep`); governance and PM may be down any number of
times but not for ever (strong fairness of `Resolve` and `SubmitAnswered`); time passes.
Nothing is assumed of operators or of governance publishing. `ProvenanceWatch!Fairness`: a running
operator call goes on, and the verb is called again on a row resolved with an attachment, which is
what the docstring of `resolve_quarantined` relies on ("an operator retrying, converges
it"). `PolicyResolution!Fairness`: passes end and are driven again for each tenant (`intake` is
polled), governance answers, and a pass lives long enough to put and to evaluate, infinitely often
(strong fairness, since answers fail and processes die); a rollout completes.
`Registration`: weak fairness of `Running`, everything that happens by itself: the event loop goes
on, a thread's POST lands or is answered, sleeps end. Boots, shutdowns, faults and platform
restarts are left to chance.

### What the code does otherwise than its text says

Each of these is a run with `expect: violation` and a finding in `PROJECT.json`.

* `crash_strands`: a pass that starts soon after a death finds the claim fresh, acks, and the
  claim is never reported as stuck.
* `gated_stranded`: a gated row does not drain when its policy becomes active, since its event
  was acked when it was gated.
* `swallowed`: two policies whose keys coincide on two events; the collision guard sees one
  event at a time and the later match is reported as a duplicate of the other policy's row.
* `closes_forward`: the self-close is keyed on the item and also closes the row of a later
  completion when a slower pass re-watches an earlier one.
* `constant_keys`: the validator refuses a dedup template without a placeholder as constant, but not
  one whose placeholders are all fixed for the policy, like `{tenant}:{policy_id}`: every later
  event of that policy is a duplicate of the first.

Known gaps that a property is deliberately stated around, rather than a run of their own:

* `AckedEventsAreMinted` is checked, and proved, for one driver. With two passes, one may dedup
  quietly on the other's fresh claim and ack; if PM is then unavailable the owner releases the
  row to matched, behind the cursor. That hazard (`engine.py`, line 710) no property covers. One driver does the same to a gated row of an acked event that an
  active policy's later event claims. `replay` has the same effect for a row whose event
  was acked long ago, which is why no liveness is claimed of replayed rows.
* A requeue, or a re-delivery past its settled check, that read the row before a dismissal writes
  its deliverables after it; no property says that a dismissed completion has no deliverables.
* A body resolved for the wrong tenant is cached under that tenant (as `tenant_mismatch`), and from
  then on the tenant whose rules it holds is refused its own version. This needs governance to serve
  one version to two tenants; `CurrentPolicyDecides` excepts a version whose id another tenant
  holds, and nothing in the code ever gives it back.
* "Identical templates WITH {policy_id} are safe (distinct ids render distinct keys)", says
  `policies.py`, line 480. Not if every `{policy_id}` in them has a precision or a width: both
  `{policy_id:.1}` and `{policy_id:04}` pass the dry render of `_validate_dedup_template`, and either renders
  the ids `p1` and `p10` alike (`p`, and `p100`). Of the two policies the second is then refused as a collision,
  aloud, on every event both select. `IdenticalTemplatesStayApart` excepts templates of that kind (`ReshapesPolicyId`)
  and no others: one `{policy_id}` without a width or a precision keeps the keys apart, and the run has all three.
* A required details key that is present with a null passes `_check_type_shape`, so a template that
  quotes it still fails for that event; `QuotedFieldsAreCarried` speaks of predicates and payload fields.
* The escaped heading is looked for in the templates' output, not in the facts of the provenance
  block itself; `HeadingOnlyInBlock` speaks of what is outside the block.
* A preview renders no templates, so a row whose first delivery is an active policy's may end as
  `failed`: `PreviewIsCarriedOut` promises a mint or a row an operator is shown, not a mint.
* The row of an approval-gated policy is re-owed to whichever entry renders its key next, as
  `swallowed` takes a key: an active policy that does so on a later event claims and mints it, with no
  approval of the policy the row names. `Fate` allows for it and `GatesAreKept` excludes such streams.
* The preview's headline leaves `dry_run` consequences out before it looks at keys, so it counts an
  active policy's consequence whose row a `dry_run` policy closed first, and which mints nothing.
  Nothing is minted that it does not announce, and the report's own rows come true; the headline may be too long.
* Against an older platform, which answers 409 and keeps the entry it has, a changed `base_url` is
  not registered until that platform restarts: `RegistrationHeals` and `HealsWithinInterval` except it.
  Nothing deregisters at shutdown.
* `AckedCompletionsAreObserved` speaks of items named when the run starts: a completion watched
  before `confirm_created` has named its item is passed silently and acked.

## Proofs

All of them are checked by `tlapm` to the last leaf, from the constants' named assumptions alone.
They hold for any number of passes, events, policies, deaths and revisions.

* `TypeCorrect`: `TypeOK`, together with `WorkInHand`, which relates each pass's loop variables to
  the event it handles (an owed entry is an entry of that event, a held key is one of the
  ledger's) and without which the types are not inductive.
* `SafetyHolds`: the inductive invariant `Safe`. `NoDoubleMint` is not inductive: to see that PM
  creates no second item one must know that the key's row is claimed by the pass that is about to
  send and that nothing of that key was created or is still on the wire. `Safe` says so, step by
  step: a pass in `claimed` holds its key alone, its row is claimed, and the key has no item and no
  late request; in `answered`, the answer tells how many items there are, and only
  `indeterminate` leaves that open; a row that may be claimed (matched or awaiting approval) or is
  settled otherwise than created has none. The step that gives a claim back rests on the sink: no
  exchange that `Read` takes for `unavailable` or `rejected` has an effect in `PMEffects`. From it follow `NeverMintedTwice`,
  `ItemsStayAccountedFor`, `CreatedRowsNameItems` and `ClaimsAreExclusive`.
* `SettledRowsNeverMove`, `CursorOnlyAdvances`: action properties, one step per action.
* `PipelineMintsOnce`: every behaviour of the pipeline is one of `MintOnce` under the mapping
  items = what PM holds, named = keys whose row is created. A PM creation maps to `Mint`, a
  `confirm_created` to `Name`, everything else to a stutter.

The watch, for any number of passes, operators, completions, items and slots:

* `WatchTypeCorrect`: `TypeOK` with `JobInHand`, which says when a process has a completion in
  hand and that only an operator in the middle of a resolve or a heal carries an attachment.
* Every step moves the stores forward (`Forward`, lemma `StepIsForward`): a closed row stays as it
  is, a filed row stays filed, a deliverable's time never decreases. `ClosedRowsStayClosed` is
  part of it; the rest is what makes the facts below stable under everybody else's steps.
* `LosersWriteNothing`: who carries an attachment is the winner of its row, since the close
  came first and closed rows stay; so what he writes is the winner's.
* `ClosesFollowWrites`: what a pass or a requeue has written of a declaration so far
  (`WrittenSoFar`) stands or is superseded, so that at the close all of it does.
* `AckedMeansObserved`: a pass has accounted for every completion behind it, and for the one in
  hand once it is through watching it; it starts from the cursor, behind which all are
  accounted for.

Policy resolution, for any tenants, ids, bodies, parser releases and passes, and whatever ids are
reused (`Issued` is any set):

* `IInv` joins the checked invariants with two facts: `RowsAreIssued` (a row holds a version that was
  in force for its tenant) and `PinsAreHeld` (a pass that evaluates holds its id). `HoldersStay`, that
  an id a tenant holds stays with it, is what carries both from the put to the evaluation
  under other passes' puts. `AuditAlwaysJoins`, `VerdictsNeverGoStale` and `NoForeignRules` follow.
* `FailuresNeverMatchNone`: an action property, from the reading of every answer (`HearEffect`).
* `ResolutionKeepsTheAudit`: a put maps to `Take` or a stutter, an evaluation to `Judge`.

The audit trail and the preview, for any stream, policies, passes, deaths and revisions:

* `AckedEventsLeaveTrail`: `Trail` adds to the property, for each pass (`PassTrail`), that every event
  behind its position left its rows, that the event in hand did once it is past recording, and before
  that the entries no longer in `left` did. A row is never removed (`RowsPersist`), so
  other passes leave all of it alone.
* `PreviewAnnouncesAll`: `AsPreviewed` says, as long as nothing is revised, that what a pass owes is
  among the preview's deliveries of its event, and that a claimed key, and one PM has or may still
  get an item for, is announced by a delivery of an active policy. A collision loser never gets that far. That the headline keeps a first consequence per key
  needs a least element of the key's consequences (`LeastNumber`, `FirstExists`), by well-founded
  induction on a set of naturals.
* `RowsFollowPreview`: the property is not inductive, since the next row inserted could be another
  delivery's than the first of its key. `RowsInOrder` adds that every row is that of the key's first
  delivery (`RowOfFirst`). It is kept because a row is inserted only for a key without one, by a
  pass behind which every event left its rows (`Trail`): an earlier delivery of the key would have
  been one of them (`InsertedIsFirst`). This holds for overlapping passes too.
* `GatesAreKept`: then a row's policy is that of a delivery of its key, and a claim is made for a delivery of
  an active policy with the same key. Assumes `GatedKeysApart`, that no gated policy delivers a key
  an active one delivers; without it the active policy's delivery is handed the gated row, and claims it (a known gap, above).

One driver (`SoleDriver`: at most one pass, no operator verbs), with any deaths, outages and late requests:

* `PreviewComesTrue`: `CarriedOut` follows the pass through its event. Its position is the cursor's
  (`InStep`); a delivery of the event in hand that it is through with is no longer `matched` unless
  the event is put off (`PassedOver`); a row still due is one the event after the cursor delivers
  (`DueIsNext`); the key it holds a claim of is one this event delivers for an active policy, and not the
  first delivery of an active policy behind the cursor (`HeldIsDue`), which is why a claim given
  back leaves no acked row due; and the outcome of a row is among those of its first delivery's mode, and settled once that
  event is acked (`FatesHold`). A death loses the pass's place, not the rows, and the next pass starts from
  the cursor again.
* `NothingAckedIsDue`: the same invariant; with `GatedKeysApart` no row of an acked event is claimed for
  a later one, and so none is given back. Both hypotheses are needed: the gap above shows a stream
  for each that breaks the property.

The instances of `overlap` and `single_driver` satisfy `GatedKeysApart`, that of `single_driver` is a `SoleDriver`.

Evaluation, for any bodies, events, entries, templates and texts, with `IInv` (the state of the
evaluation) and `AsRendered` (deliveries carry the keys, and requests are the renderings, that the operators say):

* `KeysAlwaysRender`: a delivered entry belongs to a set the parser accepted and its event to a
  type the entry selects, so each field its key references is in the always-present part or guaranteed for
  that type by `TypeShapeOK`. This is the contract between `policies.py` and `events.py`.
* `OwnersAreUnique`: entries are delivered in order, `deliveries` holds exactly the entries before
  `left`, and a matched one is the first with its key.
* `QuotedFieldsAreThere`: each kind of field has its reason (`ReliedIsCarried`): always rendered,
  matched by a pattern, which an absent value never is, or guaranteed by every selected type.
* `OneRepairIsEnough`: a failure names every template that does not render, and what a template
  yields depends on no other.
* `CapsBoundPosted`: the cap is compared with the text that is posted, after escaping.
* `OnlyTheBlockHasHeadings`: by induction along the text (`NeutralizedIsFree`), no prefix of the
  escaped text holds a heading: a token is appended only if it completes none, and the replacement ends in a token
  that begins none. The block appended to it starts with a break, so that no heading is completed across the
  border (`HeadingsOfAppendix`).
* `TwinsStayApart`: two entries of an accepted set that select one event and share a template quote
  `{policy_id}` in it, once at least as it is. Their keys are made of parts of the same lengths but where
  an id stands (`TwinPieces`), and no width or precision makes the longer id the shorter part
  (`FormattedLengths`), so equal keys have ids of one length (`LongerPieces`), hence parts equal one by one
  (`EqualPieces`), hence equal ids, which an accepted set excludes. It is not enough that the ids differ: without
  the argument on lengths a longer id could make up for what another part lacks.

What a recursive function computes is proved by climbing a set of numbers (`NumberFacts!Climb`), which
rests on `LeastNumber`; the library's own induction theorems take an operator and cannot be used. The rendering
module's headings are concrete tokens, and its assumptions say no more than that they, the separators
and the closed vocabularies' words are texts.

Registration, for any intervals, boots, restarts and faults:

* `HealsInTime`: on an upserting platform, what was slept since the loss and what is left to sleep fit
  in one interval (`Slept`); a beat that was answered well has reset the count, and while the
  heartbeat posts the beat of this boot is the one in flight (`Flight`).

Only model-checked: the liveness properties (`EverythingIsConsumed`, `MatchedIsCarriedOut`,
`AttachedIsApplied`, `CurrentPolicyDecides`, `RegistrationHeals`, `EachBootConfirms`), which rest on
fairness and are outside the prover's reach. Every safety property of a passing run is stated by a theorem,
two of them (`PreviewComesTrue`, `NothingAckedIsDue`) for one driver, the latter for streams with
`GatedKeysApart` only. `GatedPolicyNeverMints` is stated beside its theorem, and no run checks it.

## Plan

Done:

1. `DeliveryLedger`, `MintingPipeline`, `MintOnce`, their runs and proofs.
2. `ProvenanceWatch`, its runs and the proofs of its safety properties.
3. `PolicyResolution`, `PolicyAudit`, their runs and proofs.
4. `Envelopes`, `PolicyRules`, `MintRendering`, `PolicyEvaluation`, their run and proofs.
5. `Registration`, its run and proofs.
6. `WorkSink` under the pipeline; `DryRun` beside it; the proofs of the audit trail and the preview.
7. The proofs that rows follow the preview and meet their fates, that nothing acked is due, and of rendered text.

Left, in this order:

1. A composition of the pipeline with the watch, `named` driven by the pipeline's own rows, and of
   the pipeline with policy resolution, its versions and stalls driven by it. Both products are too
   large for the bounds above to keep their interesting cases; they need smaller instances of both halves.
2. The `claim_stale_seconds` clamp, once time is more than "may be stale at any moment".
3. `parse_provenance` as rules, if ever a property depends on which rule rejected a payload.

Not modelled, by choice: migrations and sessions (`db.py`, taken as atomic transactions), the
rules of `provenance.py` (single-field checks; the watch takes their verdict as an input), read-only
listings, logging, and the manifest's wording.
