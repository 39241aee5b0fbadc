--------------------------- MODULE MintingPipeline ---------------------------
(***************************************************************************)
(* Intake, evaluation and minting of one tenant's event stream, by passes  *)
(* that may overlap, die at any step and be driven again (intake.py,       *)
(* engine.py, minting.py, cursors.py, with the ledger of ledger.py).       *)
(*                                                                         *)
(* A pass reads the cursor, and for each event after it: pins the policy   *)
(* set once, records one ledger row per matching entry, carries out every  *)
(* consequence it owes, and only then acks.  Each database transaction and *)
(* each PM call is one step, so any two passes interleave between them.    *)
(***************************************************************************)
EXTENDS DeliveryLedger, WorkSink, Sequences

CONSTANTS
  Passes,        \* driver processes, each running one pass at a time
  Malformed,     \* events parse_envelope rejects
  Foreign,       \* events whose envelope declares another tenant
  Entries,       \* event -> the policies whose entry selects it, in declaration order
  KeyOf,         \* <<policy, event>> -> the dedup key the entry's template renders
  InitialModes,  \* the policy version in force at the start
  NoKey,
  OperatorActs,  \* whether the operator verbs of ledger.py are used
  MaxAborts,     \* bound: passes that die or hit a database or source error
  MaxRevisions   \* bound: policy versions published after the first

Modes == {"active", "approval_required", "dry_run"}
Versions == [Policies -> Modes \cup {"absent"}]

ASSUME PipelineAssumption ==
  /\ Malformed \subseteq Events
  /\ Foreign \subseteq Events
  /\ Entries \in [Events -> Seq(Policies)]
  /\ KeyOf \in [Policies \X Events -> Keys]
  /\ InitialModes \in Versions
  /\ NoKey \notin Keys
  /\ OperatorActs \in BOOLEAN
  /\ MaxAborts \in Nat
  /\ MaxRevisions \in Nat

VARIABLES
  cursor,     \* the acked position of the source, 0 before the first ack
  version,    \* the policy version the provider resolves now
  minted,     \* PM: items created, per key
  late,       \* PM: requests still on the wire whose sender stopped waiting
  surfaced,   \* keys some report named to an operator
  pc,         \* where each pass is
  pos,        \* the last event each pass pulled
  pin,        \* the version each pass resolved, memoized for the pass
  left,       \* entries of the event still to be recorded
  owed,       \* entries of the event whose consequence is still to be carried out
  held,       \* the key each pass claimed and has not settled
  answer,     \* the sink's answer
  deferred,   \* whether a consequence of the event found PM unavailable
  aborts, revisions

storeVars  == <<ledger, eventRows, cursor>>
pmVars     == <<minted, late>>
driverVars == <<pc, pos, pin, left, owed, held, answer, deferred>>
worldVars  == <<version, surfaced, aborts, revisions>>
vars == <<storeVars, pmVars, driverVars, worldVars>>

Unresolved == [q \in Policies |-> "unresolved"]
Waiting    == [kind |-> "none", ref |-> NoRef]

Entry(e, i) == Entries[e][i]
EntryKey(e, i) == KeyOf[<<Entries[e][i], e>>]

(* The entries of the pinned version that select the pass's event.         *)
Matching(p) ==
  {i \in 1 .. Len(Entries[pos[p]]) : pin[p][Entry(pos[p], i)] # "absent"}

IsFirst(i, S) == i \in S /\ \A j \in S : i <= j

Goto(p, to) == pc' = [pc EXCEPT ![p] = to]

-----------------------------------------------------------------------------

Init ==
  /\ LedgerInit
  /\ cursor = 0
  /\ version = InitialModes
  /\ minted = [k \in Keys |-> 0]
  /\ late = [k \in Keys |-> 0]
  /\ surfaced = {}
  /\ pc = [p \in Passes |-> "idle"]
  /\ pos = [p \in Passes |-> 0]
  /\ pin = [p \in Passes |-> Unresolved]
  /\ left = [p \in Passes |-> {}]
  /\ owed = [p \in Passes |-> {}]
  /\ held = [p \in Passes |-> NoKey]
  /\ answer = [p \in Passes |-> Waiting]
  /\ deferred = [p \in Passes |-> FALSE]
  /\ aborts = 0
  /\ revisions = 0

(* The pass is over: its volatile state is gone, its durable writes stay.  *)
EndPass(p) ==
  /\ Goto(p, "idle")
  /\ pos' = [pos EXCEPT ![p] = 0]
  /\ pin' = [pin EXCEPT ![p] = Unresolved]
  /\ left' = [left EXCEPT ![p] = {}]
  /\ owed' = [owed EXCEPT ![p] = {}]
  /\ held' = [held EXCEPT ![p] = NoKey]
  /\ answer' = [answer EXCEPT ![p] = Waiting]
  /\ deferred' = [deferred EXCEPT ![p] = FALSE]
  /\ UNCHANGED <<storeVars, pmVars>>

-----------------------------------------------------------------------------
(* Intake: read the cursor, pull events in order, ack after the handler.   *)

StartPass(p) ==
  /\ pc[p] = "idle"
  /\ Goto(p, "first")
  /\ pos' = [pos EXCEPT ![p] = cursor]
  /\ UNCHANGED <<pin, left, owed, held, answer, deferred, storeVars, pmVars, worldVars>>

(* Mistakes: pulling past the end of the stream; a malformed event that     *)
(* stops the pass instead of being acked past.                             *)
PullEventPastEnd(p) ==
  /\ pc[p] \in {"first", "next"}
  /\ pos' = [pos EXCEPT ![p] = @ + 1]
  /\ Goto(p, "handle")
  /\ UNCHANGED <<pin, left, owed, held, answer, deferred, storeVars, pmVars, worldVars>>

PullEventOrWedge(p) ==
  /\ pc[p] \in {"first", "next"}
  /\ pos[p] < LastEvent
  /\ IF pos[p] + 1 \in Malformed
     THEN EndPass(p)
     ELSE /\ pos' = [pos EXCEPT ![p] = @ + 1]
          /\ Goto(p, "handle")
          /\ UNCHANGED <<pin, left, owed, held, answer, deferred, storeVars, pmVars>>
  /\ UNCHANGED worldVars

(* A malformed event is reported and acked past; any other is handled.     *)
PullEvent(p) ==
  /\ pc[p] \in {"first", "next"}
  /\ pos[p] < LastEvent
  /\ pos' = [pos EXCEPT ![p] = @ + 1]
  /\ Goto(p, IF pos[p] + 1 \in Malformed THEN "ack" ELSE "handle")
  /\ UNCHANGED <<pin, left, owed, held, answer, deferred, storeVars, pmVars, worldVars>>

(* The stream is exhausted, or the pass's limit is reached.                *)
FinishPass(p) ==
  /\ \/ pc[p] = "next"
     \/ pc[p] = "first" /\ pos[p] = LastEvent
  /\ EndPass(p)
  /\ UNCHANGED worldVars

(* Mistake: the last writer wins.                                           *)
AckLastWriterWins(p) ==
  /\ pc[p] = "ack"
  /\ cursor' = pos[p]
  /\ Goto(p, "next")
  /\ UNCHANGED <<pos, pin, left, owed, held, answer, deferred, ledger, eventRows,
                 pmVars, worldVars>>

(* The upsert applies only forward: a stale ack changes nothing.           *)
Ack(p) ==
  /\ pc[p] = "ack"
  /\ cursor' = IF cursor < pos[p] THEN pos[p] ELSE cursor
  /\ Goto(p, "next")
  /\ UNCHANGED <<pos, pin, left, owed, held, answer, deferred, ledger, eventRows,
                 pmVars, worldVars>>

(* The process dies, or the cursor store, the ledger or the source raises: *)
(* the pass stops with its event un-acked.                                 *)
Abort(p) ==
  /\ pc[p] # "idle"
  /\ aborts < MaxAborts
  /\ aborts' = aborts + 1
  /\ EndPass(p)
  /\ UNCHANGED <<version, surfaced, revisions>>

-----------------------------------------------------------------------------
(* Evaluation.                                                             *)

(* The first handled event of a pass resolves the version the pass keeps.  *)
Resolve(p) ==
  /\ pc[p] = "handle"
  /\ pin[p] = Unresolved
  /\ pin' = [pin EXCEPT ![p] = version]
  /\ UNCHANGED <<pc, pos, left, owed, held, answer, deferred, storeVars, pmVars, worldVars>>

(* Mistake: an outage acked past like a poison event.                       *)
StallSkips(p) ==
  /\ pc[p] = "handle"
  /\ pin[p] = Unresolved
  /\ Goto(p, "ack")
  /\ UNCHANGED <<pos, pin, left, owed, held, answer, deferred, storeVars, pmVars, worldVars>>

(* Governance is unavailable, or the version unreadable: nothing recorded. *)
Stall(p) ==
  /\ pc[p] = "handle"
  /\ pin[p] = Unresolved
  /\ EndPass(p)
  /\ UNCHANGED worldVars

(* An event of another tenant, or one no entry selects: one event-level row. *)
RecordEventLevel(p) ==
  /\ pc[p] = "handle"
  /\ pin[p] # Unresolved
  /\ \/ pos[p] \in Foreign /\ RecordEvent("quarantined", pos[p])
     \/ pos[p] \notin Foreign /\ Matching(p) = {} /\ RecordEvent("ignored", pos[p])
  /\ Goto(p, "ack")
  /\ UNCHANGED <<pos, pin, left, owed, held, answer, deferred, ledger, cursor,
                 pmVars, worldVars>>

MatchEntries(p) ==
  /\ pc[p] = "handle"
  /\ pin[p] # Unresolved
  /\ pos[p] \notin Foreign
  /\ Matching(p) # {}
  /\ left' = [left EXCEPT ![p] = Matching(p)]
  /\ Goto(p, "record")
  /\ UNCHANGED <<pos, pin, owed, held, answer, deferred, storeVars, pmVars, worldVars>>

(* An earlier entry of this event rendered the same key.                   *)
Collides(p, i) ==
  \E j \in Matching(p) : j < i /\ EntryKey(pos[p], j) = EntryKey(pos[p], i)

(* The next entry, in declaration order.  A collision leaves the ledger    *)
(* alone and is reported failed; otherwise the insert-or-nothing decides:  *)
(* a new row, or one that still owes its work, yields a consequence.  A    *)
(* fresh claim and a settled row dedup quietly; a stale claim and a failed *)
(* row are reported failed and not touched.                                *)
RecordEntry(p) ==
  /\ pc[p] = "record"
  /\ \E i \in left[p] :
       LET k == EntryKey(pos[p], i)
           row == ledger[k]
           owes == row = NoRow \/ (row.outcome \in ReOwedOutcomes /\ row.ref = NoRef)
       IN /\ IsFirst(i, left[p])
          /\ left' = [left EXCEPT ![p] = @ \ {i}]
          /\ IF Collides(p, i)
             THEN surfaced' = surfaced \cup {k} /\ UNCHANGED <<ledger, owed>>
             ELSE /\ Record(k, Entry(pos[p], i))
                  /\ owed' = [owed EXCEPT ![p] = IF owes THEN @ \cup {i} ELSE @]
                  /\ surfaced' = IF row.outcome \in ReconciliationOutcomes /\ ~row.fresh
                                 THEN surfaced \cup {k} ELSE surfaced
          /\ Goto(p, IF left[p] = {i} THEN "mint" ELSE "record")
  /\ UNCHANGED <<pos, pin, held, answer, deferred, eventRows, cursor, pmVars,
                 version, aborts, revisions>>

-----------------------------------------------------------------------------
(* Minting: every consequence of the event, in order, before the ack.      *)

(* Mistake: dispatching whatever mode the entry has.                        *)
DispatchesAnyMode(p, i, mode) == pc[p] = "mint" /\ IsFirst(i, owed[p])

(* The next consequence, whose entry has this mode in the pinned version.  *)
Dispatches(p, i, mode) ==
  /\ pc[p] = "mint"
  /\ IsFirst(i, owed[p])
  /\ pin[p][Entry(pos[p], i)] = mode

(* What a refused transition reports: nothing for a row already minted,    *)
(* reconciliation for any other row than the one the verb leads to.        *)
Refused(verb, k) ==
  surfaced' = IF Applies(verb, k) \/ ledger[k].outcome \in {"created", Transitions[verb].to}
              THEN surfaced ELSE surfaced \cup {k}

(* Mode active: the durable claim, before PM is called.                    *)
Claim(p) ==
  /\ \E i \in owed[p] :
       LET k == EntryKey(pos[p], i)
       IN /\ Dispatches(p, i, "active")
          /\ Applies("claim", k)
          /\ Apply("claim", k, NoRef)
          /\ owed' = [owed EXCEPT ![p] = @ \ {i}]
          /\ held' = [held EXCEPT ![p] = k]
          /\ Goto(p, "claimed")
  /\ UNCHANGED <<pos, pin, left, answer, deferred, eventRows, cursor, pmVars, worldVars>>

(* Another pass holds the row, or it is no longer mintable: it moves on.   *)
ClaimRefused(p) ==
  /\ \E i \in owed[p] :
       LET k == EntryKey(pos[p], i)
       IN /\ Dispatches(p, i, "active")
          /\ ~Applies("claim", k)
          /\ surfaced' = IF ledger[k].outcome = "created" THEN surfaced
                         ELSE surfaced \cup {k}
          /\ owed' = [owed EXCEPT ![p] = @ \ {i}]
  /\ UNCHANGED <<pc, pos, pin, left, held, answer, deferred, storeVars, pmVars,
                 version, aborts, revisions>>

(* Modes approval_required and dry_run: move the row, mint nothing.        *)
ParkAs(p, mode, verb) ==
  /\ \E i \in owed[p] :
       LET k == EntryKey(pos[p], i)
       IN /\ Dispatches(p, i, mode)
          /\ Apply(verb, k, NoRef)
          /\ Refused(verb, k)
          /\ owed' = [owed EXCEPT ![p] = @ \ {i}]
  /\ UNCHANGED <<pc, pos, pin, left, held, answer, deferred, eventRows, cursor,
                 pmVars, version, aborts, revisions>>

GateForApproval(p) == ParkAs(p, "approval_required", "mark_awaiting_approval")
CloseDryRun(p) == ParkAs(p, "dry_run", "close_dry_run")

(* A settled claim: the row leaves "claimed" unless it moved out of band.  *)
Settle(p, verb, ref) ==
  /\ Apply(verb, held[p], ref)
  /\ Goto(p, "mint")
  /\ held' = [held EXCEPT ![p] = NoKey]
  /\ answer' = [answer EXCEPT ![p] = Waiting]

Surface(k) == surfaced' = surfaced \cup {k}

(* The entry's templates cannot be rendered for this event.                *)
RenderFails(p) ==
  /\ pc[p] = "claimed"
  /\ Settle(p, "mark_failed", NoRef)
  /\ Surface(held[p])
  /\ UNCHANGED <<pos, pin, left, owed, deferred, eventRows, cursor, pmVars,
                 version, aborts, revisions>>

Answered(p, kind, ref) ==
  /\ answer' = [answer EXCEPT ![p] = [kind |-> kind, ref |-> ref]]
  /\ Goto(p, "answered")
  /\ UNCHANGED <<pos, pin, left, owed, held, deferred, storeVars, worldVars>>

PMCreates(k) == minted' = [minted EXCEPT ![k] = @ + 1]

PMDoes(effect, k) ==
  \/ effect = "minted" /\ PMCreates(k) /\ UNCHANGED late
  \/ effect = "underway" /\ late' = [late EXCEPT ![k] = @ + 1] /\ UNCHANGED minted
  \/ effect = "none" /\ UNCHANGED pmVars

(* The request for the held key, read as one of these kinds of answer.     *)
Submit(p, readings) ==
  /\ pc[p] = "claimed"
  /\ \E x \in Exchanges : \E effect \in PMEffects(x) :
       /\ Read(x) \in readings
       /\ PMDoes(effect, held[p])
       /\ Answered(p, Read(x), IF Read(x) = "created" THEN minted'[held[p]] ELSE NoRef)

SubmitAnswered(p) == Submit(p, {"created", "rejected", "indeterminate"})
SubmitUnavailable(p) == Submit(p, {"unavailable"})

ConfirmCreated(p) ==
  /\ pc[p] = "answered"
  /\ answer[p].kind = "created"
  /\ Settle(p, "confirm_created", answer[p].ref)
  /\ surfaced' = IF Applies("confirm_created", held[p]) THEN surfaced
                 ELSE surfaced \cup {held[p]}
  /\ UNCHANGED <<pos, pin, left, owed, deferred, eventRows, cursor, pmVars,
                 version, aborts, revisions>>

MarkFailed(p) ==
  /\ pc[p] = "answered"
  /\ answer[p].kind = "rejected"
  /\ Settle(p, "mark_failed", NoRef)
  /\ Surface(held[p])
  /\ UNCHANGED <<pos, pin, left, owed, deferred, eventRows, cursor, pmVars,
                 version, aborts, revisions>>

(* Mistake: the claim is given back, and the event acked all the same.      *)
ReleaseClaimQuietly(p) ==
  /\ pc[p] = "answered"
  /\ answer[p].kind = "unavailable"
  /\ Settle(p, "release_claim", NoRef)
  /\ UNCHANGED <<pos, pin, left, owed, deferred, eventRows, cursor, pmVars, worldVars>>

(* The claim is given back and the event must not be acked.                *)
ReleaseClaim(p) ==
  /\ pc[p] = "answered"
  /\ answer[p].kind = "unavailable"
  /\ Settle(p, "release_claim", NoRef)
  /\ deferred' = [deferred EXCEPT ![p] = TRUE]
  /\ UNCHANGED <<pos, pin, left, owed, eventRows, cursor, pmVars, worldVars>>

(* Mistakes: an unread answer taken for "never sent", or for a creation.    *)
HoldClaimGivenBack(p) ==
  /\ pc[p] = "answered"
  /\ answer[p].kind = "indeterminate"
  /\ Settle(p, "release_claim", NoRef)
  /\ Surface(held[p])
  /\ UNCHANGED <<pos, pin, left, owed, deferred, eventRows, cursor, pmVars,
                 version, aborts, revisions>>

HoldClaimAsCreated(p) ==
  /\ pc[p] = "answered"
  /\ answer[p].kind = "indeterminate"
  /\ Settle(p, "confirm_created", 1)
  /\ Surface(held[p])
  /\ UNCHANGED <<pos, pin, left, owed, deferred, eventRows, cursor, pmVars,
                 version, aborts, revisions>>

(* The claim stays on the row for an operator; the pass walks away.        *)
HoldClaim(p) ==
  /\ pc[p] = "answered"
  /\ answer[p].kind = "indeterminate"
  /\ Goto(p, "mint")
  /\ held' = [held EXCEPT ![p] = NoKey]
  /\ answer' = [answer EXCEPT ![p] = Waiting]
  /\ Surface(held[p])
  /\ UNCHANGED <<pos, pin, left, owed, deferred, storeVars, pmVars,
                 version, aborts, revisions>>

(* Mistake: acking though a consequence was deferred.                       *)
BatchSettledAnyway(p) ==
  /\ pc[p] = "mint"
  /\ owed[p] = {}
  /\ Goto(p, "ack")
  /\ UNCHANGED <<pos, pin, left, owed, held, answer, deferred, storeVars, pmVars,
                 worldVars>>

(* The batch is done: ack, unless a consequence was deferred.              *)
BatchSettled(p) ==
  /\ pc[p] = "mint"
  /\ owed[p] = {}
  /\ ~deferred[p]
  /\ Goto(p, "ack")
  /\ UNCHANGED <<pos, pin, left, owed, held, answer, deferred, storeVars, pmVars,
                 worldVars>>

MintingUnavailable(p) ==
  /\ pc[p] = "mint"
  /\ owed[p] = {}
  /\ deferred[p]
  /\ EndPass(p)
  /\ UNCHANGED worldVars

-----------------------------------------------------------------------------
(* The world around the passes.                                            *)

(* PM acts on a request whose sender stopped waiting, or it is lost.       *)
LateRequest(k) ==
  /\ late[k] > 0
  /\ late' = [late EXCEPT ![k] = @ - 1]
  /\ PMCreates(k) \/ UNCHANGED minted
  /\ UNCHANGED <<storeVars, driverVars, worldVars>>

ClaimGoesStale(k) ==
  /\ GoStale(k)
  /\ UNCHANGED <<eventRows, cursor, pmVars, driverVars, worldVars>>

(* A new policy version: the entry's mode changes, or it comes or goes.    *)
Revise(q, mode) ==
  /\ revisions < MaxRevisions
  /\ mode # version[q]
  /\ version' = [version EXCEPT ![q] = mode]
  /\ revisions' = revisions + 1
  /\ UNCHANGED <<storeVars, pmVars, driverVars, surfaced, aborts>>

(* The operator's verbs.  The person who releases a claim has checked that *)
(* PM has no item for it, no request under way and no pass at work on it.  *)
Replay(k) ==
  /\ OperatorActs
  /\ Applies("replay", k)
  /\ Apply("replay", k, NoRef)
  /\ UNCHANGED <<eventRows, cursor, pmVars, driverVars, worldVars>>

VerifiedNeverSent(k) ==
  /\ minted[k] = 0
  /\ late[k] = 0
  /\ \A p \in Passes : held[p] # k

ReleaseStaleClaim(k) ==
  /\ OperatorActs
  /\ VerifiedNeverSent(k)
  /\ Applies("release_stale_claim", k)
  /\ Apply("release_stale_claim", k, NoRef)
  /\ UNCHANGED <<eventRows, cursor, pmVars, driverVars, worldVars>>

-----------------------------------------------------------------------------

PassStep(p) ==
  \/ StartPass(p) \/ PullEvent(p) \/ FinishPass(p) \/ Ack(p)
  \/ Resolve(p) \/ Stall(p) \/ RecordEventLevel(p) \/ MatchEntries(p) \/ RecordEntry(p)
  \/ Claim(p) \/ ClaimRefused(p) \/ GateForApproval(p) \/ CloseDryRun(p)
  \/ RenderFails(p) \/ SubmitAnswered(p) \/ SubmitUnavailable(p)
  \/ ConfirmCreated(p) \/ MarkFailed(p) \/ ReleaseClaim(p) \/ HoldClaim(p)
  \/ BatchSettled(p) \/ MintingUnavailable(p)

Next ==
  \/ \E p \in Passes : PassStep(p) \/ Abort(p)
  \/ \E k \in Keys : LateRequest(k) \/ ClaimGoesStale(k) \/ Replay(k) \/ ReleaseStaleClaim(k)
  \/ \E q \in Policies, mode \in Modes \cup {"absent"} : Revise(q, mode)

Spec == Init /\ [][Next]_vars

(* The driver keeps driving and time passes; governance and PM may be down *)
(* again and again, but not for ever.  Nothing is asked of the operator.   *)
Fairness ==
  /\ \A p \in Passes :
       /\ WF_vars(PassStep(p))
       /\ SF_vars(Resolve(p))
       /\ SF_vars(SubmitAnswered(p))
  /\ \A k \in Keys : WF_vars(ClaimGoesStale(k))

FairSpec == Spec /\ Fairness

-----------------------------------------------------------------------------
(* Properties.                                                             *)

(* Every variable stays in its domain.                                     *)
TypeOK ==
  /\ LedgerTypeOK
  /\ cursor \in 0 .. LastEvent
  /\ version \in Versions
  /\ minted \in [Keys -> Nat]
  /\ late \in [Keys -> Nat]
  /\ surfaced \subseteq Keys
  /\ pc \in [Passes -> {"idle", "first", "next", "handle", "record", "mint",
                        "claimed", "answered", "ack"}]
  /\ pos \in [Passes -> 0 .. LastEvent]
  /\ pin \in [Passes -> Versions \cup {Unresolved}]
  /\ left \in [Passes -> SUBSET Nat]
  /\ owed \in [Passes -> SUBSET Nat]
  /\ held \in [Passes -> Keys \cup {NoKey}]
  /\ answer \in [Passes -> [kind : Readings \cup {"none"}, ref : Nat]]
  /\ deferred \in [Passes -> BOOLEAN]
  /\ aborts \in 0 .. MaxAborts
  /\ revisions \in 0 .. MaxRevisions

(* No dedup key ever gets a second PM item, counting the one a request     *)
(* still on the wire may create: not through a re-delivery, an overlapping *)
(* pass, a crash after the send, a lost answer, or an operator's release.  *)
NoDoubleMint == \A k \in Keys : minted[k] + late[k] <= 1

(* An item PM holds, or may still create, is never behind a row that would *)
(* be minted again, gated, closed or replayed: its row is claimed (in      *)
(* flight or on the reconciliation list) or created.                       *)
ItemsAccountedFor ==
  \A k \in Keys : minted[k] + late[k] > 0 => ledger[k].outcome \in {"claimed", "created"}

(* A created row names an item PM did mint for its key, and no other row   *)
(* names one.                                                              *)
CreatedNamesItem ==
  \A k \in Keys :
    /\ ledger[k].outcome = "created" <=> ledger[k].ref # NoRef
    /\ ledger[k].ref <= minted[k]

(* While a pass is between its claim and its settlement the row says so,   *)
(* and no other pass holds the same key.                                   *)
ClaimIsExclusive ==
  \A p \in Passes :
    held[p] # NoKey =>
      /\ ledger[held[p]].outcome = "claimed"
      /\ \A q \in Passes : held[q] = held[p] => q = p

AckedEvents == (1 .. cursor) \ Malformed

\* The trail of an event that is evaluated: a quarantine row if it is foreign,
\* else an "ignored" row or a policy's; and while no policy was ever revised, a
\* row for every entry that selects it.
Recorded(e) ==
  LET rowed == {i \in 1 .. Len(Entries[e]) : ledger[EntryKey(e, i)] # NoRow}
  IN IF e \in Foreign THEN <<"quarantined", e>> \in eventRows
     ELSE /\ rowed # {} \/ <<"ignored", e>> \in eventRows
          /\ revisions = 0 => \A i \in 1 .. Len(Entries[e]) :
               version[Entry(e, i)] # "absent" => i \in rowed

(* An acked event left its audit trail, whichever pass acked it and        *)
(* however many died on it.                                                *)
AckedEventsAreRecorded == \A e \in AckedEvents : Recorded(e)

(* minting.py: "An acked event is therefore always a fully-minted (or      *)
(* deliberately parked) event; no acked-before-minted path exists."  So no *)
(* entry that selects an acked event has a row that is still merely        *)
(* matched, as long as no policy was revised.                              *)
AckedEventsAreMinted ==
  revisions = 0 => \A e \in AckedEvents \ Foreign : \A i \in 1 .. Len(Entries[e]) :
    version[Entry(e, i)] # "absent" => ledger[EntryKey(e, i)].outcome # "matched"

(* A row that is created or closed as a dry run never changes again.       *)
SettledForever ==
  [][\A k \in Keys : ledger[k].outcome \in {"created", "dry_run"}
                      => ledger'[k] = ledger[k]]_ledger

(* The cursor never rewinds, though a slow pass acks an event that a newer *)
(* pass left behind long ago.                                              *)
CursorNeverRewinds == [][cursor' > cursor]_cursor

(* Poison, outages and crashes stall the stream only for a while: every    *)
(* event is acked in the end.                                              *)
EverythingIsConsumed == <>(cursor = LastEvent)

(* A recorded match is not left lying: it is minted, parked or closed.     *)
MatchedIsCarriedOut ==
  \A k \in Keys : ledger[k].outcome = "matched" ~> ledger[k].outcome # "matched"

(* minting.py: once a claim is stale, "re-delivery reports a failed        *)
(* DELIVERY naming the row".  A claim nobody will settle is surfaced.      *)
StuckClaimSurfaces ==
  \A k \in Keys :
    ledger[k].outcome = "claimed" ~> (ledger[k].outcome # "claimed" \/ k \in surfaced)

(* ledger.py: "a mode revised to `active` drains the queued rows instead   *)
(* of stranding them".  A gated row of a policy that stays active drains.  *)
GatedRowsDrain ==
  \A k \in Keys :
    (ledger[k].outcome = "awaiting_approval" /\ version[ledger[k].policy] = "active")
      ~> (ledger[k].outcome # "awaiting_approval" \/ version[ledger[k].policy] # "active")

(* engine.py: reading back another policy's row "would silently swallow    *)
(* its work as a duplicate of a different policy's - the one forbidden     *)
(* outcome".  Every entry of an acked event has a row of its own policy,   *)
(* unless it was refused as a collision within the event.                  *)
NoPolicySwallowsAnother ==
  \A e \in AckedEvents \ Foreign : \A i \in 1 .. Len(Entries[e]) :
    \/ \E j \in 1 .. i - 1 : EntryKey(e, j) = EntryKey(e, i)
    \/ ledger[EntryKey(e, i)].policy = Entry(e, i)

(* The abstract promise, with PM's items and the rows that name them.      *)
Promise == INSTANCE MintOnce WITH
  items <- minted,
  named <- {k \in Keys : ledger[k].outcome = "created"}

MintsOnce == Promise!Spec

=============================================================================
