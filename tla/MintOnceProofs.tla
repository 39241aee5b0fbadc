--------------------------- MODULE MintOnceProofs ---------------------------
(***************************************************************************)
(* What a step of MintingPipeline may never do, that the pipeline          *)
(* implements MintOnce, and that no event is acked without a trail, for    *)
(* any number of passes, events, keys and policies, crashes and revisions. *)
(***************************************************************************)
EXTENDS MintingPipelineProofs

(* The ledger verbs that mint nothing.                                     *)
QuietVerbs ==
  {"claim", "release_claim", "mark_failed", "mark_awaiting_approval", "close_dry_run",
   "replay", "release_stale_claim"}

(* One row moved by a verb that mints nothing, recorded, or gone stale.    *)
QuietMove(k) ==
  \/ \E verb \in QuietVerbs : Apply(verb, k, NoRef)
  \/ \E q \in Policies : Record(k, q)
  \/ GoStale(k)

(* Every step but a confirmation leaves the ledger or makes a quiet move.  *)
LEMMA LedgerMoves ==
  ASSUME Typed, Next, \A p \in Passes : ~ConfirmCreated(p)
  PROVE  UNCHANGED ledger \/ \E k \in Keys : QuietMove(k)
<1>1. ASSUME NEW p \in Passes, PassStep(p) \/ Abort(p)
      PROVE  UNCHANGED ledger \/ \E k \in Keys : QuietMove(k)
  <2>1. CASE \/ StartPass(p) \/ PullEvent(p) \/ Ack(p) \/ Resolve(p) \/ RecordEventLevel(p)
             \/ MatchEntries(p) \/ ClaimRefused(p) \/ BatchSettled(p) \/ FinishPass(p)
             \/ Stall(p) \/ MintingUnavailable(p) \/ Abort(p) \/ HoldClaim(p)
             \/ SubmitAnswered(p) \/ SubmitUnavailable(p)
    BY <2>1 DEF StartPass, PullEvent, Ack, Resolve, RecordEventLevel, MatchEntries,
                ClaimRefused, BatchSettled, FinishPass, Stall, MintingUnavailable, Abort,
                HoldClaim, SubmitAnswered, SubmitUnavailable, Submit, Answered, EndPass, storeVars
  <2>2. CASE RenderFails(p) \/ MarkFailed(p) \/ ReleaseClaim(p)
    <3>1. held[p] \in Keys
      BY <2>2 DEF RenderFails, MarkFailed, ReleaseClaim, Typed, TypeOK, WorkInHand
    <3>2. QED
      BY <2>2, <3>1 DEF RenderFails, MarkFailed, ReleaseClaim, Settle, QuietMove, QuietVerbs
  <2>3. CASE RecordEntry(p)
    <3>1. PICK i \in left[p] :
            UNCHANGED ledger \/ Record(EntryKey(pos[p], i), Entry(pos[p], i))
      BY <2>3 DEF RecordEntry
    <3>2. QED
      BY <3>1, InHandIsEntry DEF Typed, QuietMove
  <2>4. CASE Claim(p)
    <3>1. PICK i \in owed[p] : Apply("claim", EntryKey(pos[p], i), NoRef)
      BY <2>4 DEF Claim
    <3>2. QED
      BY <3>1, InHandIsEntry DEF Typed, QuietMove, QuietVerbs
  <2>5. CASE GateForApproval(p) \/ CloseDryRun(p)
    <3>1. PICK i \in owed[p], verb \in {"mark_awaiting_approval", "close_dry_run"} :
            Apply(verb, EntryKey(pos[p], i), NoRef)
      BY <2>5 DEF GateForApproval, CloseDryRun, ParkAs
    <3>2. QED
      BY <3>1, InHandIsEntry DEF Typed, QuietMove, QuietVerbs
  <2>6. QED
    BY <1>1, <2>1, <2>2, <2>3, <2>4, <2>5 DEF PassStep
<1>2. ASSUME NEW k \in Keys,
             LateRequest(k) \/ ClaimGoesStale(k) \/ Replay(k) \/ ReleaseStaleClaim(k)
      PROVE  UNCHANGED ledger \/ \E j \in Keys : QuietMove(j)
  BY <1>2 DEF LateRequest, ClaimGoesStale, Replay, ReleaseStaleClaim, QuietMove, QuietVerbs,
              storeVars
<1>3. ASSUME NEW q \in Policies, NEW mode, Revise(q, mode)
      PROVE  UNCHANGED ledger
  BY <1>3 DEF Revise, storeVars
<1>4. QED
  BY <1>1, <1>2, <1>3 DEF Next

(* A quiet move leaves settled rows alone and makes no row created.        *)
LEMMA QuietMoveEffect ==
  ASSUME Typed, NEW k \in Keys, QuietMove(k), NEW j \in Keys
  PROVE  /\ ledger[j].outcome \in {"created", "dry_run"} => ledger'[j] = ledger[j]
         /\ ledger'[j].outcome = "created" => ledger[j].outcome = "created"
<1>1. ASSUME NEW verb \in QuietVerbs, Apply(verb, k, NoRef)
      PROVE  /\ ledger[j].outcome \in {"created", "dry_run"} => ledger'[j] = ledger[j]
             /\ ledger'[j].outcome = "created" => ledger[j].outcome = "created"
  <2>1. /\ Transitions[verb].to # "created"
        /\ Transitions[verb].from \cap {"created", "dry_run"} = {}
    BY DEF QuietVerbs, Transitions
  <2>2. CASE Applies(verb, k)
    BY <1>1, <2>1, <2>2, ApplyEffect DEF Applies, Typed, TypeOK
  <2>3. CASE ~Applies(verb, k)
    BY <1>1, <2>3 DEF Apply
  <2>4. QED
    BY <2>2, <2>3
<1>2. ASSUME NEW q \in Policies, Record(k, q)
      PROVE  /\ ledger[j].outcome \in {"created", "dry_run"} => ledger'[j] = ledger[j]
             /\ ledger'[j].outcome = "created" => ledger[j].outcome = "created"
  BY <1>2 DEF Record, NoRow, Typed, TypeOK, LedgerTypeOK
<1>3. CASE GoStale(k)
  <2>1. ledger[k] \in Rows
    BY DEF Typed, TypeOK, LedgerTypeOK
  <2>2. ledger[k].outcome = "claimed" /\ ledger'[k].outcome = "claimed"
    BY <1>3, <2>1 DEF GoStale, Typed, TypeOK, LedgerTypeOK, Rows
  <2>3. j # k => ledger'[j] = ledger[j]
    BY <1>3 DEF GoStale, Typed, TypeOK, LedgerTypeOK
  <2>4. QED
    BY <2>2, <2>3
<1>4. QED
  BY <1>1, <1>2, <1>3 DEF QuietMove

(* A confirmation makes one claimed row created and touches no other.      *)
LEMMA ConfirmEffect ==
  ASSUME Typed, Safe, NEW p \in Passes, ConfirmCreated(p)
  PROVE  \E k \in Keys : /\ ledger[k].outcome = "claimed" /\ minted[k] = 1
                         /\ ledger'[k].outcome = "created"
                         /\ \A j \in Keys \ {k} : ledger'[j] = ledger[j]
<1>1. PICK k \in Keys : k = held[p] /\ k # NoKey
  BY PipelineAssumption DEF ConfirmCreated, Typed, TypeOK, WorkInHand
<1>2. ledger[k].outcome = "claimed" /\ minted[k] = 1
  BY <1>1 DEF ConfirmCreated, Safe, AnswersAreTrue, ClaimIsExclusive
<1>3. Apply("confirm_created", k, answer[p].ref) /\ Applies("confirm_created", k)
  BY <1>1, <1>2 DEF ConfirmCreated, Settle, Applies, Transitions, Safe, CreatedNamesItem
<1>4. ledger'[k].outcome = "created" /\ \A j \in Keys \ {k} : ledger'[j] = ledger[j]
  BY <1>3, ApplyEffect DEF Typed, TypeOK, Transitions
<1>5. QED
  BY <1>2, <1>4

(* A created row and a row closed as a dry run never change again: not by  *)
(* an overlapping pass, a re-delivery or an operator's verb.               *)
THEOREM SettledRowsNeverMove == Spec => SettledForever
<1>1. Typed /\ Safe /\ [Next]_vars =>
        [\A k \in Keys : ledger[k].outcome \in {"created", "dry_run"}
                          => ledger'[k] = ledger[k]]_ledger
  <2>1. CASE \E p \in Passes : ConfirmCreated(p)
    BY <2>1, ConfirmEffect
  <2>2. CASE Next /\ \A p \in Passes : ~ConfirmCreated(p)
    BY <2>2, LedgerMoves, QuietMoveEffect
  <2>3. CASE UNCHANGED vars
    BY <2>3 DEF vars, storeVars
  <2>4. QED
    BY <2>1, <2>2, <2>3
<1>2. Spec => []Typed
  BY TypeCorrect DEF Typed
<1>3. QED
  BY <1>1, <1>2, SafetyHolds, PTL DEF Spec, SettledForever

(* The acked position only moves forward, whichever pass acks what when.   *)
THEOREM CursorOnlyAdvances == Spec => CursorNeverRewinds
<1>1. Typed /\ [Next]_vars => [cursor' > cursor]_cursor
  <2>1. ASSUME Typed, NEW p \in Passes, PassStep(p) \/ Abort(p)
        PROVE  cursor' > cursor \/ cursor' = cursor
    <3>1. CASE Ack(p)
      BY <2>1, <3>1 DEF Ack
    <3>2. CASE ~Ack(p)
      BY <2>1, <3>2 DEF PassStep, StartPass, PullEvent, Resolve, RecordEventLevel,
           MatchEntries, ClaimRefused, BatchSettled, FinishPass, Stall, MintingUnavailable,
           Abort, HoldClaim, SubmitAnswered, SubmitUnavailable, Submit, Answered, EndPass,
           RecordEntry, Claim, GateForApproval, CloseDryRun, ParkAs, RenderFails,
           ConfirmCreated, MarkFailed, ReleaseClaim, storeVars
    <3>3. QED
      BY <3>1, <3>2
  <2>2. ASSUME Next, \A p \in Passes : ~(PassStep(p) \/ Abort(p))
        PROVE  cursor' = cursor
    BY <2>2 DEF Next, LateRequest, ClaimGoesStale, Replay, ReleaseStaleClaim, Revise, storeVars
  <2>3. UNCHANGED vars => cursor' = cursor
    BY DEF vars, storeVars
  <2>4. QED
    BY <2>1, <2>2, <2>3
<1>2. Spec => []Typed
  BY TypeCorrect DEF Typed
<1>3. QED
  BY <1>1, <1>2, PTL DEF Spec, CursorNeverRewinds

-----------------------------------------------------------------------------
(* The pipeline implements MintOnce: PM's items are its items, and the     *)
(* created rows the ones it has named.                                     *)

(* A step that brings PM no item brings it no item.                        *)
LEMMA ItemsMove ==
  ASSUME Typed, Safe, Next
  PROVE  \/ UNCHANGED minted
         \/ \E k \in Keys : /\ minted[k] = 0 /\ minted' = [minted EXCEPT ![k] = 1]
                            /\ UNCHANGED ledger
<1>1. ASSUME NEW p \in Passes, SubmitAnswered(p)
      PROVE  \/ UNCHANGED minted
             \/ \E k \in Keys : /\ minted[k] = 0 /\ minted' = [minted EXCEPT ![k] = 1]
                                /\ UNCHANGED ledger
  <2>0. pc[p] = "claimed" /\ AnsweredOutcome(p)
    BY <1>1, SubmitOutcomes DEF Typed
  <2>1. held[p] \in Keys /\ minted[held[p]] = 0
    BY <2>0 DEF Typed, TypeOK, WorkInHand, Safe, UnsentIsUnminted
  <2>2. UNCHANGED ledger /\ (PMCreates(held[p]) \/ UNCHANGED minted)
    BY <2>0 DEF AnsweredOutcome, Answered, storeVars, pmVars
  <2>3. QED
    BY <2>1, <2>2 DEF PMCreates
<1>2. ASSUME NEW k \in Keys, LateRequest(k)
      PROVE  \/ UNCHANGED minted
             \/ /\ minted[k] = 0 /\ minted' = [minted EXCEPT ![k] = 1]
                /\ UNCHANGED ledger
  <2>1. minted[k] \in Nat /\ late[k] \in Nat /\ minted[k] + late[k] <= 1 /\ late[k] > 0
    BY <1>2 DEF LateRequest, Typed, TypeOK, Safe, NoDoubleMint
  <2>2. minted[k] = 0
    BY <2>1
  <2>3. UNCHANGED ledger /\ (PMCreates(k) \/ UNCHANGED minted)
    BY <1>2 DEF LateRequest, storeVars
  <2>4. QED
    BY <2>2, <2>3 DEF PMCreates
<1>3. ASSUME NEW p \in Passes, PassStep(p) \/ Abort(p), ~SubmitAnswered(p)
      PROVE  UNCHANGED minted
  <2>1. CASE SubmitUnavailable(p)
    BY <2>1, SubmitOutcomes DEF Typed, UnavailableOutcome, pmVars
  <2>. QED
    BY <1>3, <2>1 DEF PassStep, StartPass, PullEvent, Ack, Resolve, RecordEventLevel,
       MatchEntries, ClaimRefused, BatchSettled, FinishPass, Stall, MintingUnavailable,
       Abort, HoldClaim, EndPass, RecordEntry, Claim,
       GateForApproval, CloseDryRun, ParkAs, RenderFails, ConfirmCreated, MarkFailed,
       ReleaseClaim, pmVars
<1>4. ASSUME NEW k \in Keys, ClaimGoesStale(k) \/ Replay(k) \/ ReleaseStaleClaim(k)
      PROVE  UNCHANGED minted
  BY <1>4 DEF ClaimGoesStale, Replay, ReleaseStaleClaim, pmVars
<1>5. ASSUME NEW q \in Policies, NEW mode, Revise(q, mode)
      PROVE  UNCHANGED minted
  BY <1>5 DEF Revise, pmVars
<1>6. QED
  BY <1>1, <1>2, <1>3, <1>4, <1>5 DEF Next

(* Every behaviour of the pipeline is one of MintOnce: a key's item is     *)
(* minted at most once, and its row names it at most once and only then.   *)
THEOREM PipelineMintsOnce == Spec => MintsOnce
<1>. DEFINE created == {k \in Keys : ledger[k].outcome = "created"}
<1>1. Init => Promise!Init
  BY DEF Init, LedgerInit, NoRow, Promise!Init
<1>2. Typed /\ Safe /\ [Next]_vars => [Promise!Next]_<<minted, created>>
  <2>1. ASSUME Typed, Safe, NEW p \in Passes, ConfirmCreated(p)
        PROVE  Promise!Next
    <3>1. PICK k \in Keys : /\ ledger[k].outcome = "claimed" /\ minted[k] = 1
                            /\ ledger'[k].outcome = "created"
                            /\ \A j \in Keys \ {k} : ledger'[j] = ledger[j]
      BY <2>1, ConfirmEffect
    <3>2. k \notin created /\ created' = created \cup {k}
      BY <3>1
    <3>3. UNCHANGED minted
      BY <2>1 DEF ConfirmCreated, pmVars
    <3>4. QED
      BY <3>1, <3>2, <3>3 DEF Promise!Next, Promise!Name
  <2>2. ASSUME Typed, Safe, Next, \A p \in Passes : ~ConfirmCreated(p)
        PROVE  [Promise!Next]_<<minted, created>>
    <3>1. created' = created
      BY <2>2, LedgerMoves, QuietMoveEffect
    <3>2. UNCHANGED minted \/ \E k \in Keys : minted[k] = 0 /\ minted' = [minted EXCEPT ![k] = 1]
      BY <2>2, ItemsMove
    <3>3. QED
      BY <3>1, <3>2 DEF Promise!Next, Promise!Mint
  <2>3. UNCHANGED vars => UNCHANGED <<minted, created>>
    BY DEF vars, storeVars, pmVars
  <2>4. QED
    BY <2>1, <2>2, <2>3
<1>3. Spec => []Typed
  BY TypeCorrect DEF Typed
<1>4. QED
  BY <1>1, <1>2, <1>3, SafetyHolds, PTL DEF Spec, MintsOnce, Promise!Spec

-----------------------------------------------------------------------------
(* The audit trail.                                                        *)

Settled == {"first", "next", "mint", "claimed", "answered", "ack"}

\* What a pass vouches for: the events it left behind, the one it has settled,
\* and, while it records, the entries it is done with.
PassTrail(p) ==
  /\ \A e \in Events \ Malformed : e < pos[p] => Recorded(e)
  /\ pc[p] \in Settled /\ pos[p] \in Events \ Malformed => Recorded(pos[p])
  /\ pc[p] = "record" =>
       /\ pos[p] \notin Foreign
       /\ Matching(p) # {}
       /\ \A i \in Matching(p) \ left[p] : ledger[EntryKey(pos[p], i)] # NoRow
  /\ revisions = 0 => pin[p] \in {Unresolved, version}
  /\ pc[p] = "record" => pin[p] # Unresolved

Trail == AckedEventsAreRecorded /\ \A p \in Passes : PassTrail(p)

(* A row is never removed.                                                 *)
LEMMA RowsPersist ==
  ASSUME Typed, [Next]_vars, NEW k \in Keys, ledger[k] # NoRow
  PROVE  ledger'[k] # NoRow
<1>1. CASE UNCHANGED ledger
  BY <1>1
<1>2. CASE \E j \in Keys : QuietMove(j)
  <2>1. PICK j \in Keys : QuietMove(j)
    BY <1>2
  <2>2. ASSUME NEW verb \in QuietVerbs, Apply(verb, j, NoRef)
        PROVE  ledger'[k] # NoRow
    <3>1. Transitions[verb].to # "none"
      BY DEF QuietVerbs, Transitions
    <3>. QED  BY <2>2, <3>1 DEF Apply, NoRow, Typed, TypeOK, LedgerTypeOK
  <2>3. ASSUME NEW q \in Policies, Record(j, q)
        PROVE  ledger'[k] # NoRow
    BY <2>3 DEF Record, NoRow, Typed, TypeOK, LedgerTypeOK
  <2>4. ASSUME GoStale(j)
        PROVE  ledger'[k] # NoRow
    BY <2>4 DEF GoStale, NoRow, Typed, TypeOK, LedgerTypeOK, Rows
  <2>. QED  BY <2>1, <2>2, <2>3, <2>4 DEF QuietMove
<1>3. CASE \E p \in Passes : ConfirmCreated(p)
  <2>1. PICK p \in Passes : ConfirmCreated(p)
    BY <1>3
  <2>2. Apply("confirm_created", held[p], answer[p].ref)
    BY <2>1 DEF ConfirmCreated, Settle
  <2>. QED  BY <2>2 DEF Apply, Transitions, NoRow, Typed, TypeOK, LedgerTypeOK
<1>4. CASE Next /\ \A p \in Passes : ~ConfirmCreated(p)
  BY <1>1, <1>2, <1>4, LedgerMoves
<1>. QED  BY <1>1, <1>3, <1>4 DEF vars, storeVars

(* Only evaluation adds event-level rows, and nothing removes one.         *)
LEMMA EventRowsGrow ==
  ASSUME [Next]_vars
  PROVE  eventRows \subseteq eventRows'
<1>1. ASSUME NEW p \in Passes, PassStep(p) \/ Abort(p)
      PROVE  eventRows \subseteq eventRows'
  <2>1. CASE RecordEventLevel(p)
    BY <2>1 DEF RecordEventLevel, RecordEvent
  <2>2. CASE ~RecordEventLevel(p)
    BY <1>1, <2>2 DEF PassStep, StartPass, PullEvent, Resolve, Ack,
         MatchEntries, ClaimRefused, BatchSettled, FinishPass, Stall, MintingUnavailable,
         Abort, HoldClaim, SubmitAnswered, SubmitUnavailable, Submit, Answered, EndPass,
         RecordEntry, Claim, GateForApproval, CloseDryRun, ParkAs, RenderFails,
         ConfirmCreated, MarkFailed, ReleaseClaim, storeVars
  <2>. QED  BY <2>1, <2>2
<1>2. ASSUME Next, \A p \in Passes : ~(PassStep(p) \/ Abort(p))
      PROVE  eventRows' = eventRows
  BY <1>2 DEF Next, LateRequest, ClaimGoesStale, Replay, ReleaseStaleClaim, Revise, storeVars
<1>3. UNCHANGED vars => eventRows' = eventRows
  BY DEF vars, storeVars
<1>. QED  BY <1>1, <1>2, <1>3

(* A policy version is published by a revision only.                       *)
LEMMA VersionIsRevised ==
  ASSUME Typed, [Next]_vars
  PROVE  revisions' = 0 => revisions = 0 /\ version' = version
<1>1. ASSUME NEW p \in Passes, PassStep(p) \/ Abort(p)
      PROVE  revisions' = revisions /\ version' = version
  BY <1>1 DEF PassStep, StartPass, PullEvent, Resolve, Ack, RecordEventLevel,
       MatchEntries, ClaimRefused, BatchSettled, FinishPass, Stall, MintingUnavailable,
       Abort, HoldClaim, SubmitAnswered, SubmitUnavailable, Submit, Answered,
       RecordEntry, Claim, GateForApproval, CloseDryRun, ParkAs, RenderFails,
       ConfirmCreated, MarkFailed, ReleaseClaim, worldVars
<1>2. ASSUME NEW k \in Keys, LateRequest(k) \/ ClaimGoesStale(k) \/ Replay(k) \/ ReleaseStaleClaim(k)
      PROVE  revisions' = revisions /\ version' = version
  BY <1>2 DEF LateRequest, ClaimGoesStale, Replay, ReleaseStaleClaim, worldVars
<1>3. ASSUME NEW q \in Policies, NEW mode, Revise(q, mode)
      PROVE  revisions' # 0
  BY <1>3 DEF Revise, Typed, TypeOK
<1>4. UNCHANGED vars => revisions' = revisions /\ version' = version
  BY DEF vars, worldVars
<1>. QED  BY <1>1, <1>2, <1>3, <1>4 DEF Next

(* What is recorded stays recorded.                                        *)
LEMMA RecordedPersists ==
  ASSUME Typed, [Next]_vars, NEW e \in Events, Recorded(e)
  PROVE  Recorded(e)'
<1>1. \A i \in 1 .. Len(Entries[e]) :
        EntryKey(e, i) \in Keys /\ (ledger[EntryKey(e, i)] # NoRow => ledger'[EntryKey(e, i)] # NoRow)
  BY EntryKeyType, RowsPersist
<1>2. eventRows \subseteq eventRows'
  BY EventRowsGrow
<1>3. revisions' = 0 => revisions = 0 /\ version' = version
  BY VersionIsRevised
<1>. QED  BY <1>1, <1>2, <1>3 DEF Recorded, EntryKey, Entry

(* A pass that a step leaves alone vouches for as much as before.          *)
LEMMA OthersKeepTrail ==
  ASSUME Typed, [Next]_vars, NEW p \in Passes, PassTrail(p),
         pc'[p] = pc[p], pos'[p] = pos[p], pin'[p] = pin[p], left'[p] = left[p]
  PROVE  PassTrail(p)'
<1>1. \A e \in Events : Recorded(e) => Recorded(e)'
  BY RecordedPersists
<1>2. revisions' = 0 => revisions = 0 /\ version' = version
  BY VersionIsRevised
<1>3. pc[p] = "record" => Matching(p)' = Matching(p)
  BY DEF Matching, Entry
<1>4. pc[p] = "record" => \A i \in Matching(p) :
        ledger[EntryKey(pos[p], i)] # NoRow => ledger'[EntryKey(pos[p], i)] # NoRow
  <2>1. SUFFICES ASSUME pc[p] = "record", NEW i \in Matching(p)
                 PROVE  EntryKey(pos[p], i) \in Keys
    BY RowsPersist
  <2>2. pos[p] \in Events /\ i \in 1 .. Len(Entries[pos[p]])
    BY <2>1 DEF Typed, WorkInHand, Matching
  <2>. QED  BY <2>2, EntryKeyType
<1>. QED  BY <1>1, <1>2, <1>3, <1>4 DEF PassTrail, EntryKey

(* A step of a pass touches no other pass.                                 *)
LEMMA OthersUntouched ==
  ASSUME Typed, NEW p \in Passes, PassStep(p) \/ Abort(p), NEW q \in Passes, q # p
  PROVE  pc'[q] = pc[q] /\ pos'[q] = pos[q] /\ pin'[q] = pin[q] /\ left'[q] = left[q]
<1>. USE DEF Typed, TypeOK, Goto
<1>1. CASE FinishPass(p) \/ Stall(p) \/ MintingUnavailable(p) \/ Abort(p)
  BY <1>1 DEF FinishPass, Stall, MintingUnavailable, Abort, EndPass
<1>2. CASE StartPass(p) \/ PullEvent(p) \/ Ack(p) \/ Resolve(p) \/ RecordEventLevel(p) \/ MatchEntries(p)
  BY <1>2 DEF StartPass, PullEvent, Ack, Resolve, RecordEventLevel, MatchEntries
<1>3. CASE RecordEntry(p)
  BY <1>3 DEF RecordEntry
<1>4. CASE Claim(p) \/ ClaimRefused(p) \/ GateForApproval(p) \/ CloseDryRun(p) \/ BatchSettled(p)
  BY <1>4 DEF Claim, ClaimRefused, GateForApproval, CloseDryRun, ParkAs, BatchSettled
<1>5. CASE RenderFails(p) \/ ConfirmCreated(p) \/ MarkFailed(p) \/ ReleaseClaim(p) \/ HoldClaim(p)
  BY <1>5 DEF RenderFails, ConfirmCreated, MarkFailed, ReleaseClaim, HoldClaim, Settle
<1>6. CASE SubmitAnswered(p) \/ SubmitUnavailable(p)
  BY <1>6 DEF SubmitAnswered, SubmitUnavailable, Submit, Answered
<1>. QED  BY <1>1, <1>2, <1>3, <1>4, <1>5, <1>6 DEF PassStep

(* A pass that ends vouches for nothing.                                   *)
LEMMA EndedPassTrail ==
  ASSUME Typed, NEW p \in Passes, EndPass(p)
  PROVE  PassTrail(p)'
<1>1. pc'[p] = "idle" /\ pos'[p] = 0 /\ pin'[p] = Unresolved
  BY DEF EndPass, Goto, Typed, TypeOK
<1>. QED  BY <1>1 DEF PassTrail, Settled, Events

(* Settling what an event is owed leaves its trail as it was.              *)
LEMMA MintingKeepsTrail ==
  ASSUME Typed, Trail, [Next]_vars, NEW p \in Passes,
         pc[p] \in {"mint", "claimed", "answered"},
         pc'[p] \in {"mint", "claimed", "answered", "ack"},
         pos'[p] = pos[p], pin'[p] = pin[p]
  PROVE  PassTrail(p)'
<1>1. \A e \in Events : Recorded(e) => Recorded(e)'
  BY RecordedPersists
<1>2. revisions' = 0 => revisions = 0 /\ version' = version
  BY VersionIsRevised
<1>. QED  BY <1>1, <1>2 DEF Trail, PassTrail, Settled

(* Recording the last entry completes the trail of the event.              *)
LEMMA RecordEntryKeepsTrail ==
  ASSUME Typed, Trail, Next, NEW p \in Passes, RecordEntry(p)
  PROVE  PassTrail(p)'
<1>1. PICK i \in left[p] :
        /\ IsFirst(i, left[p])
        /\ left' = [left EXCEPT ![p] = @ \ {i}]
        /\ Collides(p, i) \/ Record(EntryKey(pos[p], i), Entry(pos[p], i))
        /\ Goto(p, IF left[p] = {i} THEN "mint" ELSE "record")
  BY DEF RecordEntry
<1>2. /\ pc[p] = "record" /\ pos' = pos /\ pin' = pin /\ left'[p] = left[p] \ {i}
      /\ pc'[p] = IF left[p] = {i} THEN "mint" ELSE "record"
      /\ pos[p] \in Events /\ pos[p] \notin Foreign /\ Matching(p) # {}
      /\ Matching(p) \subseteq 1 .. Len(Entries[pos[p]])
  BY <1>1 DEF RecordEntry, Goto, Typed, TypeOK, WorkInHand, Trail, PassTrail, Matching
<1>3. \A j \in Matching(p) \cup {i} : EntryKey(pos[p], j) \in Keys
  BY <1>1, <1>2, EntryKeyType, InHandIsEntry DEF Typed
<1>4. \A j \in Matching(p) \ left[p] : ledger'[EntryKey(pos[p], j)] # NoRow
  BY <1>2, <1>3, RowsPersist DEF Trail, PassTrail
<1>5. ledger'[EntryKey(pos[p], i)] # NoRow
  <2>1. CASE Collides(p, i)
    <3>1. PICK j \in Matching(p) : j < i /\ EntryKey(pos[p], j) = EntryKey(pos[p], i)
      BY <2>1 DEF Collides
    <3>2. j \notin left[p]
      BY <1>1, <1>2, <3>1 DEF IsFirst, Typed, WorkInHand
    <3>. QED  BY <1>4, <3>1, <3>2
  <2>2. CASE Record(EntryKey(pos[p], i), Entry(pos[p], i))
    <3>1. EntryKey(pos[p], i) \in Keys
      BY <1>3
    <3>. QED  BY <2>2, <3>1 DEF Record, NoRow, Typed, TypeOK, LedgerTypeOK
  <2>. QED  BY <1>1, <2>1, <2>2
<1>6. \A j \in Matching(p) \ left'[p] : ledger'[EntryKey(pos[p], j)] # NoRow
  BY <1>2, <1>4, <1>5
<1>7. \A e \in Events : Recorded(e) => Recorded(e)'
  BY RecordedPersists
<1>8. revisions' = revisions /\ version' = version
  BY DEF RecordEntry
<1>9. Matching(p)' = Matching(p)
  BY <1>2 DEF Matching, Entry
<1>10. CASE left[p] = {i}
  <2>1. \A j \in Matching(p) : ledger'[EntryKey(pos[p], j)] # NoRow
    BY <1>2, <1>6, <1>10
  <2>2. revisions = 0 => pin[p] = version
    BY <1>2 DEF Trail, PassTrail
  <2>3. revisions = 0 => \A j \in 1 .. Len(Entries[pos[p]]) :
          version[Entry(pos[p], j)] # "absent" => j \in Matching(p)
    BY <2>2 DEF Matching
  <2>4. Recorded(pos[p])'
    BY <1>2, <1>8, <2>1, <2>3 DEF Recorded, EntryKey, Entry
  <2>. QED  BY <1>2, <1>7, <1>8, <1>10, <2>4 DEF Trail, PassTrail
<1>11. CASE left[p] # {i}
  BY <1>2, <1>6, <1>7, <1>8, <1>9, <1>11 DEF Trail, PassTrail, Settled, EntryKey
<1>. QED  BY <1>10, <1>11

(* The steps of a pass outside minting.                                    *)
LEMMA IntakeKeepsTrail ==
  ASSUME Typed, Trail, Next, NEW p \in Passes,
         \/ StartPass(p) \/ PullEvent(p) \/ Ack(p) \/ Resolve(p)
         \/ RecordEventLevel(p) \/ MatchEntries(p)
  PROVE  PassTrail(p)'
<1>1. \A e \in Events : Recorded(e) => Recorded(e)'
  BY RecordedPersists
<1>2. pos[p] \in Nat /\ cursor \in Nat
  BY LedgerAssumption DEF Typed, TypeOK
<1>3. CASE StartPass(p)
  <2>1. pc'[p] = "first" /\ pos'[p] = cursor /\ pin' = pin /\ UNCHANGED <<revisions, version>>
    BY <1>3 DEF StartPass, Goto, Typed, TypeOK, worldVars
  <2>2. \A e \in Events \ Malformed : e <= cursor => Recorded(e)'
    BY <1>1, <1>2 DEF Trail, AckedEventsAreRecorded, AckedEvents, Events
  <2>. QED  BY <1>2, <2>1, <2>2 DEF Trail, PassTrail, Events
<1>4. CASE PullEvent(p)
  <2>1. /\ pos'[p] = pos[p] + 1 /\ pin' = pin /\ UNCHANGED <<revisions, version>>
        /\ pc'[p] = IF pos[p] + 1 \in Malformed THEN "ack" ELSE "handle"
        /\ pc[p] \in Settled
    BY <1>4 DEF PullEvent, Goto, Typed, TypeOK, worldVars, Settled
  <2>2. \A e \in Events \ Malformed : e < pos[p] + 1 => Recorded(e)'
    BY <1>1, <1>2, <2>1 DEF Trail, PassTrail, Events
  <2>. QED  BY <2>1, <2>2 DEF Trail, PassTrail, Settled
<1>5. CASE Ack(p)
  <2>1. pc[p] = "ack" /\ pc'[p] = "next" /\ UNCHANGED <<pos, pin, revisions, version>>
    BY <1>5 DEF Ack, Goto, Typed, TypeOK, worldVars
  <2>. QED  BY <1>1, <2>1 DEF Trail, PassTrail, Settled
<1>6. CASE Resolve(p)
  <2>1. pc[p] = "handle" /\ pc' = pc /\ pin'[p] = version /\ UNCHANGED <<pos, revisions, version>>
    BY <1>6 DEF Resolve, Typed, TypeOK, worldVars
  <2>. QED  BY <1>1, <2>1 DEF Trail, PassTrail, Settled
<1>7. CASE RecordEventLevel(p)
  <2>1. /\ pin[p] # Unresolved /\ pc'[p] = "ack" /\ UNCHANGED <<pos, pin, revisions, version, ledger>>
        /\ \/ pos[p] \in Foreign /\ <<"quarantined", pos[p]>> \in eventRows'
           \/ pos[p] \notin Foreign /\ Matching(p) = {} /\ <<"ignored", pos[p]>> \in eventRows'
    BY <1>7 DEF RecordEventLevel, RecordEvent, Goto, Typed, TypeOK, worldVars
  <2>2. revisions = 0 => pin[p] = version
    BY <2>1 DEF Trail, PassTrail
  <2>3. pos[p] \in Events => Recorded(pos[p])'
    BY <2>1, <2>2 DEF Recorded, Matching
  <2>. QED  BY <1>1, <2>1, <2>3 DEF Trail, PassTrail
<1>8. CASE MatchEntries(p)
  <2>1. /\ pin[p] # Unresolved /\ pc'[p] = "record" /\ UNCHANGED <<pos, pin, revisions, version>>
        /\ pos[p] \notin Foreign /\ Matching(p) # {} /\ left'[p] = Matching(p)
    BY <1>8 DEF MatchEntries, Goto, Typed, TypeOK, worldVars
  <2>2. Matching(p)' = Matching(p)
    BY <2>1 DEF Matching, Entry
  <2>. QED  BY <1>1, <2>1, <2>2 DEF Trail, PassTrail, Settled
<1>. QED  BY <1>3, <1>4, <1>5, <1>6, <1>7, <1>8

LEMMA PassKeepsTrail ==
  ASSUME Typed, Trail, Next, NEW p \in Passes, PassStep(p) \/ Abort(p)
  PROVE  PassTrail(p)'
<1>1. CASE FinishPass(p) \/ Stall(p) \/ MintingUnavailable(p) \/ Abort(p)
  BY <1>1, EndedPassTrail DEF FinishPass, Stall, MintingUnavailable, Abort
<1>2. CASE \/ StartPass(p) \/ PullEvent(p) \/ Ack(p) \/ Resolve(p)
           \/ RecordEventLevel(p) \/ MatchEntries(p)
  BY <1>2, IntakeKeepsTrail
<1>3. CASE RecordEntry(p)
  BY <1>3, RecordEntryKeepsTrail
<1>4. CASE \/ Claim(p) \/ ClaimRefused(p) \/ GateForApproval(p) \/ CloseDryRun(p) \/ BatchSettled(p)
           \/ RenderFails(p) \/ ConfirmCreated(p) \/ MarkFailed(p) \/ ReleaseClaim(p) \/ HoldClaim(p)
           \/ SubmitAnswered(p) \/ SubmitUnavailable(p)
  <2>1. /\ pc[p] \in {"mint", "claimed", "answered"}
        /\ pc'[p] \in {"mint", "claimed", "answered", "ack"}
        /\ pos' = pos /\ pin' = pin
    <3>. USE DEF Typed, TypeOK, Goto
    <3>1. CASE Claim(p) \/ ClaimRefused(p) \/ GateForApproval(p) \/ CloseDryRun(p) \/ BatchSettled(p)
      BY <3>1 DEF Claim, ClaimRefused, GateForApproval, CloseDryRun, ParkAs, BatchSettled, Dispatches
    <3>2. CASE RenderFails(p) \/ ConfirmCreated(p) \/ MarkFailed(p) \/ ReleaseClaim(p) \/ HoldClaim(p)
      BY <3>2 DEF RenderFails, ConfirmCreated, MarkFailed, ReleaseClaim, HoldClaim, Settle
    <3>3. CASE SubmitAnswered(p) \/ SubmitUnavailable(p)
      BY <3>3 DEF SubmitAnswered, SubmitUnavailable, Submit, Answered
    <3>. QED  BY <1>4, <3>1, <3>2, <3>3
  <2>. QED  BY <2>1, MintingKeepsTrail
<1>. QED  BY <1>1, <1>2, <1>3, <1>4 DEF PassStep

(* The cursor moves past an event only with its trail.                     *)
LEMMA AckedKeepTrail ==
  ASSUME Typed, Trail, Next
  PROVE  AckedEventsAreRecorded'
<1>1. \A e \in Events : Recorded(e) => Recorded(e)'
  BY RecordedPersists
<1>2. cursor \in 0 .. LastEvent /\ LastEvent \in Nat
  BY LedgerAssumption DEF Typed, TypeOK
<1>3. \A e \in Events \ Malformed : e <= cursor => Recorded(e)'
  BY <1>1, <1>2 DEF Trail, AckedEventsAreRecorded, AckedEvents, Events
<1>4. ASSUME NEW p \in Passes, Ack(p)
      PROVE  AckedEventsAreRecorded'
  <2>1. pc[p] = "ack" /\ pos[p] \in 0 .. LastEvent /\ cursor' = IF cursor < pos[p] THEN pos[p] ELSE cursor
    BY <1>4 DEF Ack, Typed, TypeOK
  <2>2. \A e \in Events \ Malformed : e <= pos[p] => Recorded(e)'
    BY <1>1, <2>1 DEF Trail, PassTrail, Settled, Events
  <2>. QED  BY <1>2, <1>3, <2>1, <2>2 DEF AckedEventsAreRecorded, AckedEvents, Events
<1>5. ASSUME cursor' = cursor
      PROVE  AckedEventsAreRecorded'
  BY <1>2, <1>3, <1>5 DEF AckedEventsAreRecorded, AckedEvents, Events
<1>6. ASSUME NEW p \in Passes, PassStep(p) \/ Abort(p), ~Ack(p)
      PROVE  cursor' = cursor
  BY <1>6 DEF PassStep, StartPass, PullEvent, Resolve, RecordEventLevel,
       MatchEntries, ClaimRefused, BatchSettled, FinishPass, Stall, MintingUnavailable,
       Abort, HoldClaim, SubmitAnswered, SubmitUnavailable, Submit, Answered, EndPass,
       RecordEntry, Claim, GateForApproval, CloseDryRun, ParkAs, RenderFails,
       ConfirmCreated, MarkFailed, ReleaseClaim, storeVars
<1>7. ASSUME \A p \in Passes : ~(PassStep(p) \/ Abort(p))
      PROVE  cursor' = cursor
  BY <1>7 DEF Next, LateRequest, ClaimGoesStale, Replay, ReleaseStaleClaim, Revise, storeVars
<1>. QED  BY <1>4, <1>5, <1>6, <1>7

LEMMA NextTrail == Typed /\ Trail /\ [Next]_vars => Trail'
<1>. SUFFICES ASSUME Typed, Trail, [Next]_vars PROVE Trail'
  OBVIOUS
<1>1. CASE UNCHANGED vars
  BY <1>1, OthersKeepTrail
  DEF Trail, AckedEventsAreRecorded, AckedEvents, Recorded, EntryKey, Entry, vars, storeVars,
      driverVars, worldVars
<1>2. CASE Next
  <2>1. ASSUME NEW q \in Passes
        PROVE  PassTrail(q)'
    <3>1. CASE PassStep(q) \/ Abort(q)
      BY <1>2, <3>1, PassKeepsTrail
    <3>2. ASSUME NEW p \in Passes, p # q, PassStep(p) \/ Abort(p)
          PROVE  PassTrail(q)'
      BY <3>2, OthersUntouched, OthersKeepTrail DEF Trail
    <3>3. CASE \A p \in Passes : ~(PassStep(p) \/ Abort(p))
      <4>1. UNCHANGED driverVars
        BY <1>2, <3>3 DEF Next, LateRequest, ClaimGoesStale, Replay, ReleaseStaleClaim, Revise
      <4>. QED  BY <4>1, OthersKeepTrail DEF Trail, driverVars
    <3>. QED  BY <3>1, <3>2, <3>3
  <2>. QED  BY <1>2, <2>1, AckedKeepTrail DEF Trail
<1>. QED  BY <1>1, <1>2

LEMMA InitTrail == Init => Trail
<1>1. Init => AckedEvents = {}
  BY DEF Init, AckedEvents
<1>. QED
  BY <1>1 DEF Init, Trail, AckedEventsAreRecorded, PassTrail, Settled, Events

-----------------------------------------------------------------------------
(* Every acked event that parses left its audit trail, whichever pass      *)
(* acked it, and however many died on it.                                  *)
THEOREM AckedEventsLeaveTrail == Spec => []AckedEventsAreRecorded
<1>1. Spec => []Typed
  BY TypeCorrect DEF Typed
<1>2. Trail => AckedEventsAreRecorded
  BY DEF Trail
<1>. QED  BY <1>1, <1>2, InitTrail, NextTrail, PTL DEF Spec

=============================================================================
