----------------------- MODULE MintingPipelineProofs -----------------------
(***************************************************************************)
(* What MintingPipeline guarantees for any number of passes, events, keys  *)
(* and policies.                                                           *)
(***************************************************************************)
EXTENDS MintingPipeline, TLAPS

(* Any row a transition writes is a row.                                   *)
LEMMA ApplyTypeOK ==
  ASSUME LedgerTypeOK, NEW k \in Keys, NEW ref \in Nat,
         NEW verb \in {"claim", "confirm_created", "release_claim", "mark_failed",
                       "mark_awaiting_approval", "close_dry_run", "replay",
                       "release_stale_claim"},
         Apply(verb, k, ref)
  PROVE  ledger' \in [Keys -> Rows]
<1>1. Transitions[verb].to \in Outcomes
  BY DEF Transitions, Outcomes
<1>2. [outcome |-> Transitions[verb].to, policy |-> ledger[k].policy,
       ref |-> ref, fresh |-> Transitions[verb].to = "claimed"] \in Rows
  BY <1>1 DEF LedgerTypeOK, Rows
<1>3. QED
  BY <1>2 DEF Apply, LedgerTypeOK

(* So is the row an insert-or-nothing leaves.                              *)
LEMMA RecordTypeOK ==
  ASSUME LedgerTypeOK, NEW k \in Keys, NEW q \in Policies, Record(k, q)
  PROVE  ledger' \in [Keys -> Rows]
<1>1. [outcome |-> "matched", policy |-> q, ref |-> NoRef, fresh |-> FALSE] \in Rows
  BY DEF Rows, Outcomes, NoRef
<1>2. QED
  BY <1>1 DEF Record, LedgerTypeOK

(* The entries an event's indices stand for are policies with keys.        *)
LEMMA EntryKeyType ==
  ASSUME NEW e \in Events, NEW i \in 1 .. Len(Entries[e])
  PROVE  Entry(e, i) \in Policies /\ EntryKey(e, i) \in Keys
<1>1. Entries[e] \in Seq(Policies)
  BY PipelineAssumption
<1>2. Entries[e][i] \in Policies
  BY <1>1
<1>3. QED
  BY <1>2, PipelineAssumption DEF Entry, EntryKey

(* Where a pass is tells what it has in hand: entries still to record only *)
(* while recording, consequences only until the batch is settled, and both *)
(* are entries of an event of the stream.                                  *)
WorkInHand ==
  \A p \in Passes :
    /\ pc[p] \in {"handle", "record", "mint", "claimed", "answered", "ack"} => pos[p] \in Events
    /\ left[p] # {} => pc[p] = "record"
    /\ owed[p] # {} => pc[p] \in {"record", "mint", "claimed", "answered"}
    /\ left[p] \cup owed[p] \subseteq 1 .. Len(Entries[pos[p]])
    /\ held[p] # NoKey <=> pc[p] \in {"claimed", "answered"}

(* An entry in hand is an entry of the event in hand.                      *)
LEMMA InHandIsEntry ==
  ASSUME TypeOK, WorkInHand, NEW p \in Passes, NEW i \in left[p] \cup owed[p]
  PROVE  /\ pos[p] \in Events
         /\ Entry(pos[p], i) \in Policies
         /\ EntryKey(pos[p], i) \in Keys
<1>1. pos[p] \in Events /\ i \in 1 .. Len(Entries[pos[p]])
  BY DEF WorkInHand
<1>2. QED
  BY <1>1, EntryKeyType

(* Gating or closing a row keeps the types and the work in hand.           *)
LEMMA ParkKeepsTypes ==
  ASSUME TypeOK, WorkInHand, NEW p \in Passes, NEW mode,
         NEW verb \in {"mark_awaiting_approval", "close_dry_run"}, ParkAs(p, mode, verb)
  PROVE  TypeOK' /\ WorkInHand'
<1>1. PICK i \in owed[p] :
         /\ Apply(verb, EntryKey(pos[p], i), NoRef)
         /\ \/ surfaced' = surfaced
            \/ surfaced' = surfaced \cup {EntryKey(pos[p], i)}
         /\ owed' = [owed EXCEPT ![p] = @ \ {i}]
  BY DEF ParkAs, Refused
<1>2. EntryKey(pos[p], i) \in Keys
  BY <1>1, InHandIsEntry
<1>3. ledger' \in [Keys -> Rows]
  BY <1>1, <1>2, ApplyTypeOK DEF TypeOK, NoRef
<1>4. UNCHANGED <<pc, pos, pin, left, held, answer, deferred, eventRows, cursor,
                  pmVars, version, aborts, revisions>>
  BY DEF ParkAs
<1>5. TypeOK'
  BY <1>1, <1>2, <1>3, <1>4 DEF TypeOK, LedgerTypeOK, pmVars
<1>6. WorkInHand'
  BY <1>1, <1>4 DEF TypeOK, WorkInHand
<1>7. QED
  BY <1>5, <1>6

(* Recording an entry keeps the types and the work in hand.                *)
LEMMA RecordEntryKeepsTypes ==
  ASSUME TypeOK, WorkInHand, NEW p \in Passes, RecordEntry(p)
  PROVE  TypeOK' /\ WorkInHand'
<1>1. PICK i \in left[p] :
         /\ left' = [left EXCEPT ![p] = @ \ {i}]
         /\ \/ surfaced' = surfaced
            \/ surfaced' = surfaced \cup {EntryKey(pos[p], i)}
         /\ \/ UNCHANGED <<ledger, owed>>
            \/ /\ Record(EntryKey(pos[p], i), Entry(pos[p], i))
               /\ \E T \in {owed[p], owed[p] \cup {i}} : owed' = [owed EXCEPT ![p] = T]
         /\ Goto(p, IF left[p] = {i} THEN "mint" ELSE "record")
  BY DEF RecordEntry
<1>2. Entry(pos[p], i) \in Policies /\ EntryKey(pos[p], i) \in Keys
  BY <1>1, InHandIsEntry
<1>3. ledger' \in [Keys -> Rows]
  BY <1>1, <1>2, RecordTypeOK DEF TypeOK, LedgerTypeOK
<1>4. UNCHANGED <<pos, pin, held, answer, deferred, eventRows, cursor, minted, late, version,
                  aborts, revisions>> /\ pc[p] = "record"
  BY DEF RecordEntry, pmVars
<1>5. owed' \in [Passes -> SUBSET Nat]
  BY <1>1 DEF TypeOK
<1>6. TypeOK'
  BY <1>1, <1>2, <1>3, <1>4, <1>5 DEF TypeOK, LedgerTypeOK, Goto
<1>7. WorkInHand'
  BY <1>1, <1>4 DEF TypeOK, WorkInHand, Goto
<1>8. QED
  BY <1>6, <1>7

(* PM minting for a key keeps the count of items a number.                 *)
LEMMA PMCreatesType ==
  ASSUME minted \in [Keys -> Nat], NEW k \in Keys, PMCreates(k)
  PROVE  minted' \in [Keys -> Nat]
  BY DEF PMCreates

(* What an answered submission, and an unanswered one, come to: whatever   *)
(* the exchange, the sink's reading contradicts nothing PM may have done.  *)
AnsweredOutcome(p) ==
  \/ PMCreates(held[p]) /\ Answered(p, "created", minted[held[p]] + 1) /\ UNCHANGED late
  \/ Answered(p, "rejected", NoRef) /\ UNCHANGED pmVars
  \/ /\ Answered(p, "indeterminate", NoRef)
     /\ \/ PMCreates(held[p]) /\ UNCHANGED late
        \/ late' = [late EXCEPT ![held[p]] = @ + 1] /\ UNCHANGED minted

UnavailableOutcome(p) == Answered(p, "unavailable", NoRef) /\ UNCHANGED pmVars

LEMMA ReadingsAreSound ==
  ASSUME NEW x \in Exchanges, NEW effect \in PMEffects(x)
  PROVE  \/ Read(x) = "created" /\ effect = "minted"
         \/ Read(x) \in {"rejected", "unavailable"} /\ effect = "none"
         \/ Read(x) = "indeterminate" /\ effect \in {"minted", "underway"}
<1>1. CASE x.end \in {"unsent", "unbuilt"}
  BY <1>1 DEF Read, PMEffects
<1>2. CASE x.end = "interrupted"
  BY <1>2 DEF Read, PMEffects
<1>3. CASE x.end = "answered"
  <2>1. x.status \in Nat
    BY <1>3, SinkAssumption DEF Exchanges, Ends
  <2>2. CASE x.status \in 200 .. 299
    <3>1. x.status # 404 /\ x.status \notin PermanentStatuses /\ ~(x.status >= 500)
      BY <2>1, <2>2 DEF PermanentStatuses
    <3>. QED  BY <1>3, <2>2, <3>1 DEF Read, PMEffects
  <2>3. CASE x.status = 404
    BY <1>3, <2>3 DEF Read, PMEffects
  <2>4. CASE x.status \in PermanentStatuses
    BY <1>3, <2>4 DEF Read, PMEffects, PermanentStatuses
  <2>5. CASE x.status >= 500
    BY <1>3, <2>1, <2>5 DEF Read, PMEffects, PermanentStatuses
  <2>6. CASE x.status \notin 200 .. 299 /\ x.status # 404 /\ x.status \notin PermanentStatuses /\ ~(x.status >= 500)
    BY <1>3, <2>6 DEF Read, PMEffects
  <2>. QED  BY <2>2, <2>3, <2>4, <2>5, <2>6
<1>. QED  BY <1>1, <1>2, <1>3 DEF Exchanges, Ends

LEMMA SubmitOutcomes ==
  ASSUME TypeOK, WorkInHand, NEW p \in Passes
  PROVE  /\ SubmitAnswered(p) => pc[p] = "claimed" /\ AnsweredOutcome(p)
         /\ SubmitUnavailable(p) => pc[p] = "claimed" /\ UnavailableOutcome(p)
<1>1. ASSUME SubmitAnswered(p)
      PROVE  pc[p] = "claimed" /\ AnsweredOutcome(p)
  <2>1. PICK x \in Exchanges : \E effect \in PMEffects(x) :
          /\ Read(x) \in {"created", "rejected", "indeterminate"}
          /\ PMDoes(effect, held[p])
          /\ Answered(p, Read(x), IF Read(x) = "created" THEN minted'[held[p]] ELSE NoRef)
    BY <1>1 DEF SubmitAnswered, Submit
  <2>. PICK effect \in PMEffects(x) : PMDoes(effect, held[p])
    BY <2>1
  <2>2. pc[p] = "claimed"
    BY <1>1 DEF SubmitAnswered, Submit
  <2>3. held[p] \in Keys
    BY <2>2 DEF TypeOK, WorkInHand
  <2>4. CASE Read(x) = "created" /\ effect = "minted"
    <3>1. PMCreates(held[p]) /\ UNCHANGED late
      BY <2>1, <2>4 DEF PMDoes
    <3>2. minted'[held[p]] = minted[held[p]] + 1
      BY <2>3, <3>1 DEF PMCreates, TypeOK
    <3>. QED  BY <2>1, <2>2, <2>4, <3>1, <3>2 DEF AnsweredOutcome
  <2>5. CASE Read(x) = "rejected" /\ effect = "none"
    BY <2>1, <2>2, <2>5 DEF PMDoes, AnsweredOutcome
  <2>6. CASE Read(x) = "indeterminate" /\ effect \in {"minted", "underway"}
    BY <2>1, <2>2, <2>6 DEF PMDoes, AnsweredOutcome
  <2>. QED  BY <2>1, <2>4, <2>5, <2>6, ReadingsAreSound
<1>2. ASSUME SubmitUnavailable(p)
      PROVE  pc[p] = "claimed" /\ UnavailableOutcome(p)
  <2>1. PICK x \in Exchanges : \E effect \in PMEffects(x) :
          /\ Read(x) = "unavailable"
          /\ PMDoes(effect, held[p])
          /\ Answered(p, Read(x), IF Read(x) = "created" THEN minted'[held[p]] ELSE NoRef)
    BY <1>2 DEF SubmitUnavailable, Submit
  <2>. PICK effect \in PMEffects(x) : PMDoes(effect, held[p])
    BY <2>1
  <2>2. effect = "none"
    BY <2>1, ReadingsAreSound
  <2>. QED  BY <1>2, <2>1, <2>2 DEF SubmitUnavailable, Submit, PMDoes, UnavailableOutcome
<1>. QED  BY <1>1, <1>2

(* An answered submission keeps the types and the work in hand.            *)
LEMMA SubmitKeepsTypes ==
  ASSUME TypeOK, WorkInHand, NEW p \in Passes, SubmitAnswered(p)
  PROVE  TypeOK' /\ WorkInHand'
<1>0. pc[p] = "claimed" /\ AnsweredOutcome(p)
  BY SubmitOutcomes
<1>1. held[p] \in Keys
  BY <1>0 DEF TypeOK, WorkInHand
<1>2. minted' \in [Keys -> Nat]
  <2>1. PMCreates(held[p]) \/ minted' = minted
    BY <1>0 DEF AnsweredOutcome, pmVars
  <2>2. QED
    BY <1>1, <2>1, PMCreatesType DEF TypeOK
<1>3. late' \in [Keys -> Nat]
  <2>1. late' = [late EXCEPT ![held[p]] = @ + 1] \/ late' = late
    BY <1>0 DEF AnsweredOutcome, pmVars
  <2>2. QED
    BY <1>1, <2>1 DEF TypeOK
<1>4. PICK kind \in {"created", "rejected", "indeterminate"}, ref \in Nat :
        Answered(p, kind, ref)
  <2>1. minted[held[p]] + 1 \in Nat
    BY <1>1 DEF TypeOK
  <2>2. QED
    BY <1>0, <2>1 DEF AnsweredOutcome, NoRef
<1>5. TypeOK'
  BY <1>2, <1>3, <1>4 DEF Answered, Readings, TypeOK, LedgerTypeOK, Goto, storeVars, worldVars
<1>6. WorkInHand'
  BY <1>0, <1>4 DEF Answered, TypeOK, WorkInHand, Goto
<1>7. QED
  BY <1>5, <1>6

(* No step of a pass leaves the types or the work in hand.                 *)
LEMMA PassKeepsTypes ==
  ASSUME TypeOK, WorkInHand, NEW p \in Passes, PassStep(p) \/ Abort(p)
  PROVE  TypeOK' /\ WorkInHand'
<1>. USE PipelineAssumption, LedgerAssumption DEF TypeOK, LedgerTypeOK, WorkInHand, Goto,
       storeVars, pmVars, driverVars, worldVars, Waiting, NoRef
<1>1. CASE StartPass(p)
  BY <1>1 DEF StartPass, Events, Unresolved
<1>2. CASE PullEvent(p)
  <2>1. pos' = [pos EXCEPT ![p] = pos[p] + 1] /\ pos[p] + 1 \in Events
    BY <1>2 DEF PullEvent, Events
  <2>. QED  BY <1>2, <2>1 DEF PullEvent, Events, Unresolved
<1>3. CASE FinishPass(p)
  BY <1>3 DEF FinishPass, EndPass
<1>4. CASE Ack(p)
  BY <1>4 DEF Ack, Events, Unresolved
<1>5. CASE Resolve(p)
  BY <1>5 DEF Resolve, Events, Unresolved
<1>6. CASE Stall(p)
  BY <1>6 DEF Stall, EndPass
<1>7. CASE RecordEventLevel(p)
  <2>1. eventRows' \subseteq EventLevelOutcomes \X Events
    BY <1>7 DEF RecordEventLevel, RecordEvent, EventLevelOutcomes, Events
  <2>2. QED
    BY <1>7, <2>1 DEF RecordEventLevel
<1>8. CASE MatchEntries(p)
  <2>1. Matching(p) \in SUBSET Nat /\ Matching(p) \subseteq 1 .. Len(Entries[pos[p]])
    BY DEF Matching
  <2>2. QED
    BY <1>8, <2>1 DEF MatchEntries
<1>9. CASE RecordEntry(p)
  BY <1>9, RecordEntryKeepsTypes
<1>10. CASE Claim(p)
  <2>1. PICK i \in owed[p] : Claim(p)!1!(i)
    BY <1>10 DEF Claim
  <2>2. EntryKey(pos[p], i) \in Keys
    BY <2>1, InHandIsEntry
  <2>3. ledger' \in [Keys -> Rows]
    BY <2>1, <2>2, ApplyTypeOK
  <2>4. pc[p] = "mint"
    BY <2>1 DEF Dispatches
  <2>5. QED
    BY <1>10, <2>1, <2>2, <2>3, <2>4 DEF Claim
<1>11. CASE ClaimRefused(p)
  <2>1. PICK i \in owed[p] : ClaimRefused(p)!1!(i)
    BY <1>11 DEF ClaimRefused
  <2>2. EntryKey(pos[p], i) \in Keys
    BY <2>1, InHandIsEntry
  <2>3. QED
    BY <1>11, <2>1, <2>2 DEF ClaimRefused
<1>12. CASE GateForApproval(p)
  BY <1>12, ParkKeepsTypes DEF GateForApproval
<1>13. CASE CloseDryRun(p)
  BY <1>13, ParkKeepsTypes DEF CloseDryRun
<1>14. CASE RenderFails(p)
  BY <1>14, ApplyTypeOK DEF RenderFails, Settle, Surface
<1>15. CASE SubmitAnswered(p)
  BY <1>15, SubmitKeepsTypes
<1>16. CASE SubmitUnavailable(p)
  <2>1. pc[p] = "claimed" /\ UnavailableOutcome(p)
    BY <1>16, SubmitOutcomes
  <2>. QED  BY <2>1 DEF UnavailableOutcome, Answered, Readings
<1>17. CASE ConfirmCreated(p)
  BY <1>17, ApplyTypeOK DEF ConfirmCreated, Settle
<1>18. CASE MarkFailed(p)
  BY <1>18, ApplyTypeOK DEF MarkFailed, Settle, Surface
<1>19. CASE ReleaseClaim(p)
  BY <1>19, ApplyTypeOK DEF ReleaseClaim, Settle
<1>20. CASE HoldClaim(p)
  BY <1>20 DEF HoldClaim, Surface
<1>21. CASE BatchSettled(p)
  BY <1>21 DEF BatchSettled
<1>22. CASE MintingUnavailable(p)
  BY <1>22 DEF MintingUnavailable, EndPass
<1>23. CASE Abort(p)
  BY <1>23 DEF Abort, EndPass
<1>24. QED
  BY <1>1, <1>2, <1>3, <1>4, <1>5, <1>6, <1>7, <1>8, <1>9, <1>10, <1>11, <1>12, <1>13, <1>14, <1>15, <1>16, <1>17, <1>18, <1>19, <1>20, <1>21, <1>22, <1>23 DEF PassStep

(* Nor does a step of the world around the passes.                         *)
LEMMA WorldKeepsTypes ==
  ASSUME TypeOK, WorkInHand,
         \/ \E k \in Keys : LateRequest(k) \/ ClaimGoesStale(k) \/ Replay(k)
                            \/ ReleaseStaleClaim(k)
         \/ \E q \in Policies, mode \in Modes \cup {"absent"} : Revise(q, mode)
  PROVE  TypeOK' /\ WorkInHand'
<1>. USE DEF TypeOK, LedgerTypeOK, WorkInHand, storeVars, pmVars, driverVars, worldVars, NoRef
<1>1. ASSUME NEW k \in Keys, LateRequest(k) PROVE TypeOK' /\ WorkInHand'
  <2>1. late[k] - 1 \in Nat /\ minted[k] + 1 \in Nat
    BY <1>1 DEF LateRequest
  <2>2. minted' \in [Keys -> Nat] /\ late' \in [Keys -> Nat]
    BY <1>1, <2>1, PMCreatesType DEF LateRequest
  <2>3. QED
    BY <1>1, <2>2 DEF LateRequest
<1>2. ASSUME NEW k \in Keys, ClaimGoesStale(k) PROVE TypeOK' /\ WorkInHand'
  <2>1. [ledger[k] EXCEPT !.fresh = FALSE] \in Rows
    <3>1. ledger[k] \in Rows
      OBVIOUS
    <3>2. QED
      BY <3>1 DEF Rows
  <2>2. QED
    BY <1>2, <2>1 DEF ClaimGoesStale, GoStale
<1>3. ASSUME NEW k \in Keys, Replay(k) \/ ReleaseStaleClaim(k) PROVE TypeOK' /\ WorkInHand'
  BY <1>3, ApplyTypeOK DEF Replay, ReleaseStaleClaim
<1>4. ASSUME NEW q \in Policies, NEW mode \in Modes \cup {"absent"}, Revise(q, mode)
      PROVE  TypeOK' /\ WorkInHand'
  BY <1>4, PipelineAssumption DEF Revise, Versions
<1>5. QED
  BY <1>1, <1>2, <1>3, <1>4

(* Every variable stays in its domain, and a pass only works on entries of *)
(* the event it pulled.                                                    *)
THEOREM TypeCorrect == Spec => [](TypeOK /\ WorkInHand)
<1>1. Init => TypeOK /\ WorkInHand
  BY PipelineAssumption, LedgerAssumption
     DEF Init, LedgerInit, TypeOK, LedgerTypeOK, WorkInHand, NoRow, NoRef, Rows, Outcomes,
         Events, Unresolved, Waiting
<1>2. TypeOK /\ WorkInHand /\ [Next]_vars => TypeOK' /\ WorkInHand'
  <2>1. TypeOK /\ WorkInHand /\ Next => TypeOK' /\ WorkInHand'
    BY PassKeepsTypes, WorldKeepsTypes DEF Next
  <2>2. TypeOK /\ WorkInHand /\ UNCHANGED vars => TypeOK' /\ WorkInHand'
    BY DEF vars, storeVars, pmVars, driverVars, worldVars, TypeOK, LedgerTypeOK, WorkInHand
  <2>3. QED
    BY <2>1, <2>2
<1>3. QED
  BY <1>1, <1>2, PTL DEF Spec

-----------------------------------------------------------------------------
(* The inductive invariant behind the safety properties.  NoDoubleMint is  *)
(* not inductive alone: it needs to know that a pass about to call PM is   *)
(* the only one to hold its key and that PM has seen nothing for it, and   *)
(* that what the pass then believes about PM's answer is true.             *)
UnsentIsUnminted ==
  \A p \in Passes : pc[p] = "claimed" => minted[held[p]] = 0 /\ late[held[p]] = 0

AnswersAreTrue ==
  \A p \in Passes :
    pc[p] = "answered" =>
      /\ answer[p].kind = "created" => answer[p].ref = 1 /\ minted[held[p]] = 1
      /\ answer[p].kind \in {"rejected", "unavailable"} =>
           minted[held[p]] = 0 /\ late[held[p]] = 0

Safe ==
  /\ ClaimIsExclusive
  /\ UnsentIsUnminted
  /\ AnswersAreTrue
  /\ NoDoubleMint
  /\ ItemsAccountedFor
  /\ CreatedNamesItem

Typed == TypeOK /\ WorkInHand

(* What a transition may have done to the ledger.                          *)
LEMMA ApplyEffect ==
  ASSUME LedgerTypeOK, NEW k \in Keys, NEW ref, NEW verb, Apply(verb, k, ref)
  PROVE  /\ \A j \in Keys \ {k} : ledger'[j] = ledger[j]
         /\ IF Applies(verb, k)
            THEN ledger'[k].outcome = Transitions[verb].to /\ ledger'[k].ref = ref
            ELSE ledger' = ledger
  BY DEF Apply, LedgerTypeOK

(* A step that moves no row and no item, and starts or ends no claim.      *)
LEMMA QuietKeepsSafe ==
  ASSUME Typed, Safe, UNCHANGED <<ledger, minted, late, held, answer>>,
         \A p \in Passes : /\ pc'[p] = "claimed" => pc[p] = "claimed"
                           /\ pc'[p] = "answered" => pc[p] = "answered"
  PROVE  Safe'
  BY DEF Safe, ClaimIsExclusive, UnsentIsUnminted, AnswersAreTrue, NoDoubleMint,
         ItemsAccountedFor, CreatedNamesItem

(* A row nobody holds, of a key PM knows nothing of, moves to any state    *)
(* but created.                                                            *)
LEMMA FreeRowMoves ==
  ASSUME Typed, Safe, UNCHANGED <<minted, late, held, answer>>,
         \A p \in Passes : /\ pc'[p] = "claimed" => pc[p] = "claimed"
                           /\ pc'[p] = "answered" => pc[p] = "answered",
         NEW k \in Keys, minted[k] = 0, late[k] = 0, \A p \in Passes : held[p] # k,
         \A j \in Keys \ {k} : ledger'[j] = ledger[j],
         ledger'[k].outcome # "created", ledger'[k].ref = NoRef
  PROVE  Safe'
<1>1. ClaimIsExclusive'
  BY DEF Safe, ClaimIsExclusive, Typed, TypeOK
<1>2. CreatedNamesItem'
  BY DEF Safe, CreatedNamesItem, Typed, TypeOK, NoRef
<1>3. ItemsAccountedFor' /\ NoDoubleMint'
  BY DEF Safe, ItemsAccountedFor, NoDoubleMint
<1>4. UnsentIsUnminted' /\ AnswersAreTrue'
  BY DEF Safe, UnsentIsUnminted, AnswersAreTrue
<1>5. QED
  BY <1>1, <1>2, <1>3, <1>4 DEF Safe

(* A row that is neither claimed nor created is nobody's, and PM has       *)
(* nothing for its key.                                                    *)
LEMMA UnclaimedIsFree ==
  ASSUME Typed, Safe, NEW k \in Keys, ledger[k].outcome \notin {"claimed", "created"}
  PROVE  /\ minted[k] = 0 /\ late[k] = 0
         /\ \A p \in Passes : held[p] # k
<1>1. minted[k] = 0 /\ late[k] = 0
  <2>1. minted[k] \in Nat /\ late[k] \in Nat
    BY DEF Typed, TypeOK
  <2>2. ~(minted[k] + late[k] > 0)
    BY DEF Safe, ItemsAccountedFor
  <2>3. QED
    BY <2>1, <2>2
<1>2. \A p \in Passes : held[p] # k
  BY PipelineAssumption DEF Safe, ClaimIsExclusive
<1>3. QED
  BY <1>1, <1>2

(* A pass that lets go of its key without touching the row.                *)
LEMMA LettingGoKeepsSafe ==
  ASSUME Typed, Safe, UNCHANGED <<ledger, minted, late>>, NEW p \in Passes,
         NEW to \in {"idle", "mint"}, Goto(p, to),
         held' = [held EXCEPT ![p] = NoKey], answer' = [answer EXCEPT ![p] = Waiting]
  PROVE  Safe'
<1>1. \A q \in Passes \ {p} : pc'[q] = pc[q] /\ held'[q] = held[q] /\ answer'[q] = answer[q]
  BY DEF Goto, Typed, TypeOK
<1>2. pc'[p] \notin {"claimed", "answered"} /\ held'[p] = NoKey
  BY DEF Goto, Typed, TypeOK
<1>3. ClaimIsExclusive'
  BY <1>1, <1>2 DEF Safe, ClaimIsExclusive
<1>4. UnsentIsUnminted' /\ AnswersAreTrue'
  BY <1>1, <1>2 DEF Safe, UnsentIsUnminted, AnswersAreTrue
<1>5. QED
  BY <1>3, <1>4 DEF Safe, NoDoubleMint, ItemsAccountedFor, CreatedNamesItem

(* A claim that ends while PM has nothing for the key: any open state.     *)
LEMMA GivingBackKeepsSafe ==
  ASSUME Typed, Safe, NEW p \in Passes, pc[p] \in {"claimed", "answered"},
         NEW verb \in {"mark_failed", "release_claim"}, Settle(p, verb, NoRef),
         UNCHANGED <<minted, late>>, minted[held[p]] = 0, late[held[p]] = 0
  PROVE  Safe'
<1>1. held[p] \in Keys /\ held[p] # NoKey
  BY PipelineAssumption DEF Typed, TypeOK, WorkInHand
<1>2. \A q \in Passes \ {p} : /\ pc'[q] = pc[q] /\ held'[q] = held[q]
                              /\ answer'[q] = answer[q] /\ held[q] # held[p]
  BY <1>1 DEF Settle, Goto, Typed, TypeOK, Safe, ClaimIsExclusive
<1>3. pc'[p] \notin {"claimed", "answered"} /\ held'[p] = NoKey
  BY DEF Settle, Goto, Typed, TypeOK
<1>4. ledger[held[p]].outcome = "claimed"
  BY <1>1 DEF Safe, ClaimIsExclusive
<1>5. /\ \A j \in Keys \ {held[p]} : ledger'[j] = ledger[j]
      /\ ledger'[held[p]].outcome # "created"
      /\ ledger'[held[p]].ref = NoRef
  <2>1. ledger[held[p]].ref = NoRef
    BY <1>1, <1>4 DEF Safe, CreatedNamesItem
  <2>2. Transitions[verb].to # "created"
    BY DEF Transitions
  <2>3. QED
    BY <1>1, <1>4, <2>1, <2>2, ApplyEffect DEF Settle, Typed, TypeOK
<1>6. ClaimIsExclusive'
  BY <1>2, <1>3, <1>5 DEF Safe, ClaimIsExclusive, Typed, TypeOK
<1>7. UnsentIsUnminted' /\ AnswersAreTrue'
  BY <1>2, <1>3 DEF Safe, UnsentIsUnminted, AnswersAreTrue
<1>8. NoDoubleMint' /\ ItemsAccountedFor'
  BY <1>5 DEF Safe, NoDoubleMint, ItemsAccountedFor
<1>9. CreatedNamesItem'
  <2>1. minted[held[p]] \in Nat
    BY <1>1 DEF Typed, TypeOK
  <2>2. QED
    BY <1>5, <2>1 DEF Safe, CreatedNamesItem, NoRef
<1>10. QED
  BY <1>6, <1>7, <1>8, <1>9 DEF Safe

(* Taking a claim: the row was nobody's, and PM has nothing for its key.   *)
LEMMA ClaimKeepsSafe ==
  ASSUME Typed, Safe, NEW p \in Passes, Claim(p)
  PROVE  Safe'
<1>1. PICK k \in Keys :
        /\ Applies("claim", k) /\ Apply("claim", k, NoRef)
        /\ held' = [held EXCEPT ![p] = k]
        /\ Goto(p, "claimed")
  <2>1. PICK i \in owed[p] : Claim(p)!1!(i)
    BY DEF Claim
  <2>2. EntryKey(pos[p], i) \in Keys
    BY <2>1, InHandIsEntry DEF Typed
  <2>3. QED
    BY <2>1, <2>2
<1>2. UNCHANGED <<minted, late, answer>> /\ pc[p] = "mint"
  BY DEF Claim, Dispatches, pmVars
<1>3. ledger[k].outcome \in {"matched", "awaiting_approval"}
  BY <1>1 DEF Applies, Transitions
<1>4. minted[k] = 0 /\ late[k] = 0 /\ \A q \in Passes : held[q] # k
  BY <1>3, UnclaimedIsFree
<1>5. /\ \A j \in Keys \ {k} : ledger'[j] = ledger[j]
      /\ ledger'[k].outcome = "claimed"
      /\ ledger'[k].ref = NoRef
  BY <1>1, ApplyEffect DEF Typed, TypeOK, Transitions
<1>6. \A q \in Passes \ {p} : pc'[q] = pc[q] /\ held'[q] = held[q]
  BY <1>1 DEF Goto, Typed, TypeOK
<1>7. pc'[p] = "claimed" /\ held'[p] = k
  BY <1>1 DEF Goto, Typed, TypeOK
<1>8. ClaimIsExclusive'
  BY <1>4, <1>5, <1>6, <1>7 DEF Safe, ClaimIsExclusive, Typed, TypeOK
<1>9. UnsentIsUnminted' /\ AnswersAreTrue'
  BY <1>2, <1>4, <1>6, <1>7 DEF Safe, UnsentIsUnminted, AnswersAreTrue
<1>10. NoDoubleMint' /\ ItemsAccountedFor'
  BY <1>2, <1>5 DEF Safe, NoDoubleMint, ItemsAccountedFor
<1>11. CreatedNamesItem'
  <2>1. minted[k] \in Nat
    BY DEF Typed, TypeOK
  <2>2. QED
    BY <1>2, <1>5, <2>1 DEF Safe, CreatedNamesItem, NoRef
<1>12. QED
  BY <1>8, <1>9, <1>10, <1>11 DEF Safe

(* Calling PM: the only request for the key there has ever been.           *)
LEMMA SubmitKeepsSafe ==
  ASSUME Typed, Safe, NEW p \in Passes, SubmitAnswered(p) \/ SubmitUnavailable(p)
  PROVE  Safe'
<1>0. pc[p] = "claimed" /\ (AnsweredOutcome(p) \/ UnavailableOutcome(p))
  BY SubmitOutcomes DEF Typed
<1>1. PICK k \in Keys : k = held[p]
  BY <1>0 DEF Typed, TypeOK, WorkInHand
<1>2. pc[p] = "claimed" /\ minted[k] = 0 /\ late[k] = 0 /\ k # NoKey
  BY <1>0, <1>1, PipelineAssumption DEF Safe, UnsentIsUnminted
<1>3. ledger[k].outcome = "claimed" /\ \A q \in Passes \ {p} : held[q] # k
  BY <1>1, <1>2 DEF Safe, ClaimIsExclusive
<1>4. UNCHANGED <<ledger, held>>
  BY <1>0 DEF AnsweredOutcome, UnavailableOutcome, Answered, storeVars
<1>5. PICK kind \in {"created", "rejected", "indeterminate", "unavailable"}, ref \in Nat :
        /\ answer' = [answer EXCEPT ![p] = [kind |-> kind, ref |-> ref]]
        /\ Goto(p, "answered")
        /\ \/ /\ kind \in {"created", "indeterminate"} /\ ref \in {0, 1}
              /\ kind = "created" => ref = 1
              /\ minted' = [minted EXCEPT ![k] = 1] /\ late' = late
           \/ kind \in {"rejected", "unavailable"} /\ minted' = minted /\ late' = late
           \/ kind = "indeterminate" /\ minted' = minted /\ late' = [late EXCEPT ![k] = 1]
  <2>1. minted[k] + 1 = 1 /\ late[k] + 1 = 1
    BY <1>2
  <2>2. CASE UnavailableOutcome(p)
    BY <2>2 DEF UnavailableOutcome, Answered, pmVars, NoRef
  <2>3. CASE AnsweredOutcome(p)
    <3>1. CASE PMCreates(held[p]) /\ Answered(p, "created", minted[held[p]] + 1) /\ UNCHANGED late
      BY <1>1, <2>1, <3>1 DEF Answered, PMCreates
    <3>2. CASE Answered(p, "rejected", NoRef) /\ UNCHANGED pmVars
      BY <3>2 DEF Answered, pmVars, NoRef
    <3>3. CASE Answered(p, "indeterminate", NoRef) /\ PMCreates(held[p]) /\ UNCHANGED late
      BY <1>1, <2>1, <3>3 DEF Answered, PMCreates, NoRef
    <3>4. CASE /\ Answered(p, "indeterminate", NoRef)
               /\ late' = [late EXCEPT ![held[p]] = @ + 1] /\ UNCHANGED minted
      BY <1>1, <2>1, <3>4 DEF Answered, NoRef
    <3>5. QED
      BY <2>3, <3>1, <3>2, <3>3, <3>4 DEF AnsweredOutcome
  <2>4. QED
    BY <1>0, <2>2, <2>3
<1>6. \A j \in Keys \ {k} : minted'[j] = minted[j] /\ late'[j] = late[j]
  BY <1>5 DEF Typed, TypeOK
<1>7. /\ minted'[k] \in {0, 1} /\ late'[k] \in {0, 1}
      /\ minted'[k] = 0 \/ late'[k] = 0
      /\ kind = "created" => ref = 1 /\ minted'[k] = 1
      /\ kind \in {"rejected", "unavailable"} => minted'[k] = 0 /\ late'[k] = 0
  BY <1>2, <1>5 DEF Typed, TypeOK
<1>8. \A q \in Passes \ {p} : pc'[q] = pc[q] /\ answer'[q] = answer[q]
  BY <1>5 DEF Goto, Typed, TypeOK
<1>9. /\ pc'[p] = "answered" /\ answer'[p].kind = kind /\ answer'[p].ref = ref
  BY <1>5 DEF Goto, Typed, TypeOK
<1>10. ClaimIsExclusive'
  BY <1>4 DEF Safe, ClaimIsExclusive
<1>11. UnsentIsUnminted'
  <2>1. SUFFICES ASSUME NEW q \in Passes, pc'[q] = "claimed"
                 PROVE  minted'[held'[q]] = 0 /\ late'[held'[q]] = 0
    BY DEF UnsentIsUnminted
  <2>2. q # p /\ pc[q] = "claimed" /\ held[q] \in Keys \ {k}
    BY <1>3, <1>8, <1>9, <2>1 DEF Typed, TypeOK, WorkInHand
  <2>3. QED
    BY <1>4, <1>6, <2>2 DEF Safe, UnsentIsUnminted
<1>12. AnswersAreTrue'
  <2>1. SUFFICES ASSUME NEW q \in Passes, pc'[q] = "answered"
                 PROVE  /\ answer'[q].kind = "created" =>
                             answer'[q].ref = 1 /\ minted'[held'[q]] = 1
                        /\ answer'[q].kind \in {"rejected", "unavailable"} =>
                             minted'[held'[q]] = 0 /\ late'[held'[q]] = 0
    BY DEF AnswersAreTrue
  <2>2. CASE q = p
    BY <1>1, <1>4, <1>7, <1>9, <2>2
  <2>3. CASE q # p
    <3>1. pc[q] = "answered" /\ answer'[q] = answer[q] /\ held[q] \in Keys \ {k}
      BY <1>3, <1>8, <2>1, <2>3 DEF Typed, TypeOK, WorkInHand
    <3>2. QED
      BY <1>4, <1>6, <3>1 DEF Safe, AnswersAreTrue
  <2>4. QED
    BY <2>2, <2>3
<1>13. NoDoubleMint'
  BY <1>6, <1>7 DEF Safe, NoDoubleMint
<1>14. ItemsAccountedFor'
  BY <1>3, <1>4, <1>6 DEF Safe, ItemsAccountedFor
<1>15. CreatedNamesItem'
  <2>1. ledger[k].ref = NoRef
    BY <1>3 DEF Safe, CreatedNamesItem
  <2>2. ledger[k].ref <= minted'[k]
    BY <1>7, <2>1 DEF NoRef
  <2>3. QED
    BY <1>4, <1>6, <2>2 DEF Safe, CreatedNamesItem
<1>16. QED
  BY <1>10, <1>11, <1>12, <1>13, <1>14, <1>15 DEF Safe

(* Confirming: the row names the one item PM minted for the claim.         *)
LEMMA ConfirmKeepsSafe ==
  ASSUME Typed, Safe, NEW p \in Passes, ConfirmCreated(p)
  PROVE  Safe'
<1>1. PICK k \in Keys : k = held[p]
  BY DEF ConfirmCreated, Typed, TypeOK, WorkInHand
<1>2. minted[k] = 1 /\ answer[p].ref = 1 /\ pc[p] = "answered" /\ k # NoKey
  BY <1>1, PipelineAssumption DEF ConfirmCreated, Safe, AnswersAreTrue
<1>3. ledger[k].outcome = "claimed" /\ \A q \in Passes \ {p} : held[q] # k
  BY <1>1, <1>2 DEF Safe, ClaimIsExclusive
<1>4. /\ \A j \in Keys \ {k} : ledger'[j] = ledger[j]
      /\ ledger'[k].outcome = "created" /\ ledger'[k].ref = 1
  <2>1. Apply("confirm_created", k, 1) /\ Applies("confirm_created", k)
    BY <1>1, <1>2, <1>3
       DEF ConfirmCreated, Settle, Applies, Transitions, Safe, CreatedNamesItem
  <2>2. QED
    BY <2>1, ApplyEffect DEF Typed, TypeOK, Transitions
<1>5. \A q \in Passes \ {p} : pc'[q] = pc[q] /\ held'[q] = held[q] /\ answer'[q] = answer[q]
  BY DEF ConfirmCreated, Settle, Goto, Typed, TypeOK
<1>6. pc'[p] = "mint" /\ held'[p] = NoKey /\ UNCHANGED <<minted, late>>
  BY DEF ConfirmCreated, Settle, Goto, Typed, TypeOK, pmVars
<1>7. ClaimIsExclusive'
  BY <1>3, <1>4, <1>5, <1>6 DEF Safe, ClaimIsExclusive, Typed, TypeOK
<1>8. UnsentIsUnminted' /\ AnswersAreTrue'
  BY <1>5, <1>6 DEF Safe, UnsentIsUnminted, AnswersAreTrue
<1>9. NoDoubleMint' /\ ItemsAccountedFor'
  BY <1>4, <1>6 DEF Safe, NoDoubleMint, ItemsAccountedFor
<1>10. CreatedNamesItem'
  BY <1>2, <1>4, <1>6 DEF Safe, CreatedNamesItem, NoRef
<1>11. QED
  BY <1>7, <1>8, <1>9, <1>10 DEF Safe

(* Recording: an existing row stays, and a new one is nobody's.            *)
LEMMA RecordEntryKeepsSafe ==
  ASSUME Typed, Safe, NEW p \in Passes, RecordEntry(p)
  PROVE  Safe'
<1>1. PICK i \in left[p] :
         /\ UNCHANGED ledger \/ Record(EntryKey(pos[p], i), Entry(pos[p], i))
         /\ Goto(p, IF left[p] = {i} THEN "mint" ELSE "record")
  BY DEF RecordEntry
<1>2. PICK k \in Keys : k = EntryKey(pos[p], i)
  BY <1>1, InHandIsEntry DEF Typed
<1>3. UNCHANGED <<minted, late, held, answer>>
  BY DEF RecordEntry, pmVars
<1>4. \A q \in Passes : /\ pc'[q] = "claimed" => pc[q] = "claimed"
                        /\ pc'[q] = "answered" => pc[q] = "answered"
  BY <1>1 DEF Goto, Typed, TypeOK
<1>5. CASE UNCHANGED ledger
  BY <1>3, <1>4, <1>5, QuietKeepsSafe
<1>6. CASE ledger' # ledger
  <2>1. ledger[k] = NoRow
    BY <1>1, <1>2, <1>6 DEF Record
  <2>2. minted[k] = 0 /\ late[k] = 0 /\ \A q \in Passes : held[q] # k
    BY <2>1, UnclaimedIsFree DEF NoRow
  <2>3. /\ \A j \in Keys \ {k} : ledger'[j] = ledger[j]
        /\ ledger'[k].outcome # "created" /\ ledger'[k].ref = NoRef
    BY <1>1, <1>2, <1>6, <2>1 DEF Record, Typed, TypeOK, LedgerTypeOK
  <2>4. QED
    BY <1>3, <1>4, <2>2, <2>3, FreeRowMoves
<1>7. QED
  BY <1>5, <1>6

(* A verb that leaves a row nobody can hold, to a state that is neither    *)
(* claimed nor created.                                                    *)
LEMMA OpenRowMoves ==
  ASSUME Typed, Safe, UNCHANGED <<minted, late, held, answer>>,
         \A p \in Passes : /\ pc'[p] = "claimed" => pc[p] = "claimed"
                           /\ pc'[p] = "answered" => pc[p] = "answered",
         NEW k \in Keys, NEW verb \in {"mark_awaiting_approval", "close_dry_run", "replay"},
         Apply(verb, k, NoRef)
  PROVE  Safe'
<1>1. CASE Applies(verb, k)
  <2>1. ledger[k].outcome \notin {"claimed", "created"}
    BY <1>1 DEF Applies, Transitions
  <2>2. /\ \A j \in Keys \ {k} : ledger'[j] = ledger[j]
        /\ ledger'[k].outcome # "created" /\ ledger'[k].ref = NoRef
    BY <1>1, ApplyEffect DEF Typed, TypeOK, Transitions
  <2>3. QED
    BY <2>1, <2>2, UnclaimedIsFree, FreeRowMoves
<1>2. CASE ~Applies(verb, k)
  <2>1. UNCHANGED ledger
    BY <1>2 DEF Apply
  <2>2. QED
    BY <2>1, QuietKeepsSafe
<1>3. QED
  BY <1>1, <1>2

(* Gating for approval or closing as a dry run.                            *)
LEMMA ParkKeepsSafe ==
  ASSUME Typed, Safe, NEW p \in Passes, NEW mode,
         NEW verb \in {"mark_awaiting_approval", "close_dry_run"}, ParkAs(p, mode, verb)
  PROVE  Safe'
<1>1. PICK i \in owed[p] : Apply(verb, EntryKey(pos[p], i), NoRef)
  BY DEF ParkAs
<1>2. EntryKey(pos[p], i) \in Keys
  BY <1>1, InHandIsEntry DEF Typed
<1>3. UNCHANGED <<minted, late, held, answer, pc>>
  BY DEF ParkAs, pmVars
<1>4. QED
  BY <1>1, <1>2, <1>3, OpenRowMoves

(* Every step of a pass keeps the invariant.                               *)
LEMMA PassKeepsSafe ==
  ASSUME Typed, Safe, NEW p \in Passes, PassStep(p) \/ Abort(p)
  PROVE  Safe'
<1>1. CASE StartPass(p) \/ PullEvent(p) \/ Ack(p) \/ Resolve(p) \/ RecordEventLevel(p)
           \/ MatchEntries(p) \/ ClaimRefused(p) \/ BatchSettled(p)
  <2>1. UNCHANGED <<ledger, minted, late, held, answer>>
    BY <1>1 DEF StartPass, PullEvent, Ack, Resolve, RecordEventLevel, MatchEntries,
                ClaimRefused, BatchSettled, storeVars, pmVars
  <2>2. \/ UNCHANGED pc
        \/ \E to \in {"first", "ack", "handle", "next", "record"} : Goto(p, to)
    BY <1>1 DEF StartPass, PullEvent, Ack, Resolve, RecordEventLevel, MatchEntries,
                ClaimRefused, BatchSettled
  <2>3. \A q \in Passes : /\ pc'[q] = "claimed" => pc[q] = "claimed"
                          /\ pc'[q] = "answered" => pc[q] = "answered"
    BY <2>2 DEF Goto, Typed, TypeOK
  <2>4. QED
    BY <2>1, <2>3, QuietKeepsSafe
<1>2. CASE FinishPass(p) \/ Stall(p) \/ MintingUnavailable(p) \/ Abort(p)
  <2>1. EndPass(p)
    BY <1>2 DEF FinishPass, Stall, MintingUnavailable, Abort
  <2>2. QED
    BY <2>1, LettingGoKeepsSafe DEF EndPass, storeVars, pmVars
<1>3. CASE HoldClaim(p)
  BY <1>3, LettingGoKeepsSafe DEF HoldClaim, storeVars, pmVars
<1>4. CASE RenderFails(p)
  BY <1>4, GivingBackKeepsSafe DEF RenderFails, pmVars, Safe, UnsentIsUnminted
<1>5. CASE MarkFailed(p)
  BY <1>5, GivingBackKeepsSafe DEF MarkFailed, pmVars, Safe, AnswersAreTrue
<1>6. CASE ReleaseClaim(p)
  BY <1>6, GivingBackKeepsSafe DEF ReleaseClaim, pmVars, Safe, AnswersAreTrue
<1>7. CASE RecordEntry(p)
  BY <1>7, RecordEntryKeepsSafe
<1>8. CASE Claim(p)
  BY <1>8, ClaimKeepsSafe
<1>9. CASE GateForApproval(p) \/ CloseDryRun(p)
  BY <1>9, ParkKeepsSafe DEF GateForApproval, CloseDryRun
<1>10. CASE SubmitAnswered(p) \/ SubmitUnavailable(p)
  BY <1>10, SubmitKeepsSafe
<1>11. CASE ConfirmCreated(p)
  BY <1>11, ConfirmKeepsSafe
<1>12. QED
  BY <1>1, <1>2, <1>3, <1>4, <1>5, <1>6, <1>7, <1>8, <1>9, <1>10, <1>11 DEF PassStep

(* PM acting, late, on the one request that was still on the wire.         *)
LEMMA LateRequestKeepsSafe ==
  ASSUME Typed, Safe, NEW k \in Keys, LateRequest(k)
  PROVE  Safe'
<1>1. minted[k] \in Nat /\ late[k] \in Nat /\ minted[k] + late[k] <= 1 /\ late[k] > 0
  BY DEF LateRequest, Typed, TypeOK, Safe, NoDoubleMint
<1>2. minted[k] = 0 /\ late[k] = 1 /\ ledger[k].outcome \in {"claimed", "created"}
  BY <1>1 DEF Safe, ItemsAccountedFor
<1>3. UNCHANGED <<ledger, pc, held, answer>>
  BY DEF LateRequest, storeVars, driverVars
<1>4. /\ \A j \in Keys \ {k} : minted'[j] = minted[j] /\ late'[j] = late[j]
      /\ late'[k] = 0 /\ minted'[k] \in {0, 1}
  BY <1>2 DEF LateRequest, PMCreates, Typed, TypeOK
<1>5. UnsentIsUnminted' /\ AnswersAreTrue'
  <2>1. \A p \in Passes : pc[p] = "claimed" => held[p] \in Keys \ {k}
    BY <1>2 DEF Safe, UnsentIsUnminted, Typed, TypeOK, WorkInHand
  <2>2. \A p \in Passes :
          pc[p] = "answered" /\ answer[p].kind \in {"created", "rejected", "unavailable"}
            => held[p] \in Keys \ {k}
    BY <1>2 DEF Safe, AnswersAreTrue, Typed, TypeOK, WorkInHand
  <2>3. QED
    BY <1>3, <1>4, <2>1, <2>2 DEF Safe, UnsentIsUnminted, AnswersAreTrue
<1>6. ClaimIsExclusive'
  BY <1>3 DEF Safe, ClaimIsExclusive
<1>7. NoDoubleMint' /\ ItemsAccountedFor'
  BY <1>2, <1>3, <1>4 DEF Safe, NoDoubleMint, ItemsAccountedFor
<1>8. CreatedNamesItem'
  <2>1. ledger[k].ref <= 0 /\ ledger[k].ref \in Nat
    BY <1>2 DEF Safe, CreatedNamesItem, Typed, TypeOK, LedgerTypeOK, Rows
  <2>2. QED
    BY <1>3, <1>4, <2>1 DEF Safe, CreatedNamesItem
<1>9. QED
  BY <1>5, <1>6, <1>7, <1>8 DEF Safe

(* Time passing, an operator, or a new policy version.                     *)
LEMMA WorldKeepsSafe ==
  ASSUME Typed, Safe,
         \/ \E k \in Keys : LateRequest(k) \/ ClaimGoesStale(k) \/ Replay(k)
                            \/ ReleaseStaleClaim(k)
         \/ \E q \in Policies, mode \in Modes \cup {"absent"} : Revise(q, mode)
  PROVE  Safe'
<1>1. ASSUME NEW k \in Keys, LateRequest(k) PROVE Safe'
  BY <1>1, LateRequestKeepsSafe
<1>2. ASSUME NEW k \in Keys, ClaimGoesStale(k) PROVE Safe'
  <2>1. UNCHANGED <<minted, late, pc, held, answer>>
    BY <1>2 DEF ClaimGoesStale, pmVars, driverVars
  <2>2. \A j \in Keys : /\ ledger'[j].outcome = ledger[j].outcome
                        /\ ledger'[j].ref = ledger[j].ref
    <3>1. ledger[k] \in Rows /\ ledger' = [ledger EXCEPT ![k] = [@ EXCEPT !.fresh = FALSE]]
      BY <1>2 DEF ClaimGoesStale, GoStale, Typed, TypeOK, LedgerTypeOK
    <3>2. QED
      BY <3>1 DEF Typed, TypeOK, LedgerTypeOK, Rows
  <2>3. ClaimIsExclusive' /\ CreatedNamesItem' /\ ItemsAccountedFor'
    <3>1. \A p \in Passes : held[p] # NoKey => held[p] \in Keys
      BY DEF Typed, TypeOK
    <3>2. ClaimIsExclusive'
      BY <2>1, <2>2, <3>1 DEF Safe, ClaimIsExclusive
    <3>3. CreatedNamesItem'
      BY <2>1, <2>2 DEF Safe, CreatedNamesItem
    <3>4. ItemsAccountedFor'
      BY <2>1, <2>2 DEF Safe, ItemsAccountedFor
    <3>5. QED
      BY <3>2, <3>3, <3>4
  <2>4. UnsentIsUnminted' /\ AnswersAreTrue' /\ NoDoubleMint'
    BY <2>1 DEF Safe, UnsentIsUnminted, AnswersAreTrue, NoDoubleMint
  <2>5. QED
    BY <2>3, <2>4 DEF Safe
<1>3. ASSUME NEW k \in Keys, Replay(k) PROVE Safe'
  BY <1>3, OpenRowMoves DEF Replay, pmVars, driverVars
<1>4. ASSUME NEW k \in Keys, ReleaseStaleClaim(k) PROVE Safe'
  <2>1. minted[k] = 0 /\ late[k] = 0 /\ \A p \in Passes : held[p] # k
    BY <1>4 DEF ReleaseStaleClaim, VerifiedNeverSent
  <2>2. /\ \A j \in Keys \ {k} : ledger'[j] = ledger[j]
        /\ ledger'[k].outcome # "created" /\ ledger'[k].ref = NoRef
    BY <1>4, ApplyEffect DEF ReleaseStaleClaim, Transitions, Typed, TypeOK
  <2>3. QED
    BY <1>4, <2>1, <2>2, FreeRowMoves DEF ReleaseStaleClaim, pmVars, driverVars
<1>5. ASSUME NEW q \in Policies, NEW mode \in Modes \cup {"absent"}, Revise(q, mode)
      PROVE  Safe'
  BY <1>5, QuietKeepsSafe DEF Revise, storeVars, pmVars, driverVars
<1>6. QED
  BY <1>1, <1>2, <1>3, <1>4, <1>5

(* The inductive invariant holds of every behaviour.                       *)
THEOREM SafetyHolds == Spec => []Safe
<1>1. Init => Safe
  BY DEF Init, LedgerInit, NoRow, NoRef, Safe, ClaimIsExclusive, UnsentIsUnminted,
         AnswersAreTrue, NoDoubleMint, ItemsAccountedFor, CreatedNamesItem
<1>2. Typed /\ Safe /\ [Next]_vars => Safe'
  <2>1. Typed /\ Safe /\ Next => Safe'
    BY PassKeepsSafe, WorldKeepsSafe DEF Next
  <2>2. Typed /\ Safe /\ UNCHANGED vars => Safe'
    BY QuietKeepsSafe DEF vars, storeVars, pmVars, driverVars
  <2>3. QED
    BY <2>1, <2>2
<1>3. Spec => []Typed
  BY TypeCorrect DEF Typed
<1>4. QED
  BY <1>1, <1>2, <1>3, PTL DEF Spec

(* No dedup key ever gets a second PM item, counting the one a request on  *)
(* the wire may still create: however many passes overlap and die on it.   *)
THEOREM NeverMintedTwice == Spec => []NoDoubleMint
<1>1. Safe => NoDoubleMint
  BY DEF Safe
<1>2. QED
  BY <1>1, SafetyHolds, PTL

(* An item PM holds or may still create is behind a claimed or created     *)
(* row, never behind one that a pass or an operator would mint again.      *)
THEOREM ItemsStayAccountedFor == Spec => []ItemsAccountedFor
<1>1. Safe => ItemsAccountedFor
  BY DEF Safe
<1>2. QED
  BY <1>1, SafetyHolds, PTL

(* A row is created exactly when it names an item, and PM has that item.   *)
THEOREM CreatedRowsNameItems == Spec => []CreatedNamesItem
<1>1. Safe => CreatedNamesItem
  BY DEF Safe
<1>2. QED
  BY <1>1, SafetyHolds, PTL

(* At most one pass is ever at work on a key, and its row is claimed.      *)
THEOREM ClaimsAreExclusive == Spec => []ClaimIsExclusive
<1>1. Safe => ClaimIsExclusive
  BY DEF Safe
<1>2. QED
  BY <1>1, SafetyHolds, PTL

=============================================================================
