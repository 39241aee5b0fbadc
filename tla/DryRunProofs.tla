---------------------------- MODULE DryRunProofs ----------------------------
(***************************************************************************)
(* What the preview of the first version says of the live passes while no  *)
(* revision is published.  For any number of overlapping passes, crashes,  *)
(* re-deliveries and operator acts: it announces everything minted, and    *)
(* rows follow it.  For one driver: every row it shows meets the fate it   *)
(* announces, and nothing acked is left unminted.                          *)
(***************************************************************************)
EXTENDS DryRun, MintOnceProofs, NumberFacts

(* Of the consequences that share a key, one comes first.                  *)
LEMMA FirstExists ==
  ASSUME NEW S, \A c \in S : c.at \in Nat /\ c.nth \in Nat,
         \A c, d \in S : c.at = d.at /\ c.nth = d.nth => c = d,
         NEW c \in S
  PROVE  \E f \in FirstOf(S) : f.key = c.key
<1>. DEFINE Same == {d \in S : d.key = c.key}
            Ats == {d.at : d \in Same}
<1>1. PICK a \in Ats : \A b \in Ats : a <= b
  <2>1. Ats \subseteq Nat /\ Ats # {}
    OBVIOUS
  <2>. HIDE DEF Ats
  <2>. QED  BY <2>1, LeastNumber
<1>. DEFINE Nths == {d.nth : d \in {x \in Same : x.at = a}}
<1>2. PICK n \in Nths : \A m \in Nths : n <= m
  <2>1. Nths \subseteq Nat /\ Nths # {}
    BY <1>1
  <2>. HIDE DEF Nths
  <2>. QED  BY <2>1, LeastNumber
<1>3. PICK f \in Same : f.at = a /\ f.nth = n
  BY <1>2
<1>4. ASSUME NEW d \in S, d.key = f.key, d # f
      PROVE  Before(f, d)
  <2>1. d \in Same
    BY <1>3, <1>4
  <2>2. f.at <= d.at
    BY <1>1, <1>3, <2>1
  <2>3. d.at = f.at => f.nth <= d.nth
    BY <1>2, <1>3, <2>1
  <2>4. ~ (d.at = f.at /\ d.nth = f.nth)
    BY <1>3, <1>4
  <2>. QED  BY <1>3, <2>2, <2>3, <2>4 DEF Before
<1>. QED  BY <1>3, <1>4 DEF FirstOf

-----------------------------------------------------------------------------
\* A delivery of an active policy announces the key.
Announced(k) ==
  \E e \in Evaluated : \E i \in Delivered(InitialModes, e) :
    EntryKey(e, i) = k /\ InitialModes[Entry(e, i)] = "active"

(* What is announced is in the report and, by its first mention, in the    *)
(* headline.                                                               *)
LEMMA AnnouncedIsPreviewed ==
  ASSUME NEW k, Announced(k)
  PROVE  /\ \E c \in WouldMint(InitialModes) : c.key = k
         /\ \E c \in PreviewOf(InitialModes) : c.key = k /\ c.mode = "active"
<1>0. PICK e \in Evaluated : \E i \in Delivered(InitialModes, e) :
        EntryKey(e, i) = k /\ InitialModes[Entry(e, i)] = "active"
  BY DEF Announced
<1>1. PICK i \in Delivered(InitialModes, e) :
        EntryKey(e, i) = k /\ InitialModes[Entry(e, i)] = "active"
  BY <1>0
<1>. DEFINE Row(x) == [at |-> x[1], nth |-> x[2], key |-> EntryKey(x[1], x[2]),
                       policy |-> Entry(x[1], x[2]), mode |-> InitialModes[Entry(x[1], x[2])]]
            Pairs == UNION {{<<f, j>> : j \in Delivered(InitialModes, f)} : f \in Evaluated}
<1>2. PreviewOf(InitialModes) = {Row(x) : x \in Pairs}
  BY DEF PreviewOf
<1>3. \A x \in Pairs : x = <<x[1], x[2]>> /\ x[1] \in Nat /\ x[2] \in Nat
  <2>1. SUFFICES ASSUME NEW f \in Evaluated, NEW j \in Delivered(InitialModes, f)
                 PROVE  f \in Nat /\ j \in Nat
    OBVIOUS
  <2>2. f \in Nat
    BY DEF Evaluated, Events
  <2>3. j \in Nat
    BY DEF Delivered
  <2>. QED  BY <2>2, <2>3
<1>4. <<e, i>> \in Pairs
  OBVIOUS
<1>. DEFINE c == Row(<<e, i>>)
            S == {d \in PreviewOf(InitialModes) : Mints(d)}
<1>5. c \in PreviewOf(InitialModes) /\ c.key = k /\ c.mode = "active"
  BY <1>1, <1>2, <1>4
<1>6. c \in S
  BY <1>5 DEF Mints
<1>7. \A d \in S : d.at \in Nat /\ d.nth \in Nat
  BY <1>2, <1>3
<1>8. \A d, f \in S : d.at = f.at /\ d.nth = f.nth => d = f
  <2>1. SUFFICES ASSUME NEW x \in Pairs, NEW y \in Pairs, x[1] = y[1], x[2] = y[2]
                 PROVE  x = y
    BY <1>2
  <2>. QED  BY <1>3, <2>1
<1>9. \E f \in FirstOf(S) : f.key = c.key
  <2>. HIDE DEF S, c
  <2>. QED  BY <1>6, <1>7, <1>8, FirstExists
<1>. QED  BY <1>5, <1>9 DEF WouldMint

-----------------------------------------------------------------------------
(* While the first version stands: what a pass owes or has claimed, and    *)
(* what PM made or may make of it, is announced.                           *)
PassAsPreviewed(p) ==
  /\ pc[p] \in {"handle", "record"} => pos[p] \in Events \ Malformed
  /\ pc[p] = "record" => pos[p] \notin Foreign /\ left[p] \subseteq Matching(p)
  /\ pc[p] = "record" \/ owed[p] # {} => pin[p] = InitialModes
  /\ pin[p] \in {Unresolved, InitialModes}
  /\ owed[p] # {} => pos[p] \in Evaluated
  /\ owed[p] \subseteq Delivered(InitialModes, pos[p])
  /\ held[p] # NoKey => Announced(held[p])

MadeAsPreviewed == \A k \in Keys : minted[k] + late[k] > 0 => Announced(k)

AsPreviewed ==
  revisions = 0 =>
    /\ version = InitialModes
    /\ \A p \in Passes : PassAsPreviewed(p)
    /\ MadeAsPreviewed

LEMMA InitAsPreviewed == Init => AsPreviewed
  BY DEF Init, AsPreviewed, PassAsPreviewed, MadeAsPreviewed

(* The steps of a pass before it owes anything, and the ends of a pass.    *)
LEMMA IntakeAsPreviewed ==
  ASSUME Typed, AsPreviewed, revisions = 0, NEW p \in Passes,
         \/ StartPass(p) \/ PullEvent(p) \/ Ack(p) \/ Resolve(p) \/ RecordEventLevel(p)
         \/ MatchEntries(p) \/ FinishPass(p) \/ Stall(p) \/ MintingUnavailable(p) \/ Abort(p)
  PROVE  PassAsPreviewed(p)'
<1>1. PassAsPreviewed(p) /\ version = InitialModes
  BY DEF AsPreviewed
<1>2. pos[p] \in Nat /\ LastEvent \in Nat
  BY LedgerAssumption DEF Typed, TypeOK
<1>3. CASE FinishPass(p) \/ Stall(p) \/ MintingUnavailable(p) \/ Abort(p)
  <2>1. EndPass(p)
    BY <1>3 DEF FinishPass, Stall, MintingUnavailable, Abort
  <2>2. /\ pc'[p] = "idle" /\ pin'[p] = Unresolved /\ owed'[p] = {} /\ held'[p] = NoKey
    BY <2>1 DEF EndPass, Goto, Typed, TypeOK
  <2>. QED  BY <2>2 DEF PassAsPreviewed
<1>4. CASE StartPass(p) \/ Ack(p)
  <2>1. pc[p] \in {"idle", "ack"} /\ pc'[p] \in {"first", "next"} /\ UNCHANGED <<pin, owed, held>>
    BY <1>4 DEF StartPass, Ack, Goto, Typed, TypeOK
  <2>2. owed[p] = {}
    BY <2>1 DEF Typed, WorkInHand
  <2>. QED  BY <1>1, <2>1, <2>2 DEF PassAsPreviewed
<1>5. CASE PullEvent(p)
  <2>1. /\ pc[p] \in {"first", "next"} /\ UNCHANGED <<pin, owed, held>>
        /\ pos'[p] = pos[p] + 1 /\ pos[p] < LastEvent
        /\ pc'[p] = IF pos[p] + 1 \in Malformed THEN "ack" ELSE "handle"
    BY <1>5 DEF PullEvent, Goto, Typed, TypeOK
  <2>2. owed[p] = {}
    BY <2>1 DEF Typed, WorkInHand
  <2>. QED  BY <1>1, <1>2, <2>1, <2>2 DEF PassAsPreviewed, Events
<1>6. CASE Resolve(p) \/ RecordEventLevel(p)
  <2>1. /\ pc[p] = "handle" /\ pc'[p] \in {"handle", "ack"} /\ UNCHANGED <<pos, owed, held>>
        /\ pin'[p] \in {pin[p], version}
    BY <1>6 DEF Resolve, RecordEventLevel, Goto, Typed, TypeOK
  <2>2. owed[p] = {}
    BY <2>1 DEF Typed, WorkInHand
  <2>. QED  BY <1>1, <2>1, <2>2 DEF PassAsPreviewed
<1>7. CASE MatchEntries(p)
  <2>1. /\ pc[p] = "handle" /\ pc'[p] = "record" /\ UNCHANGED <<pos, pin, owed, held>>
        /\ pos[p] \notin Foreign /\ pin[p] # Unresolved /\ left'[p] = Matching(p)
    BY <1>7 DEF MatchEntries, Goto, Typed, TypeOK
  <2>2. owed[p] = {} /\ Matching(p)' = Matching(p)
    BY <2>1 DEF Typed, WorkInHand, Matching, Entry
  <2>. QED  BY <1>1, <2>1, <2>2 DEF PassAsPreviewed
<1>. QED  BY <1>3, <1>4, <1>5, <1>6, <1>7

(* What evaluation owes is what the preview delivers.                      *)
LEMMA RecordEntryAsPreviewed ==
  ASSUME Typed, AsPreviewed, revisions = 0, NEW p \in Passes, RecordEntry(p)
  PROVE  PassAsPreviewed(p)'
<1>1. PICK i \in left[p] :
        /\ left' = [left EXCEPT ![p] = @ \ {i}]
        /\ \/ Collides(p, i) /\ UNCHANGED owed
           \/ ~Collides(p, i) /\ \E T \in {owed[p], owed[p] \cup {i}} : owed' = [owed EXCEPT ![p] = T]
        /\ Goto(p, IF left[p] = {i} THEN "mint" ELSE "record")
  BY DEF RecordEntry
<1>2. PassAsPreviewed(p) /\ pc[p] = "record" /\ UNCHANGED <<pos, pin, held>>
  BY DEF AsPreviewed, RecordEntry
<1>3. pos[p] \in Evaluated /\ pin[p] = InitialModes /\ i \in Matching(p)
  BY <1>1, <1>2 DEF PassAsPreviewed, Evaluated
<1>4. ~Collides(p, i) => i \in Delivered(InitialModes, pos[p])
  BY <1>3 DEF Collides, Delivered, Matching
<1>5. owed'[p] \subseteq Delivered(InitialModes, pos[p])
  BY <1>1, <1>2, <1>4 DEF PassAsPreviewed, Typed, TypeOK
<1>6. left'[p] \subseteq left[p] /\ pc'[p] \in {"mint", "record"}
  BY <1>1 DEF Goto, Typed, TypeOK
<1>7. Matching(p)' = Matching(p)
  BY <1>2 DEF Matching, Entry
<1>. QED  BY <1>2, <1>3, <1>5, <1>6, <1>7 DEF PassAsPreviewed

(* A claim is made for a delivery of an active policy.                     *)
LEMMA ClaimAsPreviewed ==
  ASSUME Typed, AsPreviewed, revisions = 0, NEW p \in Passes, Claim(p)
  PROVE  PassAsPreviewed(p)'
<1>1. PICK i \in owed[p] :
        /\ pin[p][Entry(pos[p], i)] = "active"
        /\ owed' = [owed EXCEPT ![p] = @ \ {i}]
        /\ held' = [held EXCEPT ![p] = EntryKey(pos[p], i)]
        /\ Goto(p, "claimed")
  BY DEF Claim, Dispatches
<1>2. PassAsPreviewed(p) /\ UNCHANGED <<pos, pin>>
  BY DEF AsPreviewed, Claim
<1>3. Announced(EntryKey(pos[p], i))
  BY <1>1, <1>2 DEF PassAsPreviewed, Announced
<1>4. held'[p] = EntryKey(pos[p], i) /\ pc'[p] = "claimed" /\ owed'[p] \subseteq owed[p]
  BY <1>1 DEF Goto, Typed, TypeOK
<1>. QED  BY <1>2, <1>3, <1>4 DEF PassAsPreviewed, Announced

(* The other steps of minting settle what was owed, and claim nothing.     *)
LEMMA MintingAsPreviewed ==
  ASSUME Typed, AsPreviewed, revisions = 0, NEW p \in Passes,
         \/ ClaimRefused(p) \/ GateForApproval(p) \/ CloseDryRun(p) \/ BatchSettled(p)
         \/ RenderFails(p) \/ ConfirmCreated(p) \/ MarkFailed(p) \/ ReleaseClaim(p)
         \/ HoldClaim(p) \/ SubmitAnswered(p) \/ SubmitUnavailable(p)
  PROVE  PassAsPreviewed(p)'
<1>1. /\ pc[p] \in {"mint", "claimed", "answered"} /\ pc'[p] \in {"mint", "claimed", "answered", "ack"}
      /\ UNCHANGED <<pos, pin>> /\ owed'[p] \subseteq owed[p] /\ held'[p] \in {held[p], NoKey}
  <2>. USE DEF Typed, TypeOK, Goto
  <2>1. CASE ClaimRefused(p) \/ GateForApproval(p) \/ CloseDryRun(p) \/ BatchSettled(p)
    BY <2>1 DEF ClaimRefused, GateForApproval, CloseDryRun, ParkAs, BatchSettled, Dispatches
  <2>2. CASE RenderFails(p) \/ ConfirmCreated(p) \/ MarkFailed(p) \/ ReleaseClaim(p) \/ HoldClaim(p)
    BY <2>2 DEF RenderFails, ConfirmCreated, MarkFailed, ReleaseClaim, HoldClaim, Settle
  <2>3. CASE SubmitAnswered(p) \/ SubmitUnavailable(p)
    BY <2>3 DEF SubmitAnswered, SubmitUnavailable, Submit, Answered
  <2>. QED  BY <2>1, <2>2, <2>3
<1>2. PassAsPreviewed(p)
  BY DEF AsPreviewed
<1>. QED  BY <1>1, <1>2 DEF PassAsPreviewed, Announced

(* PM makes only what a pass asks for, at once or late.                    *)
LEMMA MadeIsAnnounced ==
  ASSUME Typed, AsPreviewed, Next, revisions = 0
  PROVE  MadeAsPreviewed'
<1>1. MadeAsPreviewed /\ \A p \in Passes : held[p] # NoKey => Announced(held[p])
  BY DEF AsPreviewed, PassAsPreviewed
<1>2. \A k : Announced(k) => Announced(k)'
  BY DEF Announced
<1>3. minted \in [Keys -> Nat] /\ late \in [Keys -> Nat]
  BY DEF Typed, TypeOK
<1>4. ASSUME UNCHANGED pmVars
      PROVE  MadeAsPreviewed'
  BY <1>1, <1>2, <1>4 DEF MadeAsPreviewed, pmVars
<1>5. ASSUME NEW p \in Passes, SubmitAnswered(p) \/ SubmitUnavailable(p)
      PROVE  MadeAsPreviewed'
  <2>1. pc[p] = "claimed" /\ (AnsweredOutcome(p) \/ UnavailableOutcome(p))
    BY <1>5, SubmitOutcomes DEF Typed
  <2>2. Announced(held[p])
    BY <1>1, <2>1 DEF Typed, WorkInHand
  <2>3. \A k \in Keys \ {held[p]} : minted'[k] = minted[k] /\ late'[k] = late[k]
    BY <1>3, <2>1 DEF AnsweredOutcome, UnavailableOutcome, PMCreates, pmVars
  <2>. QED  BY <1>1, <1>2, <2>2, <2>3 DEF MadeAsPreviewed
<1>6. ASSUME NEW k \in Keys, LateRequest(k)
      PROVE  MadeAsPreviewed'
  <2>1. late[k] > 0 /\ minted[k] + late[k] > 0
    BY <1>3, <1>6 DEF LateRequest
  <2>2. \A j \in Keys \ {k} : minted'[j] = minted[j] /\ late'[j] = late[j]
    BY <1>3, <1>6 DEF LateRequest, PMCreates
  <2>. QED  BY <1>1, <1>2, <2>1, <2>2 DEF MadeAsPreviewed
<1>7. ASSUME NEW p \in Passes, PassStep(p) \/ Abort(p), ~SubmitAnswered(p), ~SubmitUnavailable(p)
      PROVE  UNCHANGED pmVars
  BY <1>7 DEF PassStep, StartPass, PullEvent, Resolve, Ack, RecordEventLevel,
       MatchEntries, ClaimRefused, BatchSettled, FinishPass, Stall, MintingUnavailable,
       Abort, HoldClaim, EndPass, RecordEntry, Claim, GateForApproval, CloseDryRun, ParkAs,
       RenderFails, ConfirmCreated, MarkFailed, ReleaseClaim, pmVars
<1>8. ASSUME \/ \E k \in Keys : ClaimGoesStale(k) \/ Replay(k) \/ ReleaseStaleClaim(k)
             \/ \E q \in Policies, mode \in Modes \cup {"absent"} : Revise(q, mode)
      PROVE  UNCHANGED pmVars
  BY <1>8 DEF ClaimGoesStale, Replay, ReleaseStaleClaim, Revise
<1>. QED  BY <1>4, <1>5, <1>6, <1>7, <1>8 DEF Next

(* A pass that a step leaves alone owes and holds what it did.             *)
LEMMA OthersAsPreviewed ==
  ASSUME Typed, NEW p \in Passes, PassStep(p) \/ Abort(p), NEW q \in Passes \ {p},
         PassAsPreviewed(q)
  PROVE  PassAsPreviewed(q)'
<1>1. pc'[q] = pc[q] /\ pos'[q] = pos[q] /\ pin'[q] = pin[q] /\ left'[q] = left[q]
  BY OthersUntouched
<1>2. owed'[q] = owed[q] /\ held'[q] = held[q]
  <2>. USE DEF Typed, TypeOK
  <2>1. CASE FinishPass(p) \/ Stall(p) \/ MintingUnavailable(p) \/ Abort(p)
    BY <2>1 DEF FinishPass, Stall, MintingUnavailable, Abort, EndPass
  <2>2. CASE StartPass(p) \/ PullEvent(p) \/ Ack(p) \/ Resolve(p) \/ RecordEventLevel(p) \/ MatchEntries(p)
    BY <2>2 DEF StartPass, PullEvent, Ack, Resolve, RecordEventLevel, MatchEntries
  <2>3. CASE RecordEntry(p)
    BY <2>3 DEF RecordEntry
  <2>4. CASE Claim(p) \/ ClaimRefused(p) \/ GateForApproval(p) \/ CloseDryRun(p) \/ BatchSettled(p)
    BY <2>4 DEF Claim, ClaimRefused, GateForApproval, CloseDryRun, ParkAs, BatchSettled
  <2>5. CASE RenderFails(p) \/ ConfirmCreated(p) \/ MarkFailed(p) \/ ReleaseClaim(p) \/ HoldClaim(p)
    BY <2>5 DEF RenderFails, ConfirmCreated, MarkFailed, ReleaseClaim, HoldClaim, Settle
  <2>6. CASE SubmitAnswered(p) \/ SubmitUnavailable(p)
    BY <2>6 DEF SubmitAnswered, SubmitUnavailable, Submit, Answered
  <2>. QED  BY <2>1, <2>2, <2>3, <2>4, <2>5, <2>6 DEF PassStep
<1>3. Matching(q)' = Matching(q)
  BY <1>1 DEF Matching, Entry
<1>. QED  BY <1>1, <1>2, <1>3 DEF PassAsPreviewed, Announced

LEMMA NextAsPreviewed == Typed /\ AsPreviewed /\ [Next]_vars => AsPreviewed'
<1>. SUFFICES ASSUME Typed, AsPreviewed, [Next]_vars, revisions' = 0
              PROVE  /\ version' = InitialModes
                     /\ \A p \in Passes : PassAsPreviewed(p)'
                     /\ MadeAsPreviewed'
  BY DEF AsPreviewed
<1>1. revisions = 0 /\ version' = version
  BY VersionIsRevised
<1>2. ASSUME UNCHANGED driverVars, NEW q \in Passes
      PROVE  PassAsPreviewed(q)'
  BY <1>1, <1>2 DEF AsPreviewed, PassAsPreviewed, Announced, Matching, driverVars
<1>3. CASE UNCHANGED vars
  <2>1. UNCHANGED driverVars /\ UNCHANGED <<minted, late>>
    BY <1>3 DEF vars, pmVars
  <2>. QED  BY <1>1, <1>2, <2>1 DEF AsPreviewed, MadeAsPreviewed, Announced
<1>4. CASE Next
  <2>1. ASSUME NEW q \in Passes
        PROVE  PassAsPreviewed(q)'
    <3>1. CASE PassStep(q) \/ Abort(q)
      BY <1>1, <3>1, IntakeAsPreviewed, RecordEntryAsPreviewed, ClaimAsPreviewed,
         MintingAsPreviewed DEF PassStep
    <3>2. ASSUME NEW p \in Passes \ {q}, PassStep(p) \/ Abort(p)
          PROVE  PassAsPreviewed(q)'
      BY <1>1, <3>2, OthersAsPreviewed DEF AsPreviewed
    <3>3. CASE \A p \in Passes : ~(PassStep(p) \/ Abort(p))
      <4>1. UNCHANGED driverVars
        BY <1>4, <3>3 DEF Next, LateRequest, ClaimGoesStale, Replay, ReleaseStaleClaim, Revise
      <4>. QED  BY <1>2, <4>1
    <3>. QED  BY <3>1, <3>2, <3>3
  <2>. QED  BY <1>1, <1>4, <2>1, MadeIsAnnounced DEF AsPreviewed
<1>. QED  BY <1>3, <1>4

-----------------------------------------------------------------------------
(* Nothing is minted that the preview did not announce, as long as the     *)
(* version it previewed is the one in force.                               *)
THEOREM PreviewAnnouncesAll == Spec => []PreviewNeverUnderstates
<1>1. Spec => []Typed
  BY TypeCorrect DEF Typed
<1>2. AsPreviewed => PreviewNeverUnderstates
  BY AnnouncedIsPreviewed DEF AsPreviewed, MadeAsPreviewed, PreviewNeverUnderstates
<1>. QED  BY <1>1, <1>2, InitAsPreviewed, NextAsPreviewed, PTL DEF Spec

-----------------------------------------------------------------------------
(* Which delivery a row belongs to.                                        *)

\* The first delivery of its key in the stream.
First(e, i) ==
  /\ e \in Evaluated /\ i \in Delivered(InitialModes, e)
  /\ \A f \in Evaluated : \A j \in Delivered(InitialModes, f) :
       EntryKey(f, j) = EntryKey(e, i) => e <= f

ModeOf(e, i) == InitialModes[Entry(e, i)]

(* What is delivered is an entry of the event, of a policy with a mode.    *)
LEMMA DeliveredIsEntry ==
  ASSUME NEW e \in Evaluated, NEW i \in Delivered(InitialModes, e)
  PROVE  /\ e \in Events /\ i \in 1 .. Len(Entries[e])
         /\ Entry(e, i) \in Policies /\ EntryKey(e, i) \in Keys
         /\ ModeOf(e, i) \in Modes
<1>1. e \in Events /\ i \in 1 .. Len(Entries[e]) /\ ModeOf(e, i) # "absent"
  BY DEF Evaluated, Delivered, ModeOf
<1>2. Entry(e, i) \in Policies /\ EntryKey(e, i) \in Keys
  BY <1>1, EntryKeyType
<1>. QED  BY <1>1, <1>2, PipelineAssumption DEF Versions, ModeOf

(* The deliveries of one event have different keys.                        *)
LEMMA DeliveredKeysDiffer ==
  ASSUME NEW e \in Evaluated, NEW i \in Delivered(InitialModes, e),
         NEW j \in Delivered(InitialModes, e), EntryKey(e, i) = EntryKey(e, j)
  PROVE  i = j
<1>1. i \in Nat /\ j \in Nat /\ ~(i < j) /\ ~(j < i)
  BY DEF Delivered
<1>. QED  BY <1>1

(* One delivery of a key comes first.                                      *)
LEMMA FirstIsUnique ==
  ASSUME NEW e, NEW i, NEW f, NEW j, First(e, i), First(f, j), EntryKey(e, i) = EntryKey(f, j)
  PROVE  e = f /\ i = j
<1>1. e <= f /\ f <= e /\ e \in Nat /\ f \in Nat
  BY DEF First, Evaluated, Events
<1>2. e = f
  BY <1>1
<1>. QED  BY <1>2, DeliveredKeysDiffer DEF First

(* An entry that selects an event has a delivery of the event with its key. *)
LEMMA SelectedIsDelivered ==
  ASSUME NEW e \in Evaluated, NEW i \in 1 .. Len(Entries[e]),
         InitialModes[Entry(e, i)] # "absent"
  PROVE  \E j \in Delivered(InitialModes, e) : EntryKey(e, j) = EntryKey(e, i)
<1>. DEFINE T == {j \in 1 .. Len(Entries[e]) :
                    InitialModes[Entry(e, j)] # "absent" /\ EntryKey(e, j) = EntryKey(e, i)}
<1>1. T \subseteq Nat /\ i \in T
  OBVIOUS
<1>2. PICK j \in T : \A m \in T : j <= m
  <2>. HIDE DEF T
  <2>. QED  BY <1>1, LeastNumber
<1>3. \A m \in T : ~ (m < j)
  BY <1>1, <1>2
<1>4. j \in Delivered(InitialModes, e)
  BY <1>2, <1>3 DEF Delivered
<1>. QED  BY <1>2, <1>4

(* A key that is delivered is delivered first somewhere.                   *)
LEMMA FirstDelivery ==
  ASSUME NEW e \in Evaluated, NEW i \in Delivered(InitialModes, e)
  PROVE  \E f \in Evaluated : \E j \in Delivered(InitialModes, f) :
           First(f, j) /\ EntryKey(f, j) = EntryKey(e, i) /\ f <= e
<1>. DEFINE T == {f \in Evaluated : \E j \in Delivered(InitialModes, f) :
                    EntryKey(f, j) = EntryKey(e, i)}
<1>1. T \subseteq Nat /\ e \in T
  BY DEF Evaluated, Events
<1>2. PICK f \in T : \A g \in T : f <= g
  <2>. HIDE DEF T
  <2>. QED  BY <1>1, LeastNumber
<1>3. PICK j \in Delivered(InitialModes, f) : EntryKey(f, j) = EntryKey(e, i)
  BY <1>2
<1>4. First(f, j)
  BY <1>2, <1>3 DEF First
<1>. QED  BY <1>1, <1>2, <1>3, <1>4

\* The report of one delivery.
ReportOf(e, i) ==
  [at |-> e, nth |-> i, key |-> EntryKey(e, i), policy |-> Entry(e, i), mode |-> ModeOf(e, i)]

(* The report holds one consequence per delivery.                          *)
LEMMA ReportIsDelivered ==
  ASSUME NEW c
  PROVE  c \in PreviewOf(InitialModes) <=>
           \E e \in Evaluated : \E i \in Delivered(InitialModes, e) : c = ReportOf(e, i)
<1>. DEFINE Pairs == UNION {{<<e, i>> : i \in Delivered(InitialModes, e)} : e \in Evaluated}
<1>1. PreviewOf(InitialModes) = {ReportOf(x[1], x[2]) : x \in Pairs}
  BY DEF PreviewOf, ReportOf, ModeOf
<1>2. ASSUME NEW e \in Evaluated, NEW i \in Delivered(InitialModes, e)
      PROVE  ReportOf(e, i) \in PreviewOf(InitialModes)
  <2>1. <<e, i>> \in Pairs /\ <<e, i>>[1] = e /\ <<e, i>>[2] = i
    OBVIOUS
  <2>. QED  BY <1>1, <2>1
<1>3. ASSUME NEW x \in Pairs
      PROVE  \E e \in Evaluated : \E i \in Delivered(InitialModes, e) :
               ReportOf(x[1], x[2]) = ReportOf(e, i)
  OBVIOUS
<1>. QED  BY <1>1, <1>2, <1>3

(* A row of the preview is the report of a key's first delivery.           *)
LEMMA PreviewRowsAreFirst ==
  ASSUME NEW c
  PROVE  c \in PreviewRows(InitialModes) <=>
           \E e \in Evaluated : \E i \in Delivered(InitialModes, e) :
             First(e, i) /\ c = ReportOf(e, i)
<1>1. ASSUME NEW e \in Evaluated, NEW i \in Delivered(InitialModes, e), First(e, i),
             NEW f \in Evaluated, NEW j \in Delivered(InitialModes, f),
             EntryKey(f, j) = EntryKey(e, i), ReportOf(f, j) # ReportOf(e, i)
      PROVE  Before(ReportOf(e, i), ReportOf(f, j))
  <2>1. e <= f /\ e \in Nat /\ f \in Nat
    BY <1>1 DEF First, Evaluated, Events
  <2>2. e # f
    BY <1>1, DeliveredKeysDiffer
  <2>. QED  BY <2>1, <2>2 DEF Before, ReportOf
<1>2. ASSUME NEW e \in Evaluated, NEW i \in Delivered(InitialModes, e), First(e, i)
      PROVE  ReportOf(e, i) \in PreviewRows(InitialModes)
  <2>1. ReportOf(e, i) \in PreviewOf(InitialModes)
    BY ReportIsDelivered
  <2>2. ASSUME NEW d \in PreviewOf(InitialModes), d.key = ReportOf(e, i).key, d # ReportOf(e, i)
        PROVE  Before(ReportOf(e, i), d)
    <3>1. PICK f \in Evaluated : \E j \in Delivered(InitialModes, f) : d = ReportOf(f, j)
      BY ReportIsDelivered
    <3>2. PICK j \in Delivered(InitialModes, f) : d = ReportOf(f, j)
      BY <3>1
    <3>3. EntryKey(f, j) = EntryKey(e, i)
      BY <2>2, <3>2 DEF ReportOf
    <3>. QED  BY <1>1, <1>2, <2>2, <3>2, <3>3
  <2>. QED  BY <2>1, <2>2 DEF PreviewRows, FirstOf
<1>3. ASSUME c \in PreviewRows(InitialModes)
      PROVE  \E e \in Evaluated : \E i \in Delivered(InitialModes, e) :
               First(e, i) /\ c = ReportOf(e, i)
  <2>1. /\ c \in PreviewOf(InitialModes)
        /\ \A d \in PreviewOf(InitialModes) : d.key = c.key /\ d # c => Before(c, d)
    BY <1>3 DEF PreviewRows, FirstOf
  <2>2. PICK e \in Evaluated : \E i \in Delivered(InitialModes, e) : c = ReportOf(e, i)
    BY <2>1, ReportIsDelivered
  <2>3. PICK i \in Delivered(InitialModes, e) : c = ReportOf(e, i)
    BY <2>2
  <2>4. ASSUME NEW f \in Evaluated, NEW j \in Delivered(InitialModes, f),
               EntryKey(f, j) = EntryKey(e, i)
        PROVE  e <= f
    <3>1. ReportOf(f, j) \in PreviewOf(InitialModes) /\ ReportOf(f, j).key = c.key
      BY <2>3, <2>4, ReportIsDelivered DEF ReportOf
    <3>2. ReportOf(f, j) = c \/ Before(c, ReportOf(f, j))
      BY <2>1, <3>1
    <3>3. e \in Nat /\ f \in Nat
      BY DEF Evaluated, Events
    <3>. QED  BY <2>3, <3>2, <3>3 DEF Before, ReportOf
  <2>5. First(e, i)
    BY <2>4 DEF First
  <2>. QED  BY <2>3, <2>5
<1>. QED  BY <1>2, <1>3

-----------------------------------------------------------------------------
(* What a step may do to one row.                                          *)
Inserted(p, k) ==
  /\ ledger[k] = NoRow
  /\ ledger'[k].outcome = "matched"
  /\ RecordEntry(p)
  /\ \E i \in left[p] : /\ ~Collides(p, i) /\ EntryKey(pos[p], i) = k
                        /\ ledger'[k].policy = Entry(pos[p], i)

ClaimedBy(p, k) ==
  /\ ledger[k].outcome \in ReOwedOutcomes
  /\ ledger'[k].outcome = "claimed"
  /\ Claim(p)
  /\ \E i \in owed[p] : Dispatches(p, i, "active") /\ EntryKey(pos[p], i) = k

ParkedOutcome(mode) == IF mode = "dry_run" THEN "dry_run" ELSE "awaiting_approval"

ParkedBy(p, k) ==
  /\ ledger[k].outcome = "matched"
  /\ \E i \in owed[p] : \E mode \in {"approval_required", "dry_run"} :
       /\ Dispatches(p, i, mode) /\ EntryKey(pos[p], i) = k
       /\ ledger'[k].outcome = ParkedOutcome(mode)

SettledBy(p, k) ==
  /\ held[p] = k /\ pc[p] \in {"claimed", "answered"}
  /\ ledger[k].outcome = "claimed"
  /\ \/ ledger'[k].outcome \in {"created", "failed"}
     \/ ledger'[k].outcome = "matched" /\ ReleaseClaim(p)

Reopened(k) ==
  /\ OperatorActs
  /\ ledger[k].outcome \in {"claimed", "failed"}
  /\ ledger'[k].outcome = "matched"

KeptAs(k) == ledger[k] # NoRow /\ ledger'[k].policy = ledger[k].policy

(* A transition moves the row it names, and keeps its policy.              *)
LEMMA ApplyMoves ==
  ASSUME LedgerTypeOK, NEW j, NEW ref, NEW k \in Keys, ledger'[k] # ledger[k],
         NEW verb \in {"claim", "confirm_created", "release_claim", "mark_failed",
                       "mark_awaiting_approval", "close_dry_run", "replay",
                       "release_stale_claim"},
         Apply(verb, j, ref)
  PROVE  /\ k = j /\ KeptAs(k)
         /\ ledger[k].outcome \in Transitions[verb].from
         /\ ledger'[k].outcome = Transitions[verb].to
<1>1. Applies(verb, j) /\ k = j
  BY DEF Apply, LedgerTypeOK
<1>2. ledger'[k] = [outcome |-> Transitions[verb].to, policy |-> ledger[k].policy,
                    ref |-> ref, fresh |-> Transitions[verb].to = "claimed"]
  BY <1>1 DEF Apply, LedgerTypeOK
<1>3. ledger[k] # NoRow
  BY <1>1 DEF Applies, Transitions, NoRow
<1>. QED  BY <1>1, <1>2, <1>3 DEF Applies, KeptAs

(* Those are all the ways a row changes.                                   *)
LEMMA RowMoves ==
  ASSUME Typed, Next, NEW k \in Keys, ledger'[k] # ledger[k]
  PROVE  \/ \E p \in Passes : Inserted(p, k)
         \/ /\ KeptAs(k)
            /\ \/ \E p \in Passes : ClaimedBy(p, k) \/ ParkedBy(p, k) \/ SettledBy(p, k)
               \/ Reopened(k)
               \/ ledger'[k].outcome = ledger[k].outcome
<1>0. LedgerTypeOK
  BY DEF Typed, TypeOK
<1>1. ASSUME NEW p \in Passes, RecordEntry(p)
      PROVE  Inserted(p, k)
  <2>1. PICK i \in left[p] : ~Collides(p, i) /\ Record(EntryKey(pos[p], i), Entry(pos[p], i))
    BY <1>1 DEF RecordEntry
  <2>2. EntryKey(pos[p], i) = k /\ ledger[k] = NoRow
    BY <1>0, <2>1 DEF Record, LedgerTypeOK
  <2>3. ledger'[k].outcome = "matched" /\ ledger'[k].policy = Entry(pos[p], i)
    BY <1>0, <2>1, <2>2 DEF Record, LedgerTypeOK
  <2>. QED  BY <1>1, <2>1, <2>2, <2>3 DEF Inserted
<1>2. ASSUME NEW p \in Passes, Claim(p)
      PROVE  KeptAs(k) /\ ClaimedBy(p, k)
  <2>1. PICK i \in owed[p] : Dispatches(p, i, "active") /\ Apply("claim", EntryKey(pos[p], i), NoRef)
    BY <1>2 DEF Claim
  <2>2. /\ k = EntryKey(pos[p], i) /\ KeptAs(k)
        /\ ledger[k].outcome \in Transitions["claim"].from
        /\ ledger'[k].outcome = Transitions["claim"].to
    BY <1>0, <2>1, ApplyMoves
  <2>. QED  BY <1>2, <2>1, <2>2 DEF ClaimedBy, Transitions, ReOwedOutcomes
<1>3. ASSUME NEW p \in Passes, GateForApproval(p) \/ CloseDryRun(p)
      PROVE  KeptAs(k) /\ ParkedBy(p, k)
  <2>1. ASSUME NEW mode \in {"approval_required", "dry_run"},
               NEW verb \in {"mark_awaiting_approval", "close_dry_run"},
               ParkAs(p, mode, verb), Transitions[verb].to = ParkedOutcome(mode)
        PROVE  KeptAs(k) /\ ParkedBy(p, k)
    <3>1. PICK i \in owed[p] : Dispatches(p, i, mode) /\ Apply(verb, EntryKey(pos[p], i), NoRef)
      BY <2>1 DEF ParkAs
    <3>2. /\ k = EntryKey(pos[p], i) /\ KeptAs(k)
          /\ ledger[k].outcome \in Transitions[verb].from
          /\ ledger'[k].outcome = Transitions[verb].to
      BY <1>0, <3>1, ApplyMoves
    <3>3. Transitions[verb].from = {"matched"}
      BY DEF Transitions
    <3>. QED  BY <2>1, <3>1, <3>2, <3>3 DEF ParkedBy
  <2>2. /\ Transitions["mark_awaiting_approval"].to = ParkedOutcome("approval_required")
        /\ Transitions["close_dry_run"].to = ParkedOutcome("dry_run")
    BY DEF Transitions, ParkedOutcome
  <2>. QED  BY <1>3, <2>1, <2>2 DEF GateForApproval, CloseDryRun
<1>4. ASSUME NEW p \in Passes,
             RenderFails(p) \/ ConfirmCreated(p) \/ MarkFailed(p) \/ ReleaseClaim(p)
      PROVE  KeptAs(k) /\ SettledBy(p, k)
  <2>1. ASSUME NEW ref, NEW verb \in {"mark_failed", "confirm_created", "release_claim"},
               Settle(p, verb, ref), verb = "release_claim" => ReleaseClaim(p)
        PROVE  KeptAs(k) /\ SettledBy(p, k)
    <3>1. /\ k = held[p] /\ KeptAs(k)
          /\ ledger[k].outcome \in Transitions[verb].from
          /\ ledger'[k].outcome = Transitions[verb].to
      BY <1>0, <2>1, ApplyMoves DEF Settle
    <3>2. pc[p] \in {"claimed", "answered"}
      BY <1>4 DEF RenderFails, ConfirmCreated, MarkFailed, ReleaseClaim
    <3>. QED  BY <2>1, <3>1, <3>2 DEF SettledBy, Transitions
  <2>. QED  BY <1>4, <2>1 DEF RenderFails, ConfirmCreated, MarkFailed, ReleaseClaim
<1>5. ASSUME NEW j \in Keys, Replay(j) \/ ReleaseStaleClaim(j)
      PROVE  KeptAs(k) /\ Reopened(k)
  <2>1. PICK verb \in {"replay", "release_stale_claim"} : OperatorActs /\ Apply(verb, j, NoRef)
    BY <1>5 DEF Replay, ReleaseStaleClaim
  <2>2. /\ KeptAs(k)
        /\ ledger[k].outcome \in Transitions[verb].from
        /\ ledger'[k].outcome = Transitions[verb].to
    BY <1>0, <2>1, ApplyMoves
  <2>. QED  BY <2>1, <2>2 DEF Reopened, Transitions
<1>6. ASSUME NEW j \in Keys, ClaimGoesStale(j)
      PROVE  KeptAs(k) /\ ledger'[k].outcome = ledger[k].outcome
  <2>1. ledger[j] \in Rows /\ ledger[j].outcome = "claimed"
        /\ ledger' = [ledger EXCEPT ![j] = [@ EXCEPT !.fresh = FALSE]]
    BY <1>0, <1>6 DEF ClaimGoesStale, GoStale, LedgerTypeOK
  <2>2. k = j
    BY <1>0, <2>1 DEF LedgerTypeOK
  <2>3. ledger'[k] = [ledger[k] EXCEPT !.fresh = FALSE]
    BY <1>0, <2>1, <2>2 DEF LedgerTypeOK
  <2>. QED  BY <2>1, <2>2, <2>3 DEF KeptAs, NoRow, Rows
<1>7. ASSUME NEW p \in Passes,
             \/ StartPass(p) \/ PullEvent(p) \/ Ack(p) \/ Resolve(p) \/ RecordEventLevel(p)
             \/ MatchEntries(p) \/ ClaimRefused(p) \/ BatchSettled(p) \/ FinishPass(p)
             \/ Stall(p) \/ MintingUnavailable(p) \/ Abort(p) \/ HoldClaim(p)
             \/ SubmitAnswered(p) \/ SubmitUnavailable(p)
      PROVE  FALSE
  BY <1>7 DEF StartPass, PullEvent, Ack, Resolve, RecordEventLevel, MatchEntries,
              ClaimRefused, BatchSettled, FinishPass, Stall, MintingUnavailable, Abort,
              HoldClaim, SubmitAnswered, SubmitUnavailable, Submit, Answered, EndPass, storeVars
<1>8. ASSUME NEW j \in Keys, LateRequest(j)
      PROVE  FALSE
  BY <1>8 DEF LateRequest, storeVars
<1>9. ASSUME NEW q \in Policies, NEW mode, Revise(q, mode)
      PROVE  FALSE
  BY <1>9 DEF Revise, storeVars
<1>. QED  BY <1>1, <1>2, <1>3, <1>4, <1>5, <1>6, <1>7, <1>8, <1>9 DEF Next, PassStep

-----------------------------------------------------------------------------
(* While the first version stands: a row belongs to the first delivery of  *)
(* its key, and one that was ever claimed is announced.                    *)
RowOfFirst(k) ==
  /\ ledger[k].outcome # "none"
  /\ \E e \in Evaluated : \E i \in Delivered(InitialModes, e) :
       First(e, i) /\ EntryKey(e, i) = k /\ ledger[k].policy = Entry(e, i)
  /\ ledger[k].outcome \in MintOutcomes => Announced(k)

RowsInOrder == revisions = 0 => \A k \in Keys : ledger[k] # NoRow => RowOfFirst(k)

(* A pass records its event after those before it, so what it inserts is   *)
(* the first delivery of the key.                                          *)
LEMMA InsertedIsFirst ==
  ASSUME Typed, Trail, AsPreviewed, revisions = 0, NEW p \in Passes, NEW k \in Keys,
         Inserted(p, k)
  PROVE  /\ pc[p] = "record" /\ pos[p] \in Evaluated
         /\ \E i \in left[p] :
              /\ i \in Delivered(InitialModes, pos[p]) /\ First(pos[p], i)
              /\ EntryKey(pos[p], i) = k /\ ledger'[k].policy = Entry(pos[p], i)
<1>1. PICK i \in left[p] : ~Collides(p, i) /\ EntryKey(pos[p], i) = k
                           /\ ledger'[k].policy = Entry(pos[p], i)
  BY DEF Inserted
<1>2. pc[p] = "record" /\ ledger[k] = NoRow
  BY DEF Inserted, RecordEntry
<1>3. pos[p] \in Evaluated /\ pin[p] = InitialModes /\ i \in Matching(p) /\ version = InitialModes
  BY <1>1, <1>2 DEF AsPreviewed, PassAsPreviewed, Evaluated
<1>4. i \in Delivered(InitialModes, pos[p])
  BY <1>1, <1>3 DEF Collides, Delivered, Matching
<1>5. ASSUME NEW f \in Evaluated, NEW j \in Delivered(InitialModes, f), EntryKey(f, j) = k
      PROVE  pos[p] <= f
  <2>1. f \in Events \ Malformed /\ f \notin Foreign /\ f \in Nat /\ pos[p] \in Nat
    BY <1>3 DEF Evaluated, Events
  <2>2. ~ Recorded(f)
    <3>1. j \in 1 .. Len(Entries[f]) /\ version[Entry(f, j)] # "absent" /\ ledger[EntryKey(f, j)] = NoRow
      BY <1>2, <1>3, <1>5 DEF Delivered
    <3>. QED  BY <2>1, <3>1 DEF Recorded
  <2>3. ~ (f < pos[p])
    BY <2>1, <2>2 DEF Trail, PassTrail
  <2>. QED  BY <2>1, <2>3
<1>6. First(pos[p], i)
  BY <1>1, <1>3, <1>4, <1>5 DEF First
<1>. QED  BY <1>1, <1>2, <1>3, <1>4, <1>6

LEMMA NextRowsInOrder ==
  Typed /\ Trail /\ AsPreviewed /\ RowsInOrder /\ [Next]_vars => RowsInOrder'
<1>. SUFFICES ASSUME Typed, Trail, AsPreviewed, RowsInOrder, [Next]_vars, revisions' = 0,
                     NEW k \in Keys, ledger'[k] # NoRow
              PROVE  RowOfFirst(k)'
  BY DEF RowsInOrder
<1>0. revisions = 0
  BY VersionIsRevised
<1>. DEFINE OfFirst(q) == \E e \in Evaluated : \E i \in Delivered(InitialModes, e) :
                            First(e, i) /\ EntryKey(e, i) = k /\ q = Entry(e, i)
<1>a. /\ RowOfFirst(k) <=> /\ ledger[k].outcome # "none" /\ OfFirst(ledger[k].policy)
                           /\ ledger[k].outcome \in MintOutcomes => Announced(k)
      /\ RowOfFirst(k)' <=> /\ ledger'[k].outcome # "none" /\ OfFirst(ledger'[k].policy)
                            /\ ledger'[k].outcome \in MintOutcomes => Announced(k)
  BY DEF RowOfFirst, First, Announced
<1>. HIDE DEF OfFirst
<1>1. CASE ledger'[k] = ledger[k]
  BY <1>0, <1>a, <1>1 DEF RowsInOrder
<1>2. CASE ledger'[k] # ledger[k]
  <2>0. Next
    BY <1>2 DEF vars, storeVars
  <2>1. ASSUME NEW p \in Passes, Inserted(p, k)
        PROVE  RowOfFirst(k)'
    <3>1. OfFirst(ledger'[k].policy)
      BY <1>0, <2>1, InsertedIsFirst DEF OfFirst
    <3>2. ledger'[k].outcome = "matched" /\ ledger'[k].outcome \notin MintOutcomes
      BY <2>1 DEF Inserted, MintOutcomes
    <3>. QED  BY <1>a, <3>1, <3>2
  <2>2. ASSUME KeptAs(k)
        PROVE  /\ ledger[k].outcome # "none" /\ OfFirst(ledger'[k].policy)
               /\ ledger[k].outcome \in MintOutcomes => Announced(k)
    BY <1>0, <1>a, <2>2 DEF KeptAs, RowsInOrder
  <2>3. ASSUME NEW p \in Passes, ClaimedBy(p, k)
        PROVE  Announced(k) /\ ledger'[k].outcome # "none"
    <3>0. ledger'[k].outcome # "none"
      BY <2>3 DEF ClaimedBy
    <3>1. PICK i \in owed[p] : pin[p][Entry(pos[p], i)] = "active" /\ EntryKey(pos[p], i) = k
      BY <2>3 DEF ClaimedBy, Dispatches
    <3>. QED  BY <1>0, <3>0, <3>1 DEF AsPreviewed, PassAsPreviewed, Announced
  <2>4. ASSUME NEW p \in Passes, ParkedBy(p, k)
        PROVE  ledger'[k].outcome \notin MintOutcomes \cup {"none"}
    BY <2>4 DEF ParkedBy, ParkedOutcome, MintOutcomes
  <2>5. ASSUME NEW p \in Passes, SettledBy(p, k)
        PROVE  ledger[k].outcome \in MintOutcomes /\ ledger'[k].outcome # "none"
    BY <2>5 DEF SettledBy, MintOutcomes
  <2>6. Reopened(k) => ledger'[k].outcome \notin MintOutcomes \cup {"none"}
    BY DEF Reopened, MintOutcomes
  <2>. QED  BY <1>2, <1>a, <2>0, <2>1, <2>2, <2>3, <2>4, <2>5, <2>6, RowMoves
<1>. QED  BY <1>1, <1>2

LEMMA InitRowsInOrder == Init => RowsInOrder
  BY DEF Init, LedgerInit, RowsInOrder

(* No row is another policy's than the preview shows, and no key the       *)
(* preview does not show has one.                                          *)
THEOREM RowsFollowPreview == Spec => []RowsAsPreviewed
<1>1. RowsInOrder => RowsAsPreviewed
  <2>. SUFFICES ASSUME RowsInOrder, revisions = 0, NEW k \in Keys, ledger[k] # NoRow
                PROVE  \E c \in PreviewRows(InitialModes) : c.key = k /\ ledger[k].policy = c.policy
    BY DEF RowsAsPreviewed
  <2>1. PICK e \in Evaluated : \E i \in Delivered(InitialModes, e) :
          First(e, i) /\ EntryKey(e, i) = k /\ ledger[k].policy = Entry(e, i)
    BY DEF RowsInOrder, RowOfFirst
  <2>2. PICK i \in Delivered(InitialModes, e) :
          First(e, i) /\ EntryKey(e, i) = k /\ ledger[k].policy = Entry(e, i)
    BY <2>1
  <2>3. ReportOf(e, i) \in PreviewRows(InitialModes)
    BY <2>2, PreviewRowsAreFirst
  <2>. QED  BY <2>2, <2>3 DEF ReportOf
<1>2. Spec => []Typed
  BY TypeCorrect DEF Typed
<1>. QED
  BY <1>1, <1>2, InitTrail, NextTrail, InitAsPreviewed, NextAsPreviewed, InitRowsInOrder,
     NextRowsInOrder, PTL DEF Spec

-----------------------------------------------------------------------------
(* No key is delivered both by a gated policy and by an active one.        *)
GatedKeysApart ==
  \A e, f \in Evaluated :
    \A i \in Delivered(InitialModes, e) : \A j \in Delivered(InitialModes, f) :
      EntryKey(e, i) = EntryKey(f, j) /\ ModeOf(e, i) = "approval_required"
        => ModeOf(f, j) # "active"

(* ledger.py: "the minting layer claims only when the CURRENT entry's mode *)
(* is `active`, so a still-gated policy never mints".                      *)
GatedPolicyNeverMints ==
  revisions = 0 => \A k \in Keys :
    ledger[k].outcome \in {"claimed", "created"}
      => version[ledger[k].policy] # "approval_required"

(* A gated policy's row is never claimed or created, unless an active      *)
(* policy renders its key too, whose consequence is then handed the row.   *)
THEOREM GatesAreKept == ASSUME GatedKeysApart PROVE Spec => []GatedPolicyNeverMints
<1>1. RowsInOrder /\ AsPreviewed => GatedPolicyNeverMints
  <2>. SUFFICES ASSUME RowsInOrder, AsPreviewed, revisions = 0, NEW k \in Keys,
                       ledger[k].outcome \in {"claimed", "created"}
                PROVE  version[ledger[k].policy] # "approval_required"
    BY DEF GatedPolicyNeverMints
  <2>1. ledger[k] # NoRow /\ ledger[k].outcome \in MintOutcomes /\ version = InitialModes
    BY DEF NoRow, MintOutcomes, AsPreviewed
  <2>2. RowOfFirst(k)
    BY <2>1 DEF RowsInOrder
  <2>. QED  BY <2>1, <2>2 DEF RowOfFirst, Announced, GatedKeysApart, ModeOf
<1>2. Spec => []Typed
  BY TypeCorrect DEF Typed
<1>. QED
  BY <1>1, <1>2, InitTrail, NextTrail, InitAsPreviewed, NextAsPreviewed, InitRowsInOrder,
     NextRowsInOrder, PTL DEF Spec

-----------------------------------------------------------------------------
(* One driver, and no operator: what it acks is carried out.               *)
SoleDriver == (\A p, q \in Passes : p = q) /\ ~OperatorActs

\* Where the sole pass is.
InStep(p) ==
  /\ pc[p] \in {"first", "next"} => pos[p] = cursor
  /\ pc[p] \notin {"idle", "first", "next"} => pos[p] = cursor + 1
  /\ deferred[p] => pc[p] \in {"mint", "claimed", "answered"}

\* What it has passed over is carried out, unless the event is put off.
PassedOver(p) ==
  (pc[p] \in {"record", "mint", "claimed", "answered", "ack"} /\ ~deferred[p] /\ pos[p] \in Evaluated)
    => \A i \in Delivered(InitialModes, pos[p]) \ left[p] :
         ledger[EntryKey(pos[p], i)].outcome = "matched" => i \in owed[p]

\* What it claimed is due now, and not the row of an event left behind.
HeldIsDue(p) ==
  held[p] # NoKey =>
    /\ pos[p] \in Evaluated
    /\ \E i \in Delivered(InitialModes, pos[p]) :
         EntryKey(pos[p], i) = held[p] /\ ModeOf(pos[p], i) = "active"
    /\ \A e \in Evaluated : \A i \in Delivered(InitialModes, e) :
         First(e, i) /\ EntryKey(e, i) = held[p] /\ ModeOf(e, i) = "active" => e > cursor

\* A row still to be carried out belongs to the event after the cursor.
DueIsNext(k) ==
  ledger[k].outcome = "matched" =>
    /\ cursor + 1 \in Evaluated
    /\ \E i \in Delivered(InitialModes, cursor + 1) :
         /\ EntryKey(cursor + 1, i) = k
         /\ ModeOf(cursor + 1, i) = "active" \/ First(cursor + 1, i)

Destiny(mode) ==
  CASE mode = "dry_run" -> {"dry_run"}
    [] mode = "active" -> MintOutcomes
    [] OTHER -> MintOutcomes \cup {"awaiting_approval"}

\* The first delivery's mode decides what becomes of the row, at the latest when
\* its event is acked; only a gated row may be due again.
FatesHold ==
  \A e \in Evaluated : \A i \in Delivered(InitialModes, e) : First(e, i) =>
    LET o == ledger[EntryKey(e, i)].outcome
    IN /\ o \in Destiny(ModeOf(e, i)) \cup {"none", "matched"}
       /\ e <= cursor /\ ModeOf(e, i) # "approval_required" => o # "matched"

CarriedOut ==
  revisions = 0 =>
    /\ \A p \in Passes : InStep(p) /\ PassedOver(p) /\ HeldIsDue(p)
    /\ \A k \in Keys : DueIsNext(k)
    /\ FatesHold

Grounds == Typed /\ Safe /\ Trail /\ AsPreviewed /\ RowsInOrder

LEMMA InitCarriedOut == Init => CarriedOut
<1>. SUFFICES ASSUME Init PROVE CarriedOut
  OBVIOUS
<1>1. \A k \in Keys : ledger[k].outcome = "none"
  BY DEF Init, LedgerInit, NoRow
<1>2. ASSUME NEW e \in Evaluated, NEW i \in Delivered(InitialModes, e)
      PROVE  ledger[EntryKey(e, i)].outcome = "none"
  BY <1>1, DeliveredIsEntry
<1>3. FatesHold
  BY <1>2 DEF FatesHold
<1>4. \A p \in Passes : InStep(p) /\ PassedOver(p) /\ HeldIsDue(p)
  BY DEF Init, InStep, PassedOver, HeldIsDue
<1>. QED  BY <1>1, <1>3, <1>4 DEF CarriedOut, DueIsNext

(* The only steps are the pass's, and those that leave it alone.           *)
WorldStep ==
  /\ UNCHANGED <<driverVars, cursor>>
  /\ \A k \in Keys : ledger'[k].outcome = ledger[k].outcome

LEMMA SoleSteps ==
  ASSUME SoleDriver, Typed, Next, NEW p \in Passes
  PROVE  PassStep(p) \/ Abort(p) \/ WorldStep
<1>1. ASSUME NEW k \in Keys, LateRequest(k) \/ Replay(k) \/ ReleaseStaleClaim(k)
      PROVE  WorldStep
  BY <1>1 DEF LateRequest, Replay, ReleaseStaleClaim, storeVars, WorldStep, SoleDriver
<1>2. ASSUME NEW k \in Keys, ClaimGoesStale(k)
      PROVE  WorldStep
  <2>1. ledger' = [ledger EXCEPT ![k] = [@ EXCEPT !.fresh = FALSE]] /\ ledger \in [Keys -> Rows]
    BY <1>2 DEF ClaimGoesStale, GoStale, Typed, TypeOK, LedgerTypeOK
  <2>2. ledger[k] \in Rows
    BY <2>1
  <2>3. [ledger[k] EXCEPT !.fresh = FALSE].outcome = ledger[k].outcome
    BY <2>2 DEF Rows
  <2>4. \A j \in Keys : ledger'[j].outcome = ledger[j].outcome
    BY <2>1, <2>3
  <2>. QED  BY <1>2, <2>4 DEF ClaimGoesStale, WorldStep
<1>3. ASSUME NEW q \in Policies, NEW mode, Revise(q, mode)
      PROVE  WorldStep
  BY <1>3 DEF Revise, storeVars, WorldStep
<1>. QED  BY <1>1, <1>2, <1>3 DEF Next, SoleDriver

(* Only an ack moves the cursor, and it moves nothing else durable.        *)
LEMMA AckOnly ==
  ASSUME Next, cursor' # cursor
  PROVE  \E p \in Passes : Ack(p)
<1>1. ASSUME NEW p \in Passes, PassStep(p) \/ Abort(p), ~Ack(p)
      PROVE  FALSE
  BY <1>1 DEF PassStep, StartPass, PullEvent, Resolve, RecordEventLevel,
       MatchEntries, ClaimRefused, BatchSettled, FinishPass, Stall, MintingUnavailable,
       Abort, HoldClaim, SubmitAnswered, SubmitUnavailable, Submit, Answered, EndPass,
       RecordEntry, Claim, GateForApproval, CloseDryRun, ParkAs, RenderFails,
       ConfirmCreated, MarkFailed, ReleaseClaim, storeVars
<1>2. ASSUME \A p \in Passes : ~(PassStep(p) \/ Abort(p))
      PROVE  FALSE
  BY <1>2 DEF Next, LateRequest, ClaimGoesStale, Replay, ReleaseStaleClaim, Revise, storeVars
<1>. QED  BY <1>1, <1>2

(* At the ack nothing is left to be carried out.                           *)
LEMMA NothingDueAtAck ==
  ASSUME Grounds, CarriedOut, revisions = 0, NEW p \in Passes, pc[p] = "ack", NEW k \in Keys
  PROVE  ledger[k].outcome # "matched"
<1>. SUFFICES ASSUME ledger[k].outcome = "matched"
              PROVE  FALSE
  OBVIOUS
<1>1. pos[p] = cursor + 1 /\ ~deferred[p]
  BY DEF CarriedOut, InStep
<1>2. PICK j \in Delivered(InitialModes, cursor + 1) : EntryKey(cursor + 1, j) = k
  BY DEF CarriedOut, DueIsNext
<1>3. cursor + 1 \in Evaluated
  BY DEF CarriedOut, DueIsNext
<1>4. left[p] = {} /\ owed[p] = {}
  BY DEF Grounds, Typed, WorkInHand
<1>. QED  BY <1>1, <1>2, <1>3, <1>4 DEF CarriedOut, PassedOver

LEMMA KeepsInStep ==
  ASSUME SoleDriver, Grounds, CarriedOut, Next, revisions = 0, NEW p \in Passes
  PROVE  InStep(p)'
<1>. USE DEF Grounds, Typed, TypeOK, Goto
<1>0. InStep(p) /\ cursor \in Nat /\ pos[p] \in Nat
  BY LedgerAssumption DEF CarriedOut
<1>1. CASE FinishPass(p) \/ Stall(p) \/ MintingUnavailable(p) \/ Abort(p)
  <2>1. pc'[p] = "idle" /\ deferred'[p] = FALSE
    BY <1>1 DEF FinishPass, Stall, MintingUnavailable, Abort, EndPass
  <2>. QED  BY <2>1 DEF InStep
<1>2. CASE StartPass(p) \/ PullEvent(p)
  BY <1>0, <1>2 DEF StartPass, PullEvent, InStep, storeVars
<1>3. CASE Ack(p)
  BY <1>0, <1>3 DEF Ack, InStep
<1>4. CASE Resolve(p) \/ RecordEventLevel(p) \/ MatchEntries(p) \/ RecordEntry(p)
  BY <1>0, <1>4 DEF Resolve, RecordEventLevel, MatchEntries, RecordEntry, InStep, storeVars
<1>5. CASE Claim(p) \/ ClaimRefused(p) \/ GateForApproval(p) \/ CloseDryRun(p) \/ BatchSettled(p)
  BY <1>0, <1>5 DEF Claim, ClaimRefused, GateForApproval, CloseDryRun, ParkAs, BatchSettled,
       Dispatches, InStep, storeVars
<1>6. CASE RenderFails(p) \/ ConfirmCreated(p) \/ MarkFailed(p) \/ ReleaseClaim(p) \/ HoldClaim(p)
  BY <1>0, <1>6 DEF RenderFails, ConfirmCreated, MarkFailed, ReleaseClaim, HoldClaim, Settle,
       InStep, storeVars
<1>7. CASE SubmitAnswered(p) \/ SubmitUnavailable(p)
  BY <1>0, <1>7 DEF SubmitAnswered, SubmitUnavailable, Submit, Answered, InStep, storeVars
<1>8. CASE WorldStep
  BY <1>0, <1>8 DEF InStep, driverVars, WorldStep
<1>. QED  BY <1>1, <1>2, <1>3, <1>4, <1>5, <1>6, <1>7, <1>8, SoleSteps DEF PassStep

\* What the operators of an event say does not change.
LEMMA DeliveriesAreFixed ==
  \A e, i : /\ Delivered(InitialModes, e)' = Delivered(InitialModes, e)
            /\ EntryKey(e, i)' = EntryKey(e, i) /\ ModeOf(e, i)' = ModeOf(e, i)
            /\ First(e, i)' = First(e, i)
  BY DEF Delivered, EntryKey, Entry, ModeOf, First

(* What a claim finds: the entry is due now, and its row was not that of   *)
(* an active policy's event left behind.                                   *)
LEMMA ClaimIsDue ==
  ASSUME SoleDriver, Grounds, CarriedOut, Next, revisions = 0, NEW p \in Passes, Claim(p)
  PROVE  HeldIsDue(p)'
<1>1. PICK i \in owed[p] :
        /\ Dispatches(p, i, "active") /\ Applies("claim", EntryKey(pos[p], i))
        /\ held' = [held EXCEPT ![p] = EntryKey(pos[p], i)]
  BY DEF Claim
<1>2. /\ held'[p] = EntryKey(pos[p], i)
      /\ pos' = pos /\ cursor' = cursor
  BY <1>1 DEF Claim, Grounds, Typed, TypeOK
<1>3. pos[p] \in Evaluated /\ i \in Delivered(InitialModes, pos[p]) /\ ModeOf(pos[p], i) = "active"
  BY <1>1 DEF Grounds, AsPreviewed, PassAsPreviewed, Dispatches, ModeOf
<1>4. ASSUME NEW e \in Evaluated, NEW j \in Delivered(InitialModes, e), First(e, j),
             EntryKey(e, j) = held'[p], ModeOf(e, j) = "active"
      PROVE  e > cursor
  <2>1. ledger[EntryKey(e, j)].outcome \in {"matched", "awaiting_approval"}
    BY <1>1, <1>2, <1>4 DEF Applies, Transitions
  <2>2. ledger[EntryKey(e, j)].outcome \in MintOutcomes \cup {"none", "matched"}
    BY <1>4 DEF CarriedOut, FatesHold, Destiny
  <2>3. ~(e <= cursor)
    BY <1>4, <2>1, <2>2 DEF CarriedOut, FatesHold, MintOutcomes
  <2>. QED  BY <2>3 DEF Evaluated, Events, Grounds, Typed, TypeOK
<1>. QED  BY <1>2, <1>3, <1>4, DeliveriesAreFixed DEF HeldIsDue

LEMMA KeepsHeldIsDue ==
  ASSUME SoleDriver, Grounds, CarriedOut, Next, revisions = 0, NEW p \in Passes
  PROVE  HeldIsDue(p)'
<1>1. CASE Claim(p)
  BY <1>1, ClaimIsDue
<1>2. ASSUME \/ held'[p] = NoKey
             \/ held'[p] = held[p] /\ pos'[p] = pos[p] /\ cursor' = cursor
      PROVE  HeldIsDue(p)'
  BY <1>2, DeliveriesAreFixed DEF CarriedOut, HeldIsDue
<1>. USE DEF Grounds, Typed, TypeOK
<1>3. CASE FinishPass(p) \/ Stall(p) \/ MintingUnavailable(p) \/ Abort(p)
  <2>1. held'[p] = NoKey
    BY <1>3 DEF FinishPass, Stall, MintingUnavailable, Abort, EndPass
  <2>. QED  BY <1>2, <2>1
<1>4. CASE \/ StartPass(p) \/ PullEvent(p) \/ Ack(p) \/ Resolve(p) \/ RecordEventLevel(p)
           \/ MatchEntries(p) \/ RecordEntry(p)
  <2>1. held' = held /\ pc[p] \notin {"claimed", "answered"}
    BY <1>4 DEF StartPass, PullEvent, Ack, Resolve, RecordEventLevel, MatchEntries, RecordEntry
  <2>2. held'[p] = NoKey
    BY <2>1 DEF WorkInHand
  <2>. QED  BY <1>2, <2>2
<1>5. CASE ClaimRefused(p) \/ GateForApproval(p) \/ CloseDryRun(p) \/ BatchSettled(p)
           \/ SubmitAnswered(p) \/ SubmitUnavailable(p)
  <2>1. held' = held /\ pos' = pos /\ cursor' = cursor
    BY <1>5 DEF ClaimRefused, GateForApproval, CloseDryRun, ParkAs, BatchSettled,
         SubmitAnswered, SubmitUnavailable, Submit, Answered, storeVars
  <2>. QED  BY <1>2, <2>1
<1>6. CASE RenderFails(p) \/ ConfirmCreated(p) \/ MarkFailed(p) \/ ReleaseClaim(p) \/ HoldClaim(p)
  <2>1. held'[p] = NoKey
    BY <1>6 DEF RenderFails, ConfirmCreated, MarkFailed, ReleaseClaim, HoldClaim, Settle
  <2>. QED  BY <1>2, <2>1
<1>7. CASE WorldStep
  BY <1>2, <1>7 DEF driverVars, WorldStep
<1>. QED  BY <1>1, <1>3, <1>4, <1>5, <1>6, <1>7, SoleSteps DEF PassStep

(* The cursor moves past an event only when nothing is due.                *)
LEMMA KeepsDueIsNext ==
  ASSUME SoleDriver, Grounds, CarriedOut, Next, revisions = 0, NEW k \in Keys
  PROVE  DueIsNext(k)'
<1>. SUFFICES ASSUME ledger'[k].outcome = "matched"
              PROVE  DueIsNext(k)'
  BY DEF DueIsNext
<1>. DEFINE Due == /\ cursor + 1 \in Evaluated
                   /\ \E i \in Delivered(InitialModes, cursor + 1) :
                        /\ EntryKey(cursor + 1, i) = k
                        /\ ModeOf(cursor + 1, i) = "active" \/ First(cursor + 1, i)
<1>1. CASE cursor' # cursor
  <2>1. PICK p \in Passes : Ack(p)
    BY <1>1, AckOnly
  <2>2. pc[p] = "ack" /\ ledger' = ledger
    BY <2>1 DEF Ack
  <2>. QED  BY <2>2, NothingDueAtAck
<1>2. CASE cursor' = cursor
  <2>0. Due => DueIsNext(k)'
    BY <1>2, DeliveriesAreFixed DEF DueIsNext
  <2>1. ledger[k].outcome = "matched" => Due
    BY DEF CarriedOut, DueIsNext
  <2>2. ASSUME NEW p \in Passes, Inserted(p, k)
        PROVE  Due
    <3>1. pc[p] = "record" /\ pos[p] \in Evaluated /\ \E i \in left[p] :
            i \in Delivered(InitialModes, pos[p]) /\ First(pos[p], i) /\ EntryKey(pos[p], i) = k
      BY <2>2, InsertedIsFirst DEF Grounds
    <3>2. pos[p] = cursor + 1
      BY <3>1 DEF CarriedOut, InStep
    <3>. QED  BY <3>1, <3>2
  <2>3. ASSUME NEW p \in Passes, SettledBy(p, k)
        PROVE  Due
    <3>1. held[p] = k /\ pc[p] \in {"claimed", "answered"} /\ k # NoKey
      BY <2>3, PipelineAssumption DEF SettledBy
    <3>2. pos[p] = cursor + 1
      BY <3>1 DEF CarriedOut, InStep
    <3>. QED  BY <3>1, <3>2 DEF CarriedOut, HeldIsDue
  <2>4. ~Reopened(k)
    BY DEF Reopened, SoleDriver
  <2>5. \A p \in Passes : ~ClaimedBy(p, k) /\ ~ParkedBy(p, k)
    BY DEF ClaimedBy, ParkedBy, ParkedOutcome
  <2>. HIDE DEF Due
  <2>. QED  BY <2>0, <2>1, <2>2, <2>3, <2>4, <2>5, RowMoves DEF Grounds
<1>. QED  BY <1>1, <1>2

(* What a consequence is for, when another event may have come first to    *)
(* its key.                                                                *)
LEMMA DueDelivery ==
  ASSUME Grounds, CarriedOut, revisions = 0, NEW p \in Passes, NEW j \in owed[p], pc[p] = "mint",
         NEW e \in Evaluated, NEW i \in Delivered(InitialModes, e), First(e, i),
         EntryKey(e, i) = EntryKey(pos[p], j)
  PROVE  /\ pos[p] \in Evaluated /\ j \in Delivered(InitialModes, pos[p]) /\ pos[p] = cursor + 1
         /\ ModeOf(pos[p], j) = pin[p][Entry(pos[p], j)]
         /\ e <= cursor \/ (e = pos[p] /\ i = j)
<1>1. /\ pos[p] \in Evaluated /\ j \in Delivered(InitialModes, pos[p])
      /\ ModeOf(pos[p], j) = pin[p][Entry(pos[p], j)]
  BY DEF Grounds, AsPreviewed, PassAsPreviewed, ModeOf
<1>2. pos[p] = cursor + 1
  BY DEF CarriedOut, InStep
<1>3. e <= pos[p] /\ e \in Nat /\ cursor \in Nat
  BY <1>1, LedgerAssumption DEF First, Evaluated, Events, Grounds, Typed, TypeOK
<1>4. e = pos[p] => i = j
  BY <1>1, DeliveredKeysDiffer
<1>. QED  BY <1>1, <1>2, <1>3, <1>4

LEMMA KeepsFates ==
  ASSUME SoleDriver, Grounds, CarriedOut, Next, revisions = 0
  PROVE  FatesHold'
<1>. SUFFICES ASSUME NEW e \in Evaluated, NEW i \in Delivered(InitialModes, e), First(e, i)
              PROVE  LET o == ledger'[EntryKey(e, i)].outcome
                     IN /\ o \in Destiny(ModeOf(e, i)) \cup {"none", "matched"}
                        /\ e <= cursor' /\ ModeOf(e, i) # "approval_required" => o # "matched"
  BY DeliveriesAreFixed DEF FatesHold, Destiny
<1>. DEFINE k == EntryKey(e, i)
            m == ModeOf(e, i)
            o == ledger[k].outcome
<1>0. /\ o \in Destiny(m) \cup {"none", "matched"}
      /\ e <= cursor /\ m # "approval_required" => o # "matched"
      /\ k \in Keys /\ m \in Modes /\ cursor \in Nat /\ e \in Nat
  BY DeliveredIsEntry, LedgerAssumption DEF CarriedOut, FatesHold, Grounds, Typed, TypeOK, Evaluated, Events
<1>1. CASE cursor' # cursor
  <2>1. PICK p \in Passes : Ack(p)
    BY <1>1, AckOnly
  <2>2. pc[p] = "ack" /\ ledger' = ledger
    BY <2>1 DEF Ack
  <2>3. o # "matched"
    BY <1>0, <2>2, NothingDueAtAck
  <2>. QED  BY <1>0, <2>2, <2>3
<1>2. CASE cursor' = cursor /\ ledger'[k].outcome = o
  BY <1>0, <1>2
<1>3. ASSUME cursor' = cursor, NEW p \in Passes, Inserted(p, k)
      PROVE  ledger'[k].outcome = "matched" /\ ~(e <= cursor)
  <2>1. PICK j \in left[p] : First(pos[p], j) /\ EntryKey(pos[p], j) = k
    BY <1>0, <1>3, InsertedIsFirst DEF Grounds
  <2>2. e = pos[p]
    BY <2>1, FirstIsUnique
  <2>3. pos[p] = cursor + 1
    BY <1>3 DEF CarriedOut, InStep, Inserted, RecordEntry
  <2>. QED  BY <1>0, <1>3, <2>2, <2>3 DEF Inserted
<1>4. ASSUME NEW p \in Passes, ClaimedBy(p, k)
      PROVE  ledger'[k].outcome \in Destiny(m) /\ ledger'[k].outcome # "matched"
  <2>1. PICK j \in owed[p] : Dispatches(p, j, "active") /\ EntryKey(pos[p], j) = k
    BY <1>4 DEF ClaimedBy
  <2>2. ModeOf(pos[p], j) = "active" /\ (e <= cursor \/ (e = pos[p] /\ i = j))
    BY <2>1, DueDelivery DEF Dispatches
  <2>3. o \in {"matched", "awaiting_approval"} /\ ledger'[k].outcome = "claimed"
    BY <1>4 DEF ClaimedBy, ReOwedOutcomes
  <2>4. m # "dry_run"
    BY <1>0, <2>2, <2>3 DEF Destiny
  <2>. QED  BY <1>0, <2>3, <2>4 DEF Destiny, MintOutcomes, Modes
<1>5. ASSUME NEW p \in Passes, ParkedBy(p, k)
      PROVE  ledger'[k].outcome \in Destiny(m) /\ ledger'[k].outcome # "matched"
  <2>1. PICK j \in owed[p] : \E mode \in {"approval_required", "dry_run"} :
          /\ Dispatches(p, j, mode) /\ EntryKey(pos[p], j) = k
          /\ ledger'[k].outcome = ParkedOutcome(mode)
    BY <1>5 DEF ParkedBy
  <2>2. /\ pos[p] \in Evaluated /\ j \in Delivered(InitialModes, pos[p]) /\ pos[p] = cursor + 1
        /\ e <= cursor \/ (e = pos[p] /\ i = j)
        /\ ModeOf(pos[p], j) \in {"approval_required", "dry_run"}
        /\ ledger'[k].outcome = ParkedOutcome(ModeOf(pos[p], j))
    BY <2>1, DueDelivery DEF Dispatches
  <2>3. ~ (e <= cursor)
    <3>. SUFFICES ASSUME e <= cursor PROVE FALSE
      OBVIOUS
    <3>1. PICK x \in Delivered(InitialModes, pos[p]) :
            EntryKey(pos[p], x) = k /\ (ModeOf(pos[p], x) = "active" \/ First(pos[p], x))
      BY <1>0, <1>5, <2>2 DEF CarriedOut, DueIsNext, ParkedBy
    <3>2. x = j
      BY <2>1, <2>2, <3>1, DeliveredKeysDiffer
    <3>3. First(pos[p], j)
      BY <2>2, <3>1, <3>2
    <3>4. e = pos[p]
      BY <2>1, <3>3, FirstIsUnique
    <3>. QED  BY <1>0, <2>2, <3>4
  <2>4. m = ModeOf(pos[p], j)
    BY <2>2, <2>3
  <2>. QED  BY <2>2, <2>4 DEF Destiny, ParkedOutcome
<1>6. ASSUME cursor' = cursor, NEW p \in Passes, SettledBy(p, k)
      PROVE  /\ ledger'[k].outcome \in Destiny(m) \cup {"matched"}
             /\ e <= cursor' /\ m # "approval_required" => ledger'[k].outcome # "matched"
  <2>1. o = "claimed" /\ ledger'[k].outcome \in {"created", "failed", "matched"} /\ held[p] = k /\ k # NoKey
    BY <1>0, <1>6, PipelineAssumption DEF SettledBy
  <2>2. m # "dry_run"
    BY <1>0, <2>1 DEF Destiny
  <2>3. m = "active" => e > cursor
    BY <2>1 DEF CarriedOut, HeldIsDue
  <2>. QED  BY <1>0, <1>6, <2>1, <2>2, <2>3 DEF Destiny, MintOutcomes, Modes
<1>7. ~Reopened(k)
  BY DEF Reopened, SoleDriver
<1>8. ledger'[k] # ledger[k] =>
        \/ \E p \in Passes : Inserted(p, k) \/ ClaimedBy(p, k) \/ ParkedBy(p, k) \/ SettledBy(p, k)
        \/ ledger'[k].outcome = o
  BY <1>0, <1>7, RowMoves DEF Grounds
<1>. HIDE DEF k, m, o
<1>. SUFFICES /\ ledger'[k].outcome \in Destiny(m) \cup {"none", "matched"}
              /\ e <= cursor' /\ m # "approval_required" => ledger'[k].outcome # "matched"
  BY DEF k, m
<1>. QED  BY <1>1, <1>2, <1>3, <1>4, <1>5, <1>6, <1>8 DEF k, m, o

(* A row that is matched has no item yet, so its claim applies.            *)
LEMMA MatchedApplies ==
  ASSUME Grounds, NEW k \in Keys, ledger[k].outcome = "matched"
  PROVE  ledger[k].ref = NoRef
  BY DEF Grounds, Safe, CreatedNamesItem

(* Recording leaves an entry owed if its row is matched.                   *)
LEMMA RecordEntryPassesOver ==
  ASSUME Grounds, CarriedOut, revisions = 0, NEW p \in Passes, RecordEntry(p)
  PROVE  PassedOver(p)'
<1>1. PICK j \in left[p] :
        LET row == ledger[EntryKey(pos[p], j)]
            owes == row = NoRow \/ (row.outcome \in ReOwedOutcomes /\ row.ref = NoRef)
        IN /\ left' = [left EXCEPT ![p] = @ \ {j}]
           /\ IF Collides(p, j)
              THEN UNCHANGED <<ledger, owed>>
              ELSE /\ Record(EntryKey(pos[p], j), Entry(pos[p], j))
                   /\ owed' = [owed EXCEPT ![p] = IF owes THEN @ \cup {j} ELSE @]
  BY DEF RecordEntry
<1>2. /\ pc[p] = "record" /\ pos' = pos /\ deferred' = deferred
      /\ left'[p] = left[p] \ {j} /\ owed[p] \subseteq owed'[p]
  BY <1>1 DEF RecordEntry, Grounds, Typed, TypeOK
<1>3. pos[p] \in Evaluated /\ pin[p] = InitialModes
  BY <1>2 DEF Grounds, AsPreviewed, PassAsPreviewed, Evaluated
<1>4. SUFFICES ASSUME ~deferred[p], NEW i \in Delivered(InitialModes, pos[p]) \ left'[p],
                      ledger'[EntryKey(pos[p], i)].outcome = "matched"
               PROVE  i \in owed'[p]
  BY <1>2, DeliveriesAreFixed DEF PassedOver
<1>5. EntryKey(pos[p], i) \in Keys /\ ledger \in [Keys -> Rows]
  BY <1>3, DeliveredIsEntry DEF Grounds, Typed, TypeOK, LedgerTypeOK
<1>6. CASE i = j
  <2>1. ~Collides(p, i)
    BY <1>3 DEF Collides, Delivered, Matching
  <2>2. ledger[EntryKey(pos[p], i)] = NoRow \/ ledger'[EntryKey(pos[p], i)] = ledger[EntryKey(pos[p], i)]
    BY <1>1, <1>6, <2>1 DEF Record
  <2>3. \/ ledger[EntryKey(pos[p], i)] = NoRow
        \/ /\ ledger[EntryKey(pos[p], i)].outcome \in ReOwedOutcomes
           /\ ledger[EntryKey(pos[p], i)].ref = NoRef
    BY <1>4, <1>5, <2>2, MatchedApplies DEF ReOwedOutcomes
  <2>. QED  BY <1>1, <1>6, <2>1, <2>3 DEF Grounds, Typed, TypeOK
<1>7. CASE i # j
  <2>1. i \notin left[p]
    BY <1>2, <1>7
  <2>2. ledger'[EntryKey(pos[p], i)] = ledger[EntryKey(pos[p], i)]
    <3>1. CASE Collides(p, j)
      BY <1>1, <3>1
    <3>2. CASE ~Collides(p, j)
      <4>1. j \in Matching(p)
        BY <1>2 DEF Grounds, AsPreviewed, PassAsPreviewed
      <4>2. j \in Delivered(InitialModes, pos[p])
        BY <1>3, <3>2, <4>1 DEF Collides, Delivered, Matching
      <4>3. EntryKey(pos[p], i) # EntryKey(pos[p], j)
        BY <1>3, <1>7, <4>2, DeliveredKeysDiffer
      <4>. QED  BY <1>1, <1>5, <3>2, <4>3 DEF Record
    <3>. QED  BY <3>1, <3>2
  <2>3. i \in owed[p]
    BY <1>2, <1>3, <1>4, <2>1, <2>2 DEF CarriedOut, PassedOver
  <2>. QED  BY <1>2, <2>3
<1>. QED  BY <1>6, <1>7

(* A consequence carried out leaves its row no longer matched.             *)
LEMMA ConsequencePassesOver ==
  ASSUME Grounds, CarriedOut, revisions = 0, NEW p \in Passes,
         Claim(p) \/ ClaimRefused(p) \/ GateForApproval(p) \/ CloseDryRun(p)
  PROVE  PassedOver(p)'
<1>0. LedgerTypeOK
  BY DEF Grounds, Typed, TypeOK
<1>1. PICK j \in owed[p] :
        /\ owed' = [owed EXCEPT ![p] = @ \ {j}]
        /\ \/ \E verb \in {"claim", "mark_awaiting_approval", "close_dry_run"} :
                Apply(verb, EntryKey(pos[p], j), NoRef)
           \/ ~Applies("claim", EntryKey(pos[p], j)) /\ UNCHANGED ledger
  BY DEF Claim, ClaimRefused, GateForApproval, CloseDryRun, ParkAs, storeVars
<1>2. /\ pc[p] = "mint" /\ pos' = pos /\ deferred' = deferred /\ left' = left
      /\ owed'[p] = owed[p] \ {j}
  BY <1>1 DEF Claim, ClaimRefused, GateForApproval, CloseDryRun, ParkAs, Dispatches, Grounds, Typed, TypeOK
<1>3. pos[p] \in Evaluated /\ j \in Delivered(InitialModes, pos[p])
  BY DEF Grounds, AsPreviewed, PassAsPreviewed
<1>4. SUFFICES ASSUME ~deferred[p], NEW i \in Delivered(InitialModes, pos[p]) \ left[p],
                      ledger'[EntryKey(pos[p], i)].outcome = "matched"
               PROVE  i \in owed[p] \ {j}
  BY <1>2, DeliveriesAreFixed DEF PassedOver
<1>5. EntryKey(pos[p], i) \in Keys /\ EntryKey(pos[p], j) \in Keys
  BY <1>3, DeliveredIsEntry
<1>6. i # j
  <2>. SUFFICES ASSUME ledger'[EntryKey(pos[p], j)].outcome = "matched"
                PROVE  FALSE
    BY <1>4
  <2>1. ASSUME NEW verb \in {"claim", "mark_awaiting_approval", "close_dry_run"},
               Apply(verb, EntryKey(pos[p], j), NoRef)
        PROVE  FALSE
    <3>1. Transitions[verb].to # "matched" /\ "matched" \in Transitions[verb].from
      BY DEF Transitions
    <3>2. ~Applies(verb, EntryKey(pos[p], j)) /\ ledger' = ledger
      BY <1>0, <1>5, <2>1, <3>1, ApplyEffect
    <3>. QED  BY <1>5, <3>1, <3>2, MatchedApplies DEF Applies
  <2>2. ASSUME ~Applies("claim", EntryKey(pos[p], j)), UNCHANGED ledger
        PROVE  FALSE
    BY <1>5, <2>2, MatchedApplies DEF Applies, Transitions
  <2>. QED  BY <1>1, <2>1, <2>2
<1>7. ledger'[EntryKey(pos[p], i)] = ledger[EntryKey(pos[p], i)]
  <2>1. EntryKey(pos[p], i) # EntryKey(pos[p], j)
    BY <1>3, <1>6, DeliveredKeysDiffer
  <2>. QED  BY <1>0, <1>1, <1>5, <2>1, ApplyEffect
<1>8. i \in owed[p]
  BY <1>2, <1>3, <1>4, <1>7 DEF CarriedOut, PassedOver
<1>. QED  BY <1>6, <1>8

(* A settlement that gives no claim back makes no row matched.             *)
LEMMA SettledIsNotMatched ==
  ASSUME LedgerTypeOK, NEW j, NEW ref, NEW k \in Keys, ledger'[k].outcome = "matched",
         Apply("mark_failed", j, ref) \/ Apply("confirm_created", j, ref)
  PROVE  ledger[k].outcome = "matched"
<1>1. ASSUME NEW verb \in {"mark_failed", "confirm_created"}, Apply(verb, j, ref),
             ledger'[k] # ledger[k]
      PROVE  FALSE
  <2>1. ledger'[k].outcome = Transitions[verb].to
    BY <1>1, ApplyMoves
  <2>. QED  BY <2>1 DEF Transitions
<1>. QED  BY <1>1

LEMMA KeepsPassedOver ==
  ASSUME SoleDriver, Grounds, CarriedOut, Next, revisions = 0, NEW p \in Passes
  PROVE  PassedOver(p)'
<1>. USE DEF Grounds, Typed, TypeOK, Goto
<1>1. CASE FinishPass(p) \/ Stall(p) \/ MintingUnavailable(p) \/ Abort(p)
  <2>1. pc'[p] = "idle"
    BY <1>1 DEF FinishPass, Stall, MintingUnavailable, Abort, EndPass
  <2>. QED  BY <2>1 DEF PassedOver
<1>2. CASE StartPass(p) \/ PullEvent(p) \/ Ack(p) \/ Resolve(p)
  <2>1. pc'[p] \in {"first", "next", "handle"} \/ (pc'[p] = "ack" /\ pos'[p] \in Malformed)
    BY <1>2 DEF StartPass, PullEvent, Ack, Resolve
  <2>. QED  BY <2>1 DEF PassedOver, Evaluated
<1>3. CASE RecordEventLevel(p) \/ MatchEntries(p)
  <2>1. /\ pc[p] = "handle" /\ pin[p] # Unresolved /\ pos' = pos
        /\ pos[p] \in Foreign \/ Matching(p) \subseteq left'[p]
    BY <1>3 DEF RecordEventLevel, MatchEntries
  <2>2. pin[p] = InitialModes
    BY <2>1 DEF AsPreviewed, PassAsPreviewed
  <2>3. Delivered(InitialModes, pos[p]) \subseteq Matching(p)
    BY <2>2 DEF Delivered, Matching
  <2>. QED  BY <2>1, <2>3, DeliveriesAreFixed DEF PassedOver, Evaluated
<1>4. CASE RecordEntry(p)
  BY <1>4, RecordEntryPassesOver
<1>5. CASE Claim(p) \/ ClaimRefused(p) \/ GateForApproval(p) \/ CloseDryRun(p)
  BY <1>5, ConsequencePassesOver
<1>6. CASE ReleaseClaim(p)
  <2>1. deferred'[p]
    BY <1>6 DEF ReleaseClaim
  <2>. QED  BY <2>1 DEF PassedOver
<1>7. ASSUME pc[p] \in {"mint", "claimed", "answered"} \/ pc'[p] = pc[p],
             UNCHANGED <<pos, left, owed, deferred>>,
             \A k \in Keys : ledger'[k].outcome = "matched" => ledger[k].outcome = "matched"
      PROVE  PassedOver(p)'
  <2>. SUFFICES ASSUME pc[p] \in {"record", "mint", "claimed", "answered", "ack"}, ~deferred[p],
                       pos[p] \in Evaluated, NEW i \in Delivered(InitialModes, pos[p]) \ left[p],
                       ledger'[EntryKey(pos[p], i)].outcome = "matched"
                PROVE  i \in owed[p]
    BY <1>7, DeliveriesAreFixed DEF PassedOver
  <2>1. ledger[EntryKey(pos[p], i)].outcome = "matched"
    BY <1>7, DeliveredIsEntry
  <2>. QED  BY <2>1 DEF CarriedOut, PassedOver
<1>8. CASE BatchSettled(p) \/ HoldClaim(p) \/ SubmitAnswered(p) \/ SubmitUnavailable(p)
  <2>1. /\ pc[p] \in {"mint", "claimed", "answered"}
        /\ UNCHANGED <<pos, left, owed, deferred>> /\ ledger' = ledger
    BY <1>8 DEF BatchSettled, HoldClaim, SubmitAnswered, SubmitUnavailable, Submit, Answered, storeVars
  <2>. QED  BY <1>7, <2>1
<1>9. CASE RenderFails(p) \/ ConfirmCreated(p) \/ MarkFailed(p)
  <2>1. /\ pc[p] \in {"mint", "claimed", "answered"}
        /\ UNCHANGED <<pos, left, owed, deferred>>
        /\ \E ref : Apply("mark_failed", held[p], ref) \/ Apply("confirm_created", held[p], ref)
    BY <1>9 DEF RenderFails, ConfirmCreated, MarkFailed, Settle
  <2>2. ASSUME NEW k \in Keys, ledger'[k].outcome = "matched"
        PROVE  ledger[k].outcome = "matched"
    BY <2>1, <2>2, SettledIsNotMatched
  <2>. QED  BY <1>7, <2>1, <2>2
<1>10. CASE WorldStep
  BY <1>7, <1>10 DEF WorldStep, driverVars
<1>. QED  BY <1>1, <1>2, <1>3, <1>4, <1>5, <1>6, <1>8, <1>9, <1>10, SoleSteps DEF PassStep

LEMMA NextCarriedOut ==
  ASSUME SoleDriver
  PROVE  Grounds /\ CarriedOut /\ [Next]_vars => CarriedOut'
<1>. SUFFICES ASSUME Grounds, CarriedOut, [Next]_vars, revisions' = 0
              PROVE  /\ \A p \in Passes : InStep(p)' /\ PassedOver(p)' /\ HeldIsDue(p)'
                     /\ \A k \in Keys : DueIsNext(k)'
                     /\ FatesHold'
  BY DEF CarriedOut
<1>1. revisions = 0
  BY VersionIsRevised DEF Grounds
<1>2. CASE Next
  BY <1>1, <1>2, KeepsInStep, KeepsPassedOver, KeepsHeldIsDue, KeepsDueIsNext, KeepsFates
<1>3. CASE UNCHANGED vars
  BY <1>1, <1>3, DeliveriesAreFixed
     DEF CarriedOut, InStep, PassedOver, HeldIsDue, DueIsNext, FatesHold, vars, storeVars, driverVars
<1>. QED  BY <1>2, <1>3

LEMMA SoleDriverCarriesOut == ASSUME SoleDriver PROVE Spec => [](Grounds /\ CarriedOut)
<1>1. Spec => []Typed
  BY TypeCorrect DEF Typed
<1>2. Grounds /\ CarriedOut /\ [Next]_vars => CarriedOut'
  BY NextCarriedOut
<1>3. Grounds <=> Typed /\ Safe /\ Trail /\ AsPreviewed /\ RowsInOrder
  BY DEF Grounds
<1>. QED
  BY <1>1, <1>2, <1>3, SafetyHolds, InitTrail, NextTrail, InitAsPreviewed, NextAsPreviewed,
     InitRowsInOrder, NextRowsInOrder, InitCarriedOut, PTL DEF Spec

(* Of an acked event, the first delivery of a key has met its fate.        *)
LEMMA AckedMeetTheirFate ==
  ASSUME Grounds, CarriedOut, revisions = 0, NEW e \in Evaluated, e <= cursor,
         NEW i \in Delivered(InitialModes, e), First(e, i)
  PROVE  /\ EntryKey(e, i) \in Keys /\ RowOfFirst(EntryKey(e, i))
         /\ ledger[EntryKey(e, i)].outcome \in Destiny(ModeOf(e, i)) \cup {"matched"}
         /\ ModeOf(e, i) # "approval_required" => ledger[EntryKey(e, i)].outcome # "matched"
<1>1. e \in AckedEvents \ Foreign
  BY DEF Evaluated, Events, AckedEvents
<1>2. Recorded(e) /\ version = InitialModes
  BY <1>1 DEF Grounds, Trail, AckedEventsAreRecorded, AsPreviewed
<1>3. ledger[EntryKey(e, i)] # NoRow
  BY <1>1, <1>2 DEF Recorded, Delivered
<1>4. EntryKey(e, i) \in Keys /\ RowOfFirst(EntryKey(e, i))
  BY <1>3, DeliveredIsEntry DEF Grounds, RowsInOrder
<1>. QED  BY <1>4 DEF RowOfFirst, CarriedOut, FatesHold

(* With one driver, once the stream is consumed every row the preview      *)
(* shows met the fate its first delivery's mode announces.                 *)
THEOREM PreviewComesTrue == ASSUME SoleDriver PROVE Spec => []PreviewIsCarriedOut
<1>1. Grounds /\ CarriedOut => PreviewIsCarriedOut
  <2>. SUFFICES ASSUME Grounds, CarriedOut, cursor = LastEvent, revisions = 0,
                       NEW c \in PreviewRows(InitialModes)
                PROVE  ledger[c.key].outcome \in Fate(c)
    BY DEF PreviewIsCarriedOut
  <2>1. PICK e \in Evaluated : \E i \in Delivered(InitialModes, e) : First(e, i) /\ c = ReportOf(e, i)
    BY PreviewRowsAreFirst
  <2>2. PICK i \in Delivered(InitialModes, e) : First(e, i) /\ c = ReportOf(e, i)
    BY <2>1
  <2>. DEFINE k == EntryKey(e, i)
              m == ModeOf(e, i)
  <2>3. c.key = k /\ c.mode = m /\ m \in Modes
    BY <2>2, DeliveredIsEntry DEF ReportOf
  <2>4. e <= cursor /\ cursor + 1 \notin Evaluated
    BY LedgerAssumption DEF Evaluated, Events
  <2>5. k \in Keys /\ RowOfFirst(k) /\ ledger[k].outcome \in Destiny(m) \cup {"matched"}
    BY <2>2, <2>4, AckedMeetTheirFate
  <2>6. ledger[k].outcome \in Destiny(m)
    BY <2>4, <2>5 DEF CarriedOut, DueIsNext
  <2>7. ledger[k].outcome \in MintOutcomes =>
          \E d \in PreviewOf(InitialModes) : d.key = k /\ d.mode = "active"
    BY <2>5, AnnouncedIsPreviewed DEF RowOfFirst
  <2>. HIDE DEF k, m
  <2>. QED  BY <2>3, <2>6, <2>7 DEF Destiny, Fate, Mints, Modes
<1>. QED  BY <1>1, SoleDriverCarriesOut, PTL

(* With one driver, and no key both gated and active, no entry of an acked *)
(* event is still due: no event is acked before it is minted.              *)
THEOREM NothingAckedIsDue ==
  ASSUME SoleDriver, GatedKeysApart
  PROVE  Spec => []AckedEventsAreMinted
<1>1. Grounds /\ CarriedOut => AckedEventsAreMinted
  <2>. SUFFICES ASSUME Grounds, CarriedOut, revisions = 0, NEW e \in AckedEvents \ Foreign,
                       NEW i \in 1 .. Len(Entries[e]), version[Entry(e, i)] # "absent",
                       ledger[EntryKey(e, i)].outcome = "matched"
                PROVE  FALSE
    BY DEF AckedEventsAreMinted
  <2>1. e \in Evaluated /\ e <= cursor /\ version = InitialModes /\ cursor \in Nat /\ e \in Nat
    BY LedgerAssumption DEF AckedEvents, Evaluated, Events, Grounds, Typed, TypeOK, AsPreviewed
  <2>2. PICK j \in Delivered(InitialModes, e) : EntryKey(e, j) = EntryKey(e, i)
    BY <2>1, SelectedIsDelivered
  <2>3. PICK f \in Evaluated : \E x \in Delivered(InitialModes, f) :
          First(f, x) /\ EntryKey(f, x) = EntryKey(e, i) /\ f <= e
    BY <2>1, <2>2, FirstDelivery
  <2>4. PICK x \in Delivered(InitialModes, f) :
          First(f, x) /\ EntryKey(f, x) = EntryKey(e, i) /\ f <= e
    BY <2>3
  <2>5. f <= cursor /\ f \in Nat
    BY <2>1, <2>4 DEF Evaluated, Events
  <2>6. EntryKey(f, x) \in Keys /\ ModeOf(f, x) = "approval_required"
    BY <2>4, <2>5, AckedMeetTheirFate
  <2>7. /\ cursor + 1 \in Evaluated
        /\ \E y \in Delivered(InitialModes, cursor + 1) :
             /\ EntryKey(cursor + 1, y) = EntryKey(f, x)
             /\ ModeOf(cursor + 1, y) = "active" \/ First(cursor + 1, y)
    BY <2>4, <2>6 DEF CarriedOut, DueIsNext
  <2>8. PICK y \in Delivered(InitialModes, cursor + 1) :
          /\ EntryKey(cursor + 1, y) = EntryKey(f, x)
          /\ ModeOf(cursor + 1, y) = "active" \/ First(cursor + 1, y)
    BY <2>7
  <2>9. First(cursor + 1, y)
    BY <2>6, <2>7, <2>8 DEF GatedKeysApart
  <2>10. f = cursor + 1
    BY <2>4, <2>8, <2>9, FirstIsUnique
  <2>. QED  BY <2>1, <2>5, <2>10
<1>. QED  BY <1>1, SoleDriverCarriesOut, PTL

=============================================================================
