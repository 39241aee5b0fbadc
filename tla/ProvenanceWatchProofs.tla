----------------------- MODULE ProvenanceWatchProofs -----------------------
(***************************************************************************)
(* What ProvenanceWatch guarantees for any number of passes, operators,    *)
(* completions, items and slots, whichever of them die and when.           *)
(***************************************************************************)
EXTENDS ProvenanceWatch, TLAPS

(* Where a process is tells what it has in hand.                           *)
JobInHand ==
  \A p \in Procs :
    /\ pc[p] \notin {"idle", "next"} => job[p] \in Completions
    /\ pc[p] = "check" => Declares[job[p]] # {}
    /\ p \in Watchers => pc[p] # "requeue" /\ source[p] = {}
    /\ p \in Operators => pc[p] \in {"idle", "write", "requeue"}
    /\ p \in Operators => (source[p] # {} <=> pc[p] = "write")

Typed == TypeOK /\ JobInHand

-----------------------------------------------------------------------------
(* Types.                                                                  *)

(* The store operations write rows.                                        *)
LEMMA FileType ==
  ASSUME quarantine \in [Completions -> QuarantineRows], NEW c \in Completions, File(c)
  PROVE  quarantine' \in [Completions -> QuarantineRows]
  BY DEF File, QuarantineRows, NotFiled, Nobody

(* So does the guarded close.                                              *)
LEMMA CloseType ==
  ASSUME quarantine \in [Completions -> QuarantineRows], NEW c \in Completions,
         NEW status \in {"resolved", "dismissed"}, NEW attachment \in SUBSET Slots,
         NEW credit \in Completions \cup {Nobody}, Close(c, status, attachment, credit)
  PROVE  quarantine' \in [Completions -> QuarantineRows]
  BY DEF Close, QuarantineRows

(* So does the close of an item's open rows.                               *)
LEMMA CloseOpenType ==
  ASSUME quarantine \in [Completions -> QuarantineRows], NEW item,
         NEW credit \in Completions, CloseOpenForItem(item, credit)
  PROVE  quarantine' \in [Completions -> QuarantineRows]
  BY DEF CloseOpenForItem, QuarantineRows

(* The upsert writes a deliverable.                                        *)
LEMMA UpsertType ==
  ASSUME deliverables \in [Items \X Slots -> DeliverableRows], NEW c \in Completions,
         NEW slot \in Slots, NEW attachment \in SUBSET Slots, Upsert(c, slot, attachment)
  PROVE  deliverables' \in [Items \X Slots -> DeliverableRows]
<1>1. OccurredAt[c] \in Nat
  BY WatchAssumption
<1>2. QED
  BY <1>1 DEF Upsert, DeliverableRows

(* Ending a call leaves nothing in hand.                                   *)
LEMMA EndCallType ==
  ASSUME Typed, NEW p \in Procs, EndCall(p),
         quarantine' \in [Completions -> QuarantineRows],
         UNCHANGED <<deliverables, cursor, named, readable>>, aborts' \in 0 .. MaxAborts
  PROVE  Typed'
  BY WatchAssumption DEF Typed, TypeOK, JobInHand, EndCall, Goto

(* A step of a pass keeps the types.                                       *)
LEMMA WatcherKeepsTypes ==
  ASSUME Typed, NEW w \in Watchers, WatcherStep(w)
  PROVE  Typed'
<1>. w \in Procs /\ w \notin Operators
  BY WatchAssumption DEF Procs
<1>. USE DEF Typed, TypeOK, JobInHand, Goto, storeVars, worldVars
<1>1. CASE StartPass(w)
  BY <1>1 DEF StartPass
<1>2. CASE Pull(w)
  BY <1>2, WatchAssumption DEF Pull, Completions
<1>3. CASE FinishPass(w)
  BY <1>3, EndCallType DEF FinishPass
<1>4. CASE NotMinted(w)
  BY <1>4 DEF NotMinted
<1>5. CASE Classify(w)
  BY <1>5 DEF Classify, Parses
<1>6. CASE FileRow(w)
  <2>1. quarantine' \in [Completions -> QuarantineRows]
    BY <1>6, FileType DEF FileRow
  <2>2. QED
    BY <1>6, <2>1 DEF FileRow
<1>7. CASE CheckSettled(w)
  <2>1. todo' \in [Procs -> SUBSET Slots]
    BY <1>7, WatchAssumption DEF CheckSettled
  <2>2. QED
    BY <1>7, <2>1 DEF CheckSettled
<1>8. CASE WriteSlot(w)
  <2>1. deliverables' \in [Items \X Slots -> DeliverableRows]
    BY <1>8, UpsertType DEF WriteSlot
  <2>2. QED
    BY <1>8, <2>1 DEF WriteSlot
<1>9. CASE SelfClose(w)
  <2>1. quarantine' \in [Completions -> QuarantineRows]
    BY <1>9, CloseOpenType DEF SelfClose
  <2>2. QED
    BY <1>9, <2>1 DEF SelfClose
<1>10. CASE MintHalf(w)
  <2>1. CASE EndCall(w)
    BY <1>10, <2>1, EndCallType DEF MintHalf
  <2>2. CASE ~EndCall(w)
    BY <1>10, <2>2 DEF MintHalf
  <2>3. QED
    BY <2>1, <2>2
<1>11. CASE Ack(w)
  BY <1>11, WatchAssumption DEF Ack, Completions
<1>12. QED
  BY <1>1, <1>2, <1>3, <1>4, <1>5, <1>6, <1>7, <1>8, <1>9, <1>10, <1>11 DEF WatcherStep

(* A step of an operator's call keeps the types.                           *)
LEMMA OperatorKeepsTypes ==
  ASSUME Typed, NEW o \in Operators, OperatorStep(o)
  PROVE  Typed'
<1>. o \in Procs /\ o \notin Watchers
  BY WatchAssumption DEF Procs
<1>. USE DEF Typed, TypeOK, JobInHand, Goto, storeVars, worldVars
<1>1. CASE WriteSlot(o)
  <2>1. deliverables' \in [Items \X Slots -> DeliverableRows]
    BY <1>1, UpsertType DEF WriteSlot
  <2>2. QED
    BY <1>1, <2>1 DEF WriteSlot
<1>2. CASE ResolveDone(o)
  BY <1>2, EndCallType DEF ResolveDone
<1>3. CASE RequeueSlot(o)
  <2>1. deliverables' \in [Items \X Slots -> DeliverableRows]
    BY <1>3, UpsertType DEF RequeueSlot
  <2>2. QED
    BY <1>3, <2>1 DEF RequeueSlot
<1>4. CASE RequeueClose(o)
  <2>1. quarantine' \in [Completions -> QuarantineRows]
    BY <1>4, CloseType DEF RequeueClose
  <2>2. QED
    BY <1>4, <2>1, EndCallType DEF RequeueClose
<1>5. ASSUME NEW c \in Completions, Heal(o, c) PROVE Typed'
  <2>1. quarantine[c].attached \in SUBSET Slots /\ c \in 0 .. LastCompletion
    BY DEF QuarantineRows, Completions
  <2>2. QED
    BY <1>5, <2>1 DEF Heal
<1>6. ASSUME NEW c \in Completions, Requeue(o, c) PROVE Typed'
  <2>1. Declares[c] \in SUBSET Slots /\ c \in 0 .. LastCompletion
    BY WatchAssumption DEF Completions
  <2>2. QED
    BY <1>6, <2>1 DEF Requeue
<1>7. ASSUME NEW c \in Completions, NEW attachment \in Attachments, Resolve(o, c, attachment)
      PROVE  Typed'
  <2>1. attachment \in SUBSET Slots /\ attachment # {} /\ c \in 0 .. LastCompletion
    BY WatchAssumption DEF Completions
  <2>2. quarantine' \in [Completions -> QuarantineRows]
    BY <1>7, <2>1, CloseType DEF Resolve
  <2>3. QED
    BY <1>7, <2>1, <2>2 DEF Resolve
<1>8. QED
  BY <1>1, <1>2, <1>3, <1>4, <1>5, <1>6, <1>7 DEF OperatorStep

(* So do deaths, dismissals and the world.                                 *)
LEMMA WorldKeepsTypes ==
  ASSUME Typed,
         \/ \E p \in Procs : Abort(p)
         \/ \E c \in Completions : Dismiss(c) \/ ParserFixed(c)
         \/ \E item \in Items : NameItem(item)
  PROVE  Typed'
<1>1. ASSUME NEW p \in Procs, Abort(p) PROVE Typed'
  <2>1. aborts' \in 0 .. MaxAborts
    BY <1>1, WatchAssumption DEF Abort, Typed, TypeOK
  <2>2. QED
    BY <1>1, <2>1, EndCallType DEF Abort, Typed, TypeOK, storeVars
<1>2. ASSUME NEW c \in Completions, Dismiss(c) PROVE Typed'
  <2>1. quarantine' \in [Completions -> QuarantineRows]
    BY <1>2, CloseType DEF Dismiss, Typed, TypeOK
  <2>2. QED
    BY <1>2, <2>1 DEF Dismiss, procVars, worldVars, Typed, TypeOK, JobInHand
<1>3. ASSUME NEW c \in Completions, ParserFixed(c) PROVE Typed'
  BY <1>3 DEF ParserFixed, storeVars, procVars, Typed, TypeOK, JobInHand
<1>4. ASSUME NEW item \in Items, NameItem(item) PROVE Typed'
  BY <1>4 DEF NameItem, storeVars, procVars, Typed, TypeOK, JobInHand
<1>5. QED
  BY <1>1, <1>2, <1>3, <1>4

(* Every variable keeps its type, and each process the completion that its *)
(* place in the code says it has in hand.                                  *)
THEOREM WatchTypeCorrect == Spec => [](TypeOK /\ JobInHand)
<1>1. Init => Typed
  BY WatchAssumption DEF Init, Typed, TypeOK, JobInHand, QuarantineRows, NotFiled, Nobody,
                         DeliverableRows, NotRecorded, Completions
<1>2. Typed /\ [Next]_vars => Typed'
  <2>1. Typed /\ Next => Typed'
    BY WatcherKeepsTypes, OperatorKeepsTypes, WorldKeepsTypes DEF Next
  <2>2. Typed /\ UNCHANGED vars => Typed'
    BY DEF vars, storeVars, procVars, worldVars, Typed, TypeOK, JobInHand
  <2>3. QED
    BY <2>1, <2>2
<1>3. QED
  BY <1>1, <1>2, PTL DEF Spec, Typed

-----------------------------------------------------------------------------
(* The stores only move forward: a closed row stays, a filed row stays     *)
(* filed, and a deliverable's completion time never decreases.             *)
Forward ==
  /\ \A c \in Completions :
       /\ IsClosed(quarantine[c]) => quarantine'[c] = quarantine[c]
       /\ quarantine[c].status # "none" => quarantine'[c].status # "none"
  /\ \A x \in Items \X Slots : deliverables'[x].at >= deliverables[x].at

(* The guarded close moves an open row only.                               *)
LEMMA CloseIsForward ==
  ASSUME Typed, NEW c \in Completions, NEW status \in {"resolved", "dismissed"},
         NEW attachment, NEW credit, Close(c, status, attachment, credit),
         UNCHANGED deliverables
  PROVE  Forward
<1>1. \A x \in Items \X Slots : deliverables'[x].at >= deliverables[x].at
  BY DEF Typed, TypeOK, DeliverableRows
<1>2. QED
  BY <1>1 DEF Typed, TypeOK, Close, Forward, IsClosed

(* The upsert replaces a deliverable by one at least as new.               *)
LEMMA UpsertIsForward ==
  ASSUME Typed, NEW c \in Completions, NEW slot \in Slots, NEW attachment,
         Upsert(c, slot, attachment), UNCHANGED quarantine
  PROVE  Forward
<1>1. OccurredAt[c] \in Nat /\ <<ItemOf[c], slot>> \in Items \X Slots
  BY WatchAssumption
<1>2. ASSUME NEW x \in Items \X Slots
      PROVE  deliverables'[x].at >= deliverables[x].at
  <2>1. deliverables[x].at \in Nat
    BY DEF Typed, TypeOK, DeliverableRows
  <2>2. CASE x = <<ItemOf[c], slot>> /\ deliverables[x].at <= OccurredAt[c]
    BY <1>1, <2>1, <2>2 DEF Typed, TypeOK, Upsert
  <2>3. CASE ~(x = <<ItemOf[c], slot>> /\ deliverables[x].at <= OccurredAt[c])
    BY <2>1, <2>3 DEF Typed, TypeOK, Upsert
  <2>4. QED
    BY <2>2, <2>3
<1>3. QED
  BY <1>2 DEF Forward

(* A step that leaves the stores alone moves nothing.                      *)
LEMMA QuietIsForward ==
  ASSUME Typed, UNCHANGED storeVars
  PROVE  Forward
  BY DEF Typed, TypeOK, DeliverableRows, storeVars, Forward

(* Every step of the system moves the stores forward.                      *)
LEMMA StepIsForward ==
  ASSUME Typed, Next
  PROVE  Forward
<1>1. ASSUME NEW w \in Watchers, WatcherStep(w) PROVE Forward
  <2>. w \in Procs
    BY DEF Procs
  <2>1. CASE \/ StartPass(w) \/ Pull(w) \/ FinishPass(w) \/ NotMinted(w) \/ Classify(w)
             \/ CheckSettled(w) \/ MintHalf(w) \/ Ack(w)
    BY <2>1, QuietIsForward DEF StartPass, Pull, FinishPass, NotMinted, Classify,
             CheckSettled, MintHalf, Ack
  <2>2. CASE FileRow(w)
    <3>1. job[w] \in Completions /\ File(job[w]) /\ UNCHANGED deliverables
      BY <2>2 DEF FileRow, Typed, JobInHand
    <3>2. \A x \in Items \X Slots : deliverables'[x].at >= deliverables[x].at
      BY <3>1 DEF Typed, TypeOK, DeliverableRows
    <3>3. QED
      BY <3>1, <3>2 DEF File, Forward, IsClosed, Typed, TypeOK
  <2>3. CASE WriteSlot(w)
    BY <2>3, UpsertIsForward DEF WriteSlot, Typed, TypeOK, JobInHand
  <2>4. CASE SelfClose(w)
    <3>1. \A x \in Items \X Slots : deliverables'[x].at >= deliverables[x].at
      BY <2>4 DEF SelfClose, Typed, TypeOK, DeliverableRows
    <3>2. QED
      BY <2>4, <3>1 DEF SelfClose, CloseOpenForItem, Forward, IsClosed
  <2>5. QED
    BY <1>1, <2>1, <2>2, <2>3, <2>4 DEF WatcherStep
<1>2. ASSUME NEW o \in Operators, OperatorStep(o) PROVE Forward
  <2>. o \in Procs
    BY DEF Procs
  <2>1. CASE WriteSlot(o)
    BY <2>1, UpsertIsForward DEF WriteSlot, Typed, TypeOK, JobInHand
  <2>2. CASE RequeueSlot(o)
    BY <2>2, UpsertIsForward DEF RequeueSlot, Typed, TypeOK, JobInHand
  <2>3. CASE RequeueClose(o)
    BY <2>3, CloseIsForward DEF RequeueClose, Typed, JobInHand
  <2>4. CASE \E c \in Completions : \E attachment \in Attachments : Resolve(o, c, attachment)
    BY <2>4, CloseIsForward DEF Resolve
  <2>5. CASE ResolveDone(o) \/ \E c \in Completions : Heal(o, c) \/ Requeue(o, c)
    BY <2>5, QuietIsForward DEF ResolveDone, Heal, Requeue, storeVars
  <2>6. QED
    BY <1>2, <2>1, <2>2, <2>3, <2>4, <2>5 DEF OperatorStep
<1>3. ASSUME NEW c \in Completions, Dismiss(c) PROVE Forward
  BY <1>3, CloseIsForward DEF Dismiss
<1>4. CASE \/ \E p \in Procs : Abort(p)
           \/ \E c \in Completions : ParserFixed(c)
           \/ \E item \in Items : NameItem(item)
  BY <1>4, QuietIsForward DEF Abort, ParserFixed, NameItem
<1>5. QED
  BY <1>1, <1>2, <1>3, <1>4 DEF Next

(* A closed row is a decision: no re-delivery, requeue, racing verb or     *)
(* self-close reopens or rewrites it.                                      *)
THEOREM ClosedRowsStayClosed == Spec => ClosedRowsAreSettled
<1>1. Typed /\ [Next]_vars =>
        [\A c \in Completions : IsClosed(quarantine[c]) => quarantine'[c] = quarantine[c]]_quarantine
  <2>1. Typed /\ Next => \A c \in Completions :
          IsClosed(quarantine[c]) => quarantine'[c] = quarantine[c]
    BY StepIsForward DEF Forward
  <2>2. UNCHANGED vars => UNCHANGED quarantine
    BY DEF vars, storeVars
  <2>3. QED
    BY <2>1, <2>2
<1>2. Spec => []Typed
  BY WatchTypeCorrect DEF Typed
<1>3. QED
  BY <1>1, <1>2, PTL DEF Spec, ClosedRowsAreSettled

(* So what was recorded, observed or accounted for stays so.               *)
LEMMA RecordedStays ==
  ASSUME Typed, Forward, Typed', NEW c \in Completions, NEW S \in SUBSET Slots, Recorded(c, S)
  PROVE  Recorded(c, S)'
<1>1. SUFFICES ASSUME NEW slot \in S
      PROVE  deliverables'[<<ItemOf[c], slot>>].at >= OccurredAt[c]
  BY DEF Recorded
<1>2. <<ItemOf[c], slot>> \in Items \X Slots /\ OccurredAt[c] \in Nat
  BY WatchAssumption
<1>3. deliverables[<<ItemOf[c], slot>>].at \in Nat /\ deliverables'[<<ItemOf[c], slot>>].at \in Nat
  BY <1>2 DEF Typed, TypeOK, DeliverableRows
<1>4. QED
  BY <1>2, <1>3 DEF Recorded, Forward

(* Nothing is owed for the completion, or it was observed.                 *)
Accounted(c) == ItemOf[c] \in NamedAtStart => Observed(c)

(* So does an account.                                                     *)
LEMMA AccountedStays ==
  ASSUME Typed, Forward, Typed', NEW c \in Completions, Accounted(c)
  PROVE  Accounted(c)'
<1>1. Declares[c] \in SUBSET Slots
  BY WatchAssumption
<1>2. QED
  BY <1>1, RecordedStays DEF Accounted, Observed, Forward

-----------------------------------------------------------------------------
(* The attachment written is the one that closed the row.                  *)

WonBy(attachment) == [status |-> "resolved", attached |-> attachment, closedBy |-> Nobody]

AttachmentsWon ==
  /\ \A p \in Procs : source[p] # {} => quarantine[job[p]] = WonBy(source[p])
  /\ \A c \in Completions :
       quarantine[c].attached # {} => quarantine[c] = WonBy(quarantine[c].attached)
  /\ \A x \in Items \X Slots :
       deliverables[x].attachment # {} =>
         /\ deliverables[x].by \in Completions
         /\ quarantine[deliverables[x].by] = WonBy(deliverables[x].attachment)

(* A step that leaves closed rows, and takes up no attachment of its own   *)
(* nor writes one, keeps the attachments won.                              *)
LEMMA RowsKeepWinners ==
  ASSUME Typed, Forward, AttachmentsWon, Typed',
         \A p \in Procs : source'[p] # {} => source'[p] = source[p] /\ job'[p] = job[p],
         \A c \in Completions :
           quarantine'[c].attached # {} => \/ quarantine'[c] = quarantine[c]
                                           \/ quarantine'[c] = WonBy(quarantine'[c].attached),
         \A x \in Items \X Slots :
           deliverables'[x].attachment # {} =>
             \/ deliverables'[x] = deliverables[x]
             \/ /\ deliverables'[x].by \in Completions
                /\ quarantine[deliverables'[x].by] = WonBy(deliverables'[x].attachment)
  PROVE  AttachmentsWon'
<1>1. \A p \in Procs : source'[p] # {} => quarantine'[job'[p]] = WonBy(source'[p])
  <2>1. SUFFICES ASSUME NEW p \in Procs, source'[p] # {}
        PROVE  quarantine'[job'[p]] = WonBy(source'[p])
    OBVIOUS
  <2>2. /\ source'[p] = source[p] /\ job'[p] = job[p]
        /\ quarantine[job[p]] = WonBy(source[p])
    BY <2>1 DEF AttachmentsWon
  <2>3. job[p] \in Completions
    BY <2>1, <2>2 DEF Typed, JobInHand, Procs
  <2>4. QED
    BY <2>2, <2>3 DEF Forward, IsClosed, WonBy
<1>2. \A c \in Completions :
        quarantine'[c].attached # {} => quarantine'[c] = WonBy(quarantine'[c].attached)
  BY DEF AttachmentsWon
<1>3. ASSUME NEW x \in Items \X Slots, deliverables'[x].attachment # {}
      PROVE  /\ deliverables'[x].by \in Completions
             /\ quarantine'[deliverables'[x].by] = WonBy(deliverables'[x].attachment)
  <2>1. /\ deliverables'[x].by \in Completions
        /\ quarantine[deliverables'[x].by] = WonBy(deliverables'[x].attachment)
    BY <1>3 DEF AttachmentsWon
  <2>2. QED
    BY <2>1 DEF Forward, IsClosed, WonBy
<1>4. QED
  BY <1>1, <1>2, <1>3 DEF AttachmentsWon

(* A close makes a winner of nobody but the attachment it stores.          *)
LEMMA CloseMakesNoWinner ==
  ASSUME Typed, NEW c \in Completions, NEW status, NEW attachment, NEW credit,
         Close(c, status, attachment, credit),
         attachment = {} \/ [status |-> status, attached |-> attachment, closedBy |-> credit]
                             = WonBy(attachment),
         NEW d \in Completions, quarantine'[d].attached # {}
  PROVE  quarantine'[d] = quarantine[d] \/ quarantine'[d] = WonBy(quarantine'[d].attached)
  BY DEF Close, WonBy, Typed, TypeOK

(* An upsert for the winner of a row, or for no attachment, is a winner's. *)
LEMMA UpsertOfWinner ==
  ASSUME Typed, NEW c \in Completions, NEW slot, NEW attachment,
         Upsert(c, slot, attachment),
         attachment = {} \/ quarantine[c] = WonBy(attachment),
         NEW x \in Items \X Slots, deliverables'[x].attachment # {}
  PROVE  \/ deliverables'[x] = deliverables[x]
         \/ /\ deliverables'[x].by \in Completions
            /\ quarantine[deliverables'[x].by] = WonBy(deliverables'[x].attachment)
<1>1. CASE deliverables'[x] = deliverables[x]
  BY <1>1
<1>2. CASE deliverables'[x] # deliverables[x]
  <2>1. deliverables'[x] = [by |-> c, at |-> OccurredAt[c], attachment |-> attachment]
    BY <1>2 DEF Upsert, Typed, TypeOK
  <2>2. QED
    BY <2>1
<1>3. QED
  BY <1>1, <1>2

(* A pass takes no attachment up and writes none.                          *)
LEMMA WatcherKeepsWinners ==
  ASSUME Typed, Forward, AttachmentsWon, Typed', NEW w \in Watchers, WatcherStep(w)
  PROVE  AttachmentsWon'
<1>. w \in Procs
  BY DEF Procs
<1>1. \A p \in Procs : source'[p] # {} => source'[p] = source[p] /\ job'[p] = job[p]
  <2>1. source[w] = {} /\ source'[w] = {}
    BY DEF Typed, JobInHand
  <2>2. \A p \in Procs \ {w} : source'[p] = source[p] /\ job'[p] = job[p]
    BY DEF WatcherStep, StartPass, Pull, FinishPass, NotMinted, Classify, FileRow, CheckSettled,
           WriteSlot, SelfClose, MintHalf, Ack, EndCall, Typed, TypeOK
  <2>3. QED
    BY <2>1, <2>2
<1>2. ASSUME NEW c \in Completions, quarantine'[c].attached # {}
      PROVE  quarantine'[c] = quarantine[c] \/ quarantine'[c] = WonBy(quarantine'[c].attached)
  <2>1. CASE FileRow(w)
    BY <1>2, <2>1 DEF FileRow, File, NotFiled, Typed, TypeOK, JobInHand
  <2>2. CASE SelfClose(w)
    BY <1>2, <2>2 DEF SelfClose, CloseOpenForItem
  <2>3. CASE UNCHANGED quarantine
    BY <2>3
  <2>4. QED
    BY <2>1, <2>2, <2>3 DEF WatcherStep, StartPass, Pull, FinishPass, NotMinted, Classify,
         CheckSettled, WriteSlot, MintHalf, Ack, storeVars
<1>3. ASSUME NEW x \in Items \X Slots, deliverables'[x].attachment # {}
      PROVE  \/ deliverables'[x] = deliverables[x]
             \/ /\ deliverables'[x].by \in Completions
                /\ quarantine[deliverables'[x].by] = WonBy(deliverables'[x].attachment)
  <2>1. CASE WriteSlot(w)
    <3>1. PICK slot \in todo[w] : Upsert(job[w], slot, source[w])
      BY <2>1 DEF WriteSlot
    <3>2. job[w] \in Completions /\ source[w] = {}
      BY <2>1 DEF WriteSlot, Typed, JobInHand
    <3>3. QED
      BY <1>3, <3>1, <3>2, UpsertOfWinner
  <2>2. CASE UNCHANGED deliverables
    BY <2>2
  <2>3. QED
    BY <2>1, <2>2 DEF WatcherStep, StartPass, Pull, FinishPass, NotMinted, Classify,
         CheckSettled, FileRow, SelfClose, MintHalf, Ack, storeVars
<1>4. QED
  BY <1>1, <1>2, <1>3, RowsKeepWinners

(* An operator who takes a row up, or closes one, has its attachment.      *)
LEMMA OperatorKeepsWinners ==
  ASSUME Typed, Forward, AttachmentsWon, Typed', NEW o \in Operators, OperatorStep(o)
  PROVE  AttachmentsWon'
<1>. o \in Procs
  BY DEF Procs
<1>. DEFINE SourcesKept ==
              \A p \in Procs : source'[p] # {} => source'[p] = source[p] /\ job'[p] = job[p]
            WinnersClose ==
              \A c \in Completions :
                quarantine'[c].attached # {} => \/ quarantine'[c] = quarantine[c]
                                                \/ quarantine'[c] = WonBy(quarantine'[c].attached)
            WinnersWrite ==
              \A x \in Items \X Slots :
                deliverables'[x].attachment # {} =>
                  \/ deliverables'[x] = deliverables[x]
                  \/ /\ deliverables'[x].by \in Completions
                     /\ quarantine[deliverables'[x].by] = WonBy(deliverables'[x].attachment)
<1>. HIDE DEF SourcesKept, WinnersClose, WinnersWrite
<1>0. SourcesKept /\ WinnersClose /\ WinnersWrite => AttachmentsWon'
  BY RowsKeepWinners DEF SourcesKept, WinnersClose, WinnersWrite
<1>1. CASE WriteSlot(o)
  <2>1. PICK slot \in todo[o] : Upsert(job[o], slot, source[o])
    BY <1>1 DEF WriteSlot
  <2>2. job[o] \in Completions /\ quarantine[job[o]] = WonBy(source[o])
    BY <1>1 DEF WriteSlot, Typed, JobInHand, AttachmentsWon
  <2>3. WinnersWrite
    BY <2>1, <2>2, UpsertOfWinner DEF WinnersWrite
  <2>4. SourcesKept /\ WinnersClose
    BY <1>1 DEF WriteSlot, SourcesKept, WinnersClose
  <2>5. QED
    BY <2>3, <2>4, <1>0
<1>2. CASE RequeueSlot(o)
  <2>1. PICK slot \in todo[o] : Upsert(job[o], slot, {})
    BY <1>2 DEF RequeueSlot
  <2>2. job[o] \in Completions
    BY <1>2 DEF RequeueSlot, Typed, JobInHand
  <2>3. WinnersWrite
    BY <2>1, <2>2, UpsertOfWinner DEF WinnersWrite
  <2>4. SourcesKept /\ WinnersClose
    BY <1>2 DEF RequeueSlot, SourcesKept, WinnersClose
  <2>5. QED
    BY <2>3, <2>4, <1>0
<1>3. CASE RequeueClose(o)
  <2>1. job[o] \in Completions /\ Close(job[o], "resolved", {}, job[o])
    BY <1>3 DEF RequeueClose, Typed, JobInHand
  <2>2. WinnersClose
    BY <2>1, CloseMakesNoWinner DEF WinnersClose
  <2>3. SourcesKept /\ WinnersWrite
    BY <1>3 DEF RequeueClose, EndCall, SourcesKept, WinnersWrite, Typed, TypeOK
  <2>4. QED
    BY <2>2, <2>3, <1>0
<1>4. CASE ResolveDone(o)
  <2>1. SourcesKept /\ WinnersClose /\ WinnersWrite
    BY <1>4 DEF ResolveDone, EndCall, storeVars, SourcesKept, WinnersClose, WinnersWrite,
                Typed, TypeOK
  <2>2. QED
    BY <2>1, <1>0
<1>5. ASSUME NEW c \in Completions, Requeue(o, c) PROVE AttachmentsWon'
  <2>1. source[o] = {} /\ source' = source /\ \A p \in Procs \ {o} : job'[p] = job[p]
    BY <1>5 DEF Requeue, Typed, TypeOK, JobInHand
  <2>2. SourcesKept /\ WinnersClose /\ WinnersWrite
    BY <1>5, <2>1 DEF Requeue, storeVars, SourcesKept, WinnersClose, WinnersWrite
  <2>3. QED
    BY <2>2, <1>0
<1>6. ASSUME NEW c \in Completions, Heal(o, c) PROVE AttachmentsWon'
  <2>1. /\ source' = [source EXCEPT ![o] = quarantine[c].attached]
        /\ job' = [job EXCEPT ![o] = c]
        /\ quarantine[c] = WonBy(quarantine[c].attached)
        /\ UNCHANGED storeVars
    BY <1>6 DEF Heal, AttachmentsWon
  <2>2. \A p \in Procs : source'[p] # {} => quarantine'[job'[p]] = WonBy(source'[p])
    BY <2>1 DEF storeVars, AttachmentsWon, Typed, TypeOK
  <2>3. QED
    BY <2>1, <2>2 DEF storeVars, AttachmentsWon
<1>7. ASSUME NEW c \in Completions, NEW attachment \in Attachments, Resolve(o, c, attachment)
      PROVE  AttachmentsWon'
  <2>1. /\ quarantine[c].status = "open"
        /\ Close(c, "resolved", attachment, Nobody)
        /\ source' = [source EXCEPT ![o] = attachment]
        /\ job' = [job EXCEPT ![o] = c]
        /\ UNCHANGED deliverables
    BY <1>7 DEF Resolve
  <2>2. quarantine' = [quarantine EXCEPT ![c] = WonBy(attachment)]
    BY <2>1 DEF Close, WonBy
  <2>3. ASSUME NEW p \in Procs, source'[p] # {}
        PROVE  quarantine'[job'[p]] = WonBy(source'[p])
    <3>1. CASE p = o
      BY <2>1, <2>2, <3>1 DEF Typed, TypeOK
    <3>2. CASE p # o
      <4>1. source'[p] = source[p] /\ job'[p] = job[p]
        BY <2>1, <3>2 DEF Typed, TypeOK
      <4>2. quarantine[job[p]] = WonBy(source[p]) /\ job[p] \in Completions
        BY <2>3, <4>1 DEF AttachmentsWon, Typed, JobInHand, Procs
      <4>3. QED
        BY <4>1, <4>2 DEF Forward, IsClosed, WonBy
    <3>3. QED
      BY <3>1, <3>2
  <2>4. WinnersClose
    BY <2>1, CloseMakesNoWinner DEF WinnersClose, WonBy
  <2>5. \A d \in Completions :
          quarantine'[d].attached # {} => quarantine'[d] = WonBy(quarantine'[d].attached)
    BY <2>4 DEF WinnersClose, AttachmentsWon
  <2>6. ASSUME NEW x \in Items \X Slots, deliverables'[x].attachment # {}
        PROVE  /\ deliverables'[x].by \in Completions
               /\ quarantine'[deliverables'[x].by] = WonBy(deliverables'[x].attachment)
    <3>1. /\ deliverables'[x].by \in Completions
          /\ quarantine[deliverables'[x].by] = WonBy(deliverables'[x].attachment)
      BY <2>1, <2>6 DEF AttachmentsWon
    <3>2. QED
      BY <3>1 DEF Forward, IsClosed, WonBy
  <2>7. QED
    BY <2>3, <2>5, <2>6 DEF AttachmentsWon
<1>8. QED
  BY <1>1, <1>2, <1>3, <1>4, <1>5, <1>6, <1>7 DEF OperatorStep

(* Deaths forget attachments, dismissals attach nothing.                   *)
LEMMA WorldKeepsWinners ==
  ASSUME Typed, Forward, AttachmentsWon, Typed',
         \/ \E p \in Procs : Abort(p)
         \/ \E c \in Completions : Dismiss(c) \/ ParserFixed(c)
         \/ \E item \in Items : NameItem(item)
  PROVE  AttachmentsWon'
<1>1. ASSUME NEW p \in Procs, Abort(p) PROVE AttachmentsWon'
  <2>1. \A r \in Procs : source'[r] # {} => source'[r] = source[r] /\ job'[r] = job[r]
    BY <1>1 DEF Abort, EndCall, Typed, TypeOK
  <2>2. UNCHANGED storeVars
    BY <1>1 DEF Abort
  <2>3. QED
    BY <2>1, <2>2, RowsKeepWinners DEF storeVars
<1>2. ASSUME NEW c \in Completions, Dismiss(c) PROVE AttachmentsWon'
  <2>1. Close(c, "dismissed", {}, Nobody) /\ UNCHANGED <<deliverables, procVars>>
    BY <1>2 DEF Dismiss
  <2>2. \A d \in Completions : quarantine'[d].attached # {} =>
          quarantine'[d] = quarantine[d] \/ quarantine'[d] = WonBy(quarantine'[d].attached)
    BY <2>1, CloseMakesNoWinner
  <2>3. QED
    BY <2>1, <2>2, RowsKeepWinners DEF procVars
<1>3. CASE (\E c \in Completions : ParserFixed(c)) \/ (\E item \in Items : NameItem(item))
  BY <1>3 DEF ParserFixed, NameItem, storeVars, procVars, AttachmentsWon
<1>4. QED
  BY <1>1, <1>2, <1>3

(* Of operators racing to resolve one row, only the attachment that closed *)
(* it is ever written: the loser's never touches the deliverable ledger.   *)
THEOREM LosersWriteNothing == Spec => []OnlyTheWinnersAttachment
<1>1. Init => AttachmentsWon
  BY WatchAssumption DEF Init, AttachmentsWon, NotFiled, NotRecorded
<1>2. Typed /\ Typed' /\ AttachmentsWon /\ [Next]_vars => AttachmentsWon'
  <2>1. Typed /\ Typed' /\ AttachmentsWon /\ Next => AttachmentsWon'
    BY StepIsForward, WatcherKeepsWinners, OperatorKeepsWinners, WorldKeepsWinners DEF Next
  <2>2. AttachmentsWon /\ UNCHANGED vars => AttachmentsWon'
    BY DEF vars, storeVars, procVars, AttachmentsWon
  <2>3. QED
    BY <2>1, <2>2
<1>3. AttachmentsWon => OnlyTheWinnersAttachment
  BY DEF AttachmentsWon, OnlyTheWinnersAttachment, WonBy
<1>4. Spec => []Typed
  BY WatchTypeCorrect DEF Typed
<1>5. QED
  BY <1>1, <1>2, <1>3, <1>4, PTL DEF Spec

-----------------------------------------------------------------------------
(* A declaration's rows are closed over after its deliverables stand.      *)

(* A process that writes a completion's own declaration.                   *)
WritesOwn(p) == pc[p] = "requeue" \/ (pc[p] = "write" /\ p \in Watchers)

(* What such a process is done with is recorded already.                   *)
Written(p) ==
  /\ Declares[job[p]] # {}
  /\ Recorded(job[p], Declares[job[p]] \ todo[p])

WrittenSoFar == \A p \in Procs : WritesOwn(p) => Written(p)

(* What is written stays so while the process does something else.         *)
LEMMA WrittenStays ==
  ASSUME Typed, Typed', Forward, NEW p \in Procs, WritesOwn(p), Written(p),
         job'[p] = job[p], todo'[p] = todo[p]
  PROVE  Written(p)'
<1>1. job[p] \in Completions
  BY DEF WritesOwn, Typed, JobInHand
<1>2. Declares[job[p]] \ todo[p] \in SUBSET Slots
  BY <1>1, WatchAssumption
<1>3. \A slot \in Declares[job[p]] \ todo[p] :
        deliverables'[<<ItemOf[job[p]], slot>>].at >= OccurredAt[job[p]]
  BY <1>1, <1>2, RecordedStays DEF Recorded, Written
<1>4. QED
  BY <1>3 DEF Recorded, Written

(* Writing one slot of the declaration adds it to what is recorded.        *)
LEMMA WriteRecords ==
  ASSUME Typed, Typed', Forward, NEW c \in Completions, NEW slot \in Slots,
         NEW attachment, Upsert(c, slot, attachment),
         NEW S \in SUBSET Slots, Recorded(c, S)
  PROVE  \A s \in S \cup {slot} : deliverables'[<<ItemOf[c], s>>].at >= OccurredAt[c]
<1>1. \A s \in S : deliverables'[<<ItemOf[c], s>>].at >= OccurredAt[c]
  BY RecordedStays DEF Recorded
<1>2. <<ItemOf[c], slot>> \in Items \X Slots /\ OccurredAt[c] \in Nat
  BY WatchAssumption
<1>3. deliverables'[<<ItemOf[c], slot>>].at >= OccurredAt[c]
  <2>1. deliverables[<<ItemOf[c], slot>>].at \in Nat
    BY <1>2 DEF Typed, TypeOK, DeliverableRows
  <2>2. CASE deliverables[<<ItemOf[c], slot>>].at <= OccurredAt[c]
    BY <1>2, <2>2 DEF Upsert, Typed, TypeOK
  <2>3. CASE ~(deliverables[<<ItemOf[c], slot>>].at <= OccurredAt[c])
    BY <1>2, <2>1, <2>3 DEF Upsert
  <2>4. QED
    BY <2>2, <2>3
<1>4. QED
  BY <1>1, <1>3

(* A step of one process keeps what the others have written.               *)
LEMMA OthersKeepWritten ==
  ASSUME Typed, Typed', Forward, WrittenSoFar, NEW p \in Procs,
         \A r \in Procs \ {p} : pc'[r] = pc[r] /\ job'[r] = job[r] /\ todo'[r] = todo[r],
         WritesOwn(p)' => Written(p)'
  PROVE  WrittenSoFar'
<1>1. ASSUME NEW r \in Procs \ {p}, WritesOwn(r)' PROVE Written(r)'
  <2>1. WritesOwn(r) /\ Written(r)
    BY <1>1 DEF WritesOwn, WrittenSoFar
  <2>2. QED
    BY <2>1, WrittenStays
<1>2. QED
  BY <1>1 DEF WrittenSoFar

(* Writing a slot keeps the account of what is written.                    *)
LEMMA SlotKeepsWritten ==
  ASSUME Typed, Typed', Forward, WrittenSoFar, NEW p \in Procs, WritesOwn(p),
         NEW slot \in todo[p], NEW attachment, Upsert(job[p], slot, attachment),
         UNCHANGED <<pc, job>>, todo' = [todo EXCEPT ![p] = @ \ {slot}]
  PROVE  WrittenSoFar'
<1>1. job[p] \in Completions /\ Written(p)
  BY DEF WrittenSoFar, WritesOwn, Typed, JobInHand
<1>2. slot \in Slots /\ Declares[job[p]] \ todo[p] \in SUBSET Slots
  BY <1>1, WatchAssumption DEF Typed, TypeOK
<1>3. \A s \in (Declares[job[p]] \ todo[p]) \cup {slot} :
        deliverables'[<<ItemOf[job[p]], s>>].at >= OccurredAt[job[p]]
  BY <1>1, <1>2, WriteRecords DEF Written
<1>4. todo'[p] = todo[p] \ {slot} /\ \A r \in Procs \ {p} : todo'[r] = todo[r]
  BY DEF Typed, TypeOK
<1>5. Written(p)'
  BY <1>1, <1>3, <1>4 DEF Written, Recorded
<1>6. QED
  BY <1>4, <1>5, OthersKeepWritten

(* No step makes a process forget what it has still to write.              *)
LEMMA StepKeepsWritten ==
  ASSUME Typed, Typed', Forward, WrittenSoFar, Next
  PROVE  WrittenSoFar'
<1>. USE DEF Goto, Typed, TypeOK
<1>1. ASSUME NEW w \in Watchers, WatcherStep(w) PROVE WrittenSoFar'
  <2>. w \in Procs
    BY DEF Procs
  <2>1. CASE WriteSlot(w)
    <3>1. PICK slot \in todo[w] : /\ Upsert(job[w], slot, source[w])
                                  /\ todo' = [todo EXCEPT ![w] = @ \ {slot}]
      BY <2>1 DEF WriteSlot
    <3>2. WritesOwn(w) /\ UNCHANGED <<pc, job>>
      BY <2>1 DEF WriteSlot, WritesOwn
    <3>3. QED
      BY <3>1, <3>2, SlotKeepsWritten
  <2>2. CASE CheckSettled(w)
    <3>1. \A r \in Procs \ {w} : pc'[r] = pc[r] /\ job'[r] = job[r] /\ todo'[r] = todo[r]
      BY <2>2 DEF CheckSettled
    <3>2. ASSUME WritesOwn(w)' PROVE Written(w)'
      <4>1. todo'[w] = Declares[job[w]] /\ job'[w] = job[w] /\ Declares[job[w]] # {}
        BY <2>2, <3>2 DEF CheckSettled, WritesOwn, JobInHand
      <4>2. QED
        BY <4>1 DEF Written, Recorded
    <3>3. QED
      BY <3>1, <3>2, OthersKeepWritten
  <2>3. CASE \/ StartPass(w) \/ Pull(w) \/ FinishPass(w) \/ NotMinted(w) \/ Classify(w)
             \/ FileRow(w) \/ SelfClose(w) \/ MintHalf(w) \/ Ack(w)
    <3>1. \A r \in Procs \ {w} : pc'[r] = pc[r] /\ job'[r] = job[r] /\ todo'[r] = todo[r]
      BY <2>3 DEF StartPass, Pull, FinishPass, NotMinted, Classify, FileRow, SelfClose,
                  MintHalf, Ack, EndCall
    <3>2. ~WritesOwn(w)'
      BY <2>3 DEF StartPass, Pull, FinishPass, NotMinted, Classify, FileRow, SelfClose,
                  MintHalf, Ack, EndCall, WritesOwn
    <3>3. QED
      BY <3>1, <3>2, OthersKeepWritten
  <2>4. QED
    BY <1>1, <2>1, <2>2, <2>3 DEF WatcherStep
<1>2. ASSUME NEW o \in Operators, OperatorStep(o) PROVE WrittenSoFar'
  <2>. o \in Procs /\ o \notin Watchers
    BY WatchAssumption DEF Procs
  <2>1. CASE RequeueSlot(o)
    <3>1. PICK slot \in todo[o] : /\ Upsert(job[o], slot, {})
                                  /\ todo' = [todo EXCEPT ![o] = @ \ {slot}]
      BY <2>1 DEF RequeueSlot
    <3>2. WritesOwn(o) /\ UNCHANGED <<pc, job>>
      BY <2>1 DEF RequeueSlot, WritesOwn
    <3>3. QED
      BY <3>1, <3>2, SlotKeepsWritten
  <2>2. ASSUME NEW c \in Completions, Requeue(o, c) PROVE WrittenSoFar'
    <3>1. \A r \in Procs \ {o} : pc'[r] = pc[r] /\ job'[r] = job[r] /\ todo'[r] = todo[r]
      BY <2>2 DEF Requeue
    <3>2. todo'[o] = Declares[c] /\ job'[o] = c /\ Declares[c] # {}
      BY <2>2 DEF Requeue, Parses
    <3>3. Written(o)'
      BY <3>2 DEF Written, Recorded
    <3>4. QED
      BY <3>1, <3>3, OthersKeepWritten
  <2>3. CASE \/ WriteSlot(o) \/ ResolveDone(o) \/ RequeueClose(o)
             \/ \E c \in Completions :
                  Heal(o, c) \/ \E attachment \in Attachments : Resolve(o, c, attachment)
    <3>1. \A r \in Procs \ {o} : pc'[r] = pc[r] /\ job'[r] = job[r] /\ todo'[r] = todo[r]
      BY <2>3 DEF WriteSlot, ResolveDone, RequeueClose, Heal, Resolve, EndCall
    <3>2. ~WritesOwn(o)'
      BY <2>3 DEF WriteSlot, ResolveDone, RequeueClose, Heal, Resolve, EndCall, WritesOwn
    <3>3. QED
      BY <3>1, <3>2, OthersKeepWritten
  <2>4. QED
    BY <1>2, <2>1, <2>2, <2>3 DEF OperatorStep
<1>3. ASSUME NEW p \in Procs, Abort(p) PROVE WrittenSoFar'
  <2>1. \A r \in Procs \ {p} : pc'[r] = pc[r] /\ job'[r] = job[r] /\ todo'[r] = todo[r]
    BY <1>3 DEF Abort, EndCall
  <2>2. ~WritesOwn(p)'
    BY <1>3 DEF Abort, EndCall, WritesOwn
  <2>3. QED
    BY <2>1, <2>2, OthersKeepWritten
<1>4. CASE \/ \E c \in Completions : Dismiss(c) \/ ParserFixed(c)
           \/ \E item \in Items : NameItem(item)
  <2>1. UNCHANGED <<pc, job, todo>>
    BY <1>4 DEF Dismiss, ParserFixed, NameItem, procVars
  <2>2. ASSUME NEW p \in Procs, WritesOwn(p)' PROVE Written(p)'
    BY <2>1, <2>2, WrittenStays DEF WrittenSoFar, WritesOwn
  <2>3. QED
    BY <2>2 DEF WrittenSoFar
<1>5. QED
  BY <1>1, <1>2, <1>3, <1>4 DEF Next

(* One row's credit: a completion of its item whose deliverables stand.    *)
CreditIsDue(c) ==
  LET credit == quarantine[c].closedBy
  IN credit # Nobody => /\ ItemOf[credit] = ItemOf[c]
                        /\ Recorded(credit, Declares[credit])

(* A credit that stays is still due.                                       *)
LEMMA CreditStaysDue ==
  ASSUME Typed, Typed', Forward, NEW c \in Completions, CreditIsDue(c),
         quarantine'[c].closedBy = quarantine[c].closedBy
  PROVE  CreditIsDue(c)'
<1>1. quarantine[c].closedBy # Nobody => quarantine[c].closedBy \in Completions
  BY DEF Typed, TypeOK, QuarantineRows
<1>2. ASSUME NEW d \in Completions, Recorded(d, Declares[d])
      PROVE  Recorded(d, Declares[d])'
  <2>1. Declares[d] \in SUBSET Slots
    BY WatchAssumption
  <2>2. QED
    BY <1>2, <2>1, RecordedStays
<1>3. QED
  BY <1>1, <1>2 DEF CreditIsDue, Recorded

(* A process that has written all of its completion's declaration may be   *)
(* credited with any row of the completion's item.                         *)
LEMMA WriterMayBeCredited ==
  ASSUME Typed, Typed', Forward, WrittenSoFar, NEW p \in Procs, WritesOwn(p), todo[p] = {},
         NEW c \in Completions, ItemOf[job[p]] = ItemOf[c],
         quarantine'[c].closedBy = job[p]
  PROVE  CreditIsDue(c)'
<1>1. job[p] \in Completions /\ Recorded(job[p], Declares[job[p]] \ {})
  BY DEF WrittenSoFar, Written, WritesOwn, Typed, JobInHand
<1>2. Declares[job[p]] \in SUBSET Slots /\ Declares[job[p]] \ {} = Declares[job[p]]
  BY <1>1, WatchAssumption
<1>3. \A slot \in Declares[job[p]] :
        deliverables'[<<ItemOf[job[p]], slot>>].at >= OccurredAt[job[p]]
  BY <1>1, <1>2, RecordedStays DEF Recorded
<1>4. QED
  BY <1>3 DEF CreditIsDue, Recorded

(* Every step keeps every credit due.                                      *)
LEMMA StepKeepsCredit ==
  ASSUME Typed, Typed', Forward, WrittenSoFar, \A c \in Completions : CreditIsDue(c), Next,
         NEW c \in Completions
  PROVE  CreditIsDue(c)'
<1>. USE DEF Typed, TypeOK
<1>1. CASE quarantine'[c].closedBy = quarantine[c].closedBy
  BY <1>1, CreditStaysDue
<1>2. CASE quarantine'[c].closedBy = Nobody
  BY <1>2 DEF CreditIsDue
<1>3. ASSUME NEW w \in Watchers, WatcherStep(w), quarantine'[c].closedBy # quarantine[c].closedBy
      PROVE  CreditIsDue(c)'
  <2>1. CASE SelfClose(w)
    <3>1. ItemOf[c] = ItemOf[job[w]] /\ quarantine'[c].closedBy = job[w]
      BY <1>3, <2>1 DEF SelfClose, CloseOpenForItem
    <3>2. WritesOwn(w) /\ todo[w] = {} /\ w \in Procs
      BY <2>1 DEF SelfClose, WritesOwn, Procs
    <3>3. QED
      BY <3>1, <3>2, WriterMayBeCredited
  <2>2. CASE FileRow(w)
    <3>1. quarantine'[c].closedBy \in {Nobody, quarantine[c].closedBy}
      BY <2>2 DEF FileRow, File, NotFiled
    <3>2. QED
      BY <1>2, <1>3, <3>1
  <2>3. CASE UNCHANGED quarantine
    BY <1>3, <2>3
  <2>4. QED
    BY <1>3, <2>1, <2>2, <2>3 DEF WatcherStep, StartPass, Pull, FinishPass, NotMinted,
         Classify, CheckSettled, WriteSlot, MintHalf, Ack, storeVars
<1>4. ASSUME NEW o \in Operators, OperatorStep(o), quarantine'[c].closedBy # quarantine[c].closedBy
      PROVE  CreditIsDue(c)'
  <2>1. CASE RequeueClose(o)
    <3>1. c = job[o] /\ quarantine'[c].closedBy = job[o]
      BY <1>4, <2>1 DEF RequeueClose, Close
    <3>2. WritesOwn(o) /\ todo[o] = {} /\ o \in Procs
      BY <2>1 DEF RequeueClose, WritesOwn, Procs
    <3>3. QED
      BY <3>1, <3>2, WriterMayBeCredited
  <2>2. ASSUME NEW d \in Completions, NEW attachment \in Attachments, Resolve(o, d, attachment)
        PROVE  CreditIsDue(c)'
    <3>1. quarantine'[c].closedBy \in {Nobody, quarantine[c].closedBy}
      BY <2>2 DEF Resolve, Close
    <3>2. QED
      BY <1>2, <1>4, <3>1
  <2>3. CASE UNCHANGED quarantine
    BY <1>4, <2>3
  <2>4. QED
    BY <1>4, <2>1, <2>2, <2>3 DEF OperatorStep, WriteSlot, ResolveDone, RequeueSlot, Heal,
         Requeue, storeVars
<1>5. ASSUME NEW d \in Completions, Dismiss(d) PROVE CreditIsDue(c)'
  <2>1. quarantine'[c].closedBy \in {Nobody, quarantine[c].closedBy}
    BY <1>5 DEF Dismiss, Close
  <2>2. QED
    BY <1>1, <1>2, <2>1
<1>6. CASE \/ \E p \in Procs : Abort(p)
           \/ \E d \in Completions : ParserFixed(d)
           \/ \E item \in Items : NameItem(item)
  BY <1>1, <1>6 DEF Abort, ParserFixed, NameItem, storeVars
<1>7. QED
  BY <1>1, <1>3, <1>4, <1>5, <1>6 DEF Next

(* Closing a row is never ahead of the facts it is closed over.            *)
ClosedOver == WrittenSoFar /\ \A c \in Completions : CreditIsDue(c)

(* A pass or a requeue closes rows only when all that the completion it    *)
(* credits declares, or something newer, is in the deliverable ledger.     *)
THEOREM ClosesFollowWrites == Spec => [](WrittenSoFar /\ ClosedOverRecordedFacts)
<1>1. Init => ClosedOver
  BY DEF Init, ClosedOver, WrittenSoFar, WritesOwn, CreditIsDue, NotFiled
<1>2. Typed /\ Typed' /\ ClosedOver /\ [Next]_vars => ClosedOver'
  <2>1. Typed /\ Typed' /\ ClosedOver /\ Next => ClosedOver'
    BY StepIsForward, StepKeepsWritten, StepKeepsCredit DEF ClosedOver
  <2>2. ClosedOver /\ UNCHANGED vars => ClosedOver'
    BY DEF vars, storeVars, procVars, ClosedOver, WrittenSoFar, WritesOwn, Written, Recorded,
           CreditIsDue
  <2>3. QED
    BY <2>1, <2>2
<1>3. ClosedOver => WrittenSoFar /\ ClosedOverRecordedFacts
  BY DEF ClosedOver, CreditIsDue, ClosedOverRecordedFacts
<1>4. Spec => []Typed
  BY WatchTypeCorrect DEF Typed
<1>5. QED
  BY <1>1, <1>2, <1>3, <1>4, PTL DEF Spec

-----------------------------------------------------------------------------
(* Every acked completion was observed.                                    *)

(* A pass has accounted for every completion it left behind, and for the   *)
(* one it has in hand once it is through watching it.                      *)
PassAccounts(w) ==
  pc[w] # "idle" =>
    \A c \in 1 .. job[w] : c < job[w] \/ pc[w] \in {"next", "mint", "ack"} => Accounted(c)

AllAccounted ==
  /\ NamedAtStart \subseteq named
  /\ \A c \in 1 .. cursor : Accounted(c)
  /\ \A w \in Watchers : PassAccounts(w)

(* The steps that are through watching a completion have accounted for it. *)
LEMMA WatchAccounts ==
  ASSUME Typed, Typed', Forward, WrittenSoFar, AllAccounted, NEW w \in Watchers,
         pc[w] \in {"watch", "file", "check", "write"}, pc'[w] = "mint", WatcherStep(w)
  PROVE  Accounted(job[w])'
<1>. w \in Procs /\ job[w] \in Completions /\ job'[w] = job[w]
  BY DEF Procs, Typed, TypeOK, JobInHand, WatcherStep, StartPass, Pull, FinishPass, NotMinted,
         Classify, FileRow, CheckSettled, WriteSlot, SelfClose, MintHalf, Ack, EndCall, Goto
<1>1. CASE NotMinted(w)
  BY <1>1 DEF NotMinted, AllAccounted, Accounted
<1>2. CASE FileRow(w)
  <2>1. quarantine'[job[w]].status # "none"
    BY <1>2 DEF FileRow, File, NotFiled, Typed, TypeOK
  <2>2. QED
    BY <2>1 DEF Accounted, Observed
<1>3. CASE CheckSettled(w)
  <2>1. quarantine'[job[w]].status # "none"
    BY <1>3 DEF CheckSettled, Goto, IsClosed, storeVars, Typed, TypeOK
  <2>2. QED
    BY <2>1 DEF Accounted, Observed
<1>4. CASE SelfClose(w)
  <2>1. Declares[job[w]] # {} /\ Recorded(job[w], Declares[job[w]] \ {})
    BY <1>4 DEF SelfClose, WrittenSoFar, WritesOwn, Written
  <2>2. Declares[job[w]] \in SUBSET Slots /\ Declares[job[w]] \ {} = Declares[job[w]]
    BY WatchAssumption
  <2>3. \A slot \in Declares[job[w]] :
          deliverables'[<<ItemOf[job[w]], slot>>].at >= OccurredAt[job[w]]
    BY <2>1, <2>2, RecordedStays DEF Recorded
  <2>4. QED
    BY <2>1, <2>3 DEF Accounted, Observed, Recorded
<1>5. QED
  BY <1>1, <1>2, <1>3, <1>4 DEF WatcherStep, StartPass, Pull, FinishPass, Classify,
       WriteSlot, MintHalf, Ack, EndCall, Goto, Typed, TypeOK

(* A step of a pass keeps its own account.                                 *)
LEMMA PassKeepsAccount ==
  ASSUME Typed, Typed', Forward, WrittenSoFar, AllAccounted, NEW w \in Watchers, WatcherStep(w)
  PROVE  PassAccounts(w)'
<1>. w \in Procs /\ job[w] \in Nat /\ cursor \in Nat
  BY WatchAssumption DEF Procs, Typed, TypeOK
<1>0. (1 .. job[w]) \cup (1 .. cursor) \subseteq Completions
  BY WatchAssumption DEF Procs, Typed, TypeOK, Completions
<1>. USE DEF Goto, Typed, TypeOK
<1>1. \A c \in Completions : Accounted(c) => Accounted(c)'
  BY AccountedStays
<1>2. CASE StartPass(w)
  <2>1. job'[w] = cursor
    BY <1>2 DEF StartPass
  <2>2. \A c \in 1 .. cursor : c \in Completions /\ Accounted(c)
    BY <1>0 DEF AllAccounted
  <2>3. QED
    BY <1>1, <2>1, <2>2 DEF PassAccounts
<1>3. CASE Pull(w)
  <2>1. job'[w] = job[w] + 1 /\ pc'[w] = "watch" /\ pc[w] = "next"
    BY <1>3 DEF Pull
  <2>2. \A c \in 1 .. job[w] : c \in Completions /\ Accounted(c)
    BY <1>0, <2>1 DEF AllAccounted, PassAccounts
  <2>3. \A c \in 1 .. (job[w] + 1) : c < job[w] + 1 => c \in 1 .. job[w]
    OBVIOUS
  <2>4. QED
    BY <1>1, <2>1, <2>2, <2>3 DEF PassAccounts
<1>4. CASE EndCall(w)
  BY <1>4 DEF EndCall, PassAccounts
<1>5. CASE \/ NotMinted(w) \/ Classify(w) \/ FileRow(w) \/ CheckSettled(w)
           \/ WriteSlot(w) \/ SelfClose(w)
  <2>1. /\ job'[w] = job[w] /\ pc[w] \in {"watch", "file", "check", "write"}
        /\ pc'[w] \in {"file", "check", "write", "mint"}
    BY <1>5 DEF NotMinted, Classify, FileRow, CheckSettled, WriteSlot, SelfClose
  <2>2. \A c \in 1 .. job[w] : c < job[w] => c \in Completions /\ Accounted(c)
    BY <1>0, <2>1 DEF AllAccounted, PassAccounts
  <2>3. pc'[w] = "mint" => Accounted(job[w])'
    BY <2>1, WatchAccounts
  <2>4. \A c \in 1 .. job[w] : c < job[w] \/ c = job[w]
    <3>1. \A n \in Nat : \A c \in 1 .. n : c < n \/ c = n
      OBVIOUS
    <3>2. job[w] \in Nat
      OBVIOUS
    <3>3. QED
      BY <3>1, <3>2
  <2>5. QED
    BY <1>1, <2>1, <2>2, <2>3, <2>4 DEF PassAccounts
<1>6. CASE Ack(w) \/ (MintHalf(w) /\ ~EndCall(w))
  <2>1. job'[w] = job[w] /\ pc[w] \in {"mint", "ack"}
    BY <1>6 DEF Ack, MintHalf
  <2>2. \A c \in 1 .. job[w] : c \in Completions /\ Accounted(c)
    BY <1>0, <2>1 DEF AllAccounted, PassAccounts
  <2>3. QED
    BY <1>1, <2>1, <2>2 DEF PassAccounts
<1>7. QED
  BY <1>2, <1>3, <1>4, <1>5, <1>6 DEF WatcherStep, FinishPass

(* Nobody else's step spoils it.                                           *)
LEMMA OthersKeepAccount ==
  ASSUME Typed, Typed', Forward, AllAccounted, NEW w \in Watchers,
         pc'[w] = pc[w], job'[w] = job[w]
  PROVE  PassAccounts(w)'
<1>1. job[w] \in 0 .. LastCompletion
  BY DEF Typed, TypeOK, Procs
<1>2. \A c \in 1 .. job[w] : c \in Completions
  BY <1>1, WatchAssumption DEF Completions
<1>3. QED
  BY <1>2, AccountedStays DEF AllAccounted, PassAccounts

(* The cursor moves over accounted completions only.                       *)
LEMMA CursorAccounts ==
  ASSUME Typed, Typed', Forward, AllAccounted,
         cursor' = cursor \/ \E w \in Watchers : Ack(w)
  PROVE  \A c \in 1 .. cursor' : Accounted(c)'
<1>1. ASSUME NEW c \in 1 .. cursor' PROVE c \in Completions /\ Accounted(c)
  <2>1. CASE cursor' = cursor
    BY <2>1, WatchAssumption DEF AllAccounted, Typed, TypeOK, Completions
  <2>2. ASSUME NEW w \in Watchers, Ack(w), cursor' # cursor
        PROVE  c \in Completions /\ Accounted(c)
    <3>1. pc[w] = "ack" /\ cursor' = job[w] /\ job[w] \in 0 .. LastCompletion
      BY <2>2 DEF Ack, Typed, TypeOK, Procs
    <3>2. QED
      BY <1>1, <3>1, WatchAssumption DEF AllAccounted, PassAccounts, Completions
  <2>3. QED
    BY <2>1, <2>2
<1>2. QED
  BY <1>1, AccountedStays

(* Every step keeps the accounts.                                          *)
LEMMA StepKeepsAccounts ==
  ASSUME Typed, Typed', Forward, WrittenSoFar, AllAccounted, Next
  PROVE  AllAccounted'
<1>. USE DEF Goto, Typed, TypeOK
<1>1. NamedAtStart \subseteq named'
  BY DEF Next, WatcherStep, StartPass, Pull, FinishPass, NotMinted, Classify, FileRow,
     CheckSettled, WriteSlot, SelfClose, MintHalf, Ack, OperatorStep, ResolveDone, RequeueSlot,
     RequeueClose, Heal, Requeue, Resolve, Abort, Dismiss, ParserFixed, NameItem, worldVars,
     AllAccounted
<1>2. cursor' = cursor \/ \E w \in Watchers : Ack(w)
  BY DEF Next, WatcherStep, StartPass, Pull, FinishPass, NotMinted, Classify, FileRow,
     CheckSettled, WriteSlot, SelfClose, MintHalf, OperatorStep, ResolveDone, RequeueSlot,
     RequeueClose, Heal, Requeue, Resolve, Abort, Dismiss, ParserFixed, NameItem
<1>3. ASSUME NEW w \in Watchers PROVE PassAccounts(w)'
  <2>. w \in Procs /\ w \notin Operators
    BY WatchAssumption DEF Procs
  <2>1. CASE WatcherStep(w)
    BY <2>1, PassKeepsAccount
  <2>2. ASSUME NEW v \in Watchers, WatcherStep(v), v # w PROVE PassAccounts(w)'
    <3>1. pc'[w] = pc[w] /\ job'[w] = job[w]
      BY <2>2 DEF WatcherStep, StartPass, Pull, FinishPass, NotMinted, Classify, FileRow,
         CheckSettled, WriteSlot, SelfClose, MintHalf, Ack, EndCall
    <3>2. QED
      BY <3>1, OthersKeepAccount
  <2>3. ASSUME NEW o \in Operators, OperatorStep(o) PROVE PassAccounts(w)'
    <3>1. pc'[w] = pc[w] /\ job'[w] = job[w]
      BY <2>3 DEF OperatorStep, WriteSlot, ResolveDone, RequeueSlot, RequeueClose, Heal,
         Requeue, Resolve, EndCall
    <3>2. QED
      BY <3>1, OthersKeepAccount
  <2>4. CASE Abort(w)
    BY <2>4 DEF Abort, EndCall, PassAccounts
  <2>5. ASSUME NEW p \in Procs, Abort(p), p # w PROVE PassAccounts(w)'
    <3>1. pc'[w] = pc[w] /\ job'[w] = job[w]
      BY <2>5 DEF Abort, EndCall
    <3>2. QED
      BY <3>1, OthersKeepAccount
  <2>6. CASE \/ \E c \in Completions : Dismiss(c) \/ ParserFixed(c)
             \/ \E item \in Items : NameItem(item)
    BY <2>6, OthersKeepAccount DEF Dismiss, ParserFixed, NameItem, procVars
  <2>7. QED
    BY <2>1, <2>2, <2>3, <2>4, <2>5, <2>6 DEF Next
<1>4. QED
  BY <1>1, <1>2, <1>3, CursorAccounts DEF AllAccounted

(* No completion of an item named when it completed is ever acked without  *)
(* its deliverables or a quarantine row to show for it.                    *)
THEOREM AckedMeansObserved == Spec => []AckedCompletionsAreObserved
<1>1. Init => AllAccounted
  BY DEF Init, AllAccounted, PassAccounts, Procs
<1>2. Typed /\ Typed' /\ WrittenSoFar /\ AllAccounted /\ [Next]_vars => AllAccounted'
  <2>1. Typed /\ Typed' /\ WrittenSoFar /\ AllAccounted /\ Next => AllAccounted'
    BY StepIsForward, StepKeepsAccounts
  <2>2. AllAccounted /\ UNCHANGED vars => AllAccounted'
    BY DEF vars, storeVars, procVars, worldVars, AllAccounted, PassAccounts, Accounted,
           Observed, Recorded
  <2>3. QED
    BY <2>1, <2>2
<1>3. AllAccounted => AckedCompletionsAreObserved
  BY DEF AllAccounted, Accounted, AckedCompletionsAreObserved
<1>4. Spec => []Typed
  BY WatchTypeCorrect DEF Typed
<1>5. QED
  BY <1>1, <1>2, <1>3, <1>4, ClosesFollowWrites, PTL DEF Spec

=============================================================================
