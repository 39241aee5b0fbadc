--------------------------- MODULE ProvenanceWatch ---------------------------
(***************************************************************************)
(* The provenance watch (watch.py) over its two stores, the completion     *)
(* quarantine (quarantine.py) and the deliverable ledger (deliverables.py),*)
(* with the operator verbs that close quarantine rows.  One tenant.        *)
(*                                                                         *)
(* A pass watches each completion before it evaluates and acks it; passes  *)
(* overlap, die and re-deliver.  Operators resolve, dismiss and requeue at *)
(* the same time.  Each store call is one transaction, so one step.        *)
(***************************************************************************)
EXTENDS Naturals

CONSTANTS
  Watchers,        \* intake passes
  Operators,       \* callers of the operator verbs
  LastCompletion,  \* the stream holds the completions 1 .. LastCompletion
  Items,           \* PM items this plugin minted
  Slots,           \* (channel, deliverable class) pairs
  ItemOf,          \* the item a completion completes
  OccurredAt,      \* when it was completed
  Declares,        \* the slots its provenance declares; {} when it carries none
  Attachments,     \* the declarations an operator may attach
  NamedAtStart,    \* items a created ledger row names from the start
  ReadableAtStart, \* declared provenance the deployed parser can read
  MaxAborts        \* bound: processes that die

Completions == 1 .. LastCompletion
Procs == Watchers \cup Operators

ASSUME WatchAssumption ==
  /\ Watchers \cap Operators = {}
  /\ LastCompletion \in Nat
  /\ ItemOf \in [Completions -> Items]
  /\ OccurredAt \in [Completions -> Nat \ {0}]
  /\ Declares \in [Completions -> SUBSET Slots]
  /\ Attachments \subseteq (SUBSET Slots) \ {{}}
  /\ NamedAtStart \subseteq Items
  /\ ReadableAtStart \subseteq Completions
  /\ MaxAborts \in Nat

VARIABLES
  quarantine,    \* the row of each completion
  deliverables,  \* the row of each (item, slot)
  cursor,        \* the acked position of the stream
  named,         \* items some created ledger row names
  readable,      \* completions whose declaration the deployed parser reads
  pc,            \* where each process is
  job,           \* the completion it has in hand
  todo,          \* slots of the declaration still to be written
  source,        \* the attachment being written; {} for the completion's own
  aborts

storeVars == <<quarantine, deliverables>>
procVars  == <<pc, job, todo, source>>
worldVars == <<named, readable, aborts>>
vars == <<storeVars, cursor, procVars, worldVars>>

Nobody == 0   \* the credit of a row no completion closed

(* A row: its status, the declaration an operator attached ({} for none),  *)
(* and the completion credited with closing it.                            *)
NotFiled == [status |-> "none", attached |-> {}, closedBy |-> Nobody]
QuarantineRows == [status : {"none", "open", "resolved", "dismissed"},
                   attached : SUBSET Slots, closedBy : Completions \cup {Nobody}]

(* A deliverable: the completion that produced it, when, and from which    *)
(* attachment ({} for the completion's own declaration).                   *)
NotRecorded == [by |-> Nobody, at |-> 0, attachment |-> {}]
DeliverableRows == [by : Completions \cup {Nobody}, at : Nat, attachment : SUBSET Slots]

IsClosed(row) == row.status \in {"resolved", "dismissed"}
Parses(c) == Declares[c] # {} /\ c \in readable

Goto(p, to) == pc' = [pc EXCEPT ![p] = to]

Init ==
  /\ quarantine = [c \in Completions |-> NotFiled]
  /\ deliverables = [x \in Items \X Slots |-> NotRecorded]
  /\ cursor = 0
  /\ named = NamedAtStart
  /\ readable = ReadableAtStart
  /\ pc = [p \in Procs |-> "idle"]
  /\ job = [p \in Procs |-> 0]
  /\ todo = [p \in Procs |-> {}]
  /\ source = [p \in Procs |-> {}]
  /\ aborts = 0

EndCall(p) ==
  /\ Goto(p, "idle")
  /\ job' = [job EXCEPT ![p] = 0]
  /\ todo' = [todo EXCEPT ![p] = {}]
  /\ source' = [source EXCEPT ![p] = {}]

-----------------------------------------------------------------------------
(* The stores.                                                             *)

(* INSERT ... ON CONFLICT DO NOTHING of an open row.                        *)
File(c) ==
  quarantine' = IF quarantine[c].status = "none"
                THEN [quarantine EXCEPT ![c] = [NotFiled EXCEPT !.status = "open"]]
                ELSE quarantine

(* Mistake: the close does not ask whether the row is still open.          *)
CloseUnguarded(c, status, attachment, credit) ==
  quarantine' = [quarantine EXCEPT ![c] =
                   [status |-> status, attached |-> attachment, closedBy |-> credit]]

(* The guarded close: only an open row, and never a column it has no value for. *)
Close(c, status, attachment, credit) ==
  quarantine' = IF quarantine[c].status = "open"
                THEN [quarantine EXCEPT ![c] =
                        [status |-> status, attached |-> attachment, closedBy |-> credit]]
                ELSE quarantine

(* Every open row of the item, in one guarded UPDATE.                       *)
CloseOpenForItem(item, credit) ==
  quarantine' = [c \in Completions |->
    IF quarantine[c].status = "open" /\ ItemOf[c] = item
    THEN [status |-> "resolved", attached |-> {}, closedBy |-> credit]
    ELSE quarantine[c]]

(* Mistake: the last writer wins, however old its completion.              *)
UpsertLastWriterWins(c, slot, attachment) ==
  deliverables' = [deliverables EXCEPT ![<<ItemOf[c], slot>>] =
                     [by |-> c, at |-> OccurredAt[c], attachment |-> attachment]]

(* The upsert, guarded by newest-completion-wins; an equal time re-applies. *)
Upsert(c, slot, attachment) ==
  LET x == <<ItemOf[c], slot>>
  IN deliverables' = IF deliverables[x].at <= OccurredAt[c]
                     THEN [deliverables EXCEPT ![x] =
                             [by |-> c, at |-> OccurredAt[c], attachment |-> attachment]]
                     ELSE deliverables

-----------------------------------------------------------------------------
(* The pass: pull, watch, evaluate and mint, ack.                          *)

StartPass(w) ==
  /\ pc[w] = "idle"
  /\ Goto(w, "next")
  /\ job' = [job EXCEPT ![w] = cursor]
  /\ UNCHANGED <<todo, source, storeVars, cursor, worldVars>>

(* Mistake: an off-by-one at the end of the stream.                        *)
PullPastEnd(w) ==
  /\ pc[w] = "next"
  /\ job[w] <= LastCompletion
  /\ job' = [job EXCEPT ![w] = @ + 1]
  /\ Goto(w, "watch")
  /\ UNCHANGED <<todo, source, storeVars, cursor, worldVars>>

Pull(w) ==
  /\ pc[w] = "next"
  /\ job[w] < LastCompletion
  /\ job' = [job EXCEPT ![w] = @ + 1]
  /\ Goto(w, "watch")
  /\ UNCHANGED <<todo, source, storeVars, cursor, worldVars>>

FinishPass(w) ==
  /\ pc[w] = "next"
  /\ EndCall(w)
  /\ UNCHANGED <<storeVars, cursor, worldVars>>

(* No created row names the item: somebody else's work, passed silently.   *)
NotMinted(w) ==
  /\ pc[w] = "watch"
  /\ ItemOf[job[w]] \notin named
  /\ Goto(w, "mint")
  /\ UNCHANGED <<job, todo, source, storeVars, cursor, worldVars>>

(* The declaration is missing or unreadable: the completion is quarantined. *)
Classify(w) ==
  /\ pc[w] = "watch"
  /\ ItemOf[job[w]] \in named
  /\ Goto(w, IF Parses(job[w]) THEN "check" ELSE "file")
  /\ UNCHANGED <<job, todo, source, storeVars, cursor, worldVars>>

FileRow(w) ==
  /\ pc[w] = "file"
  /\ File(job[w])
  /\ Goto(w, "mint")
  /\ UNCHANGED <<job, todo, source, deliverables, cursor, worldVars>>

(* A closed row of this completion is a settled observation: nothing to do. *)
CheckSettled(w) ==
  /\ pc[w] = "check"
  /\ IF IsClosed(quarantine[job[w]])
     THEN Goto(w, "mint") /\ UNCHANGED todo
     ELSE Goto(w, "write") /\ todo' = [todo EXCEPT ![w] = Declares[job[w]]]
  /\ UNCHANGED <<job, source, storeVars, cursor, worldVars>>

(* One upsert per declared slot, in the declaration's order, which may be  *)
(* any; a pass then closes the item's open rows, a requeue its own row, and *)
(* an attachment was closed over before it was written.                    *)
WriteSlot(p) ==
  /\ pc[p] = "write"
  /\ \E slot \in todo[p] :
       /\ Upsert(job[p], slot, source[p])
       /\ todo' = [todo EXCEPT ![p] = @ \ {slot}]
  /\ UNCHANGED <<pc, job, source, quarantine, cursor, worldVars>>

(* Mistake: the open rows are closed before the declaration is written.    *)
SelfCloseFirst(w) ==
  /\ pc[w] = "write"
  /\ CloseOpenForItem(ItemOf[job[w]], job[w])
  /\ Goto(w, "mint")
  /\ UNCHANGED <<job, todo, source, deliverables, cursor, worldVars>>

SelfClose(w) ==
  /\ pc[w] = "write"
  /\ todo[w] = {}
  /\ CloseOpenForItem(ItemOf[job[w]], job[w])
  /\ Goto(w, "mint")
  /\ UNCHANGED <<job, todo, source, deliverables, cursor, worldVars>>

(* Evaluation and minting, which may stop the pass with the event un-acked. *)
MintHalf(w) ==
  /\ pc[w] = "mint"
  /\ \/ Goto(w, "ack") /\ UNCHANGED <<job, todo, source>>
     \/ EndCall(w)
  /\ UNCHANGED <<storeVars, cursor, worldVars>>

Ack(w) ==
  /\ pc[w] = "ack"
  /\ cursor' = IF cursor < job[w] THEN job[w] ELSE cursor
  /\ Goto(w, "next")
  /\ UNCHANGED <<job, todo, source, storeVars, worldVars>>

-----------------------------------------------------------------------------
(* The operator verbs.                                                     *)

(* Mistake: the store's refusal of the close is not looked at.             *)
ResolveAnyway(o, c, attachment) ==
  /\ pc[o] = "idle"
  /\ quarantine[c].status # "none"
  /\ Close(c, "resolved", attachment, Nobody)
  /\ Goto(o, "write")
  /\ job' = [job EXCEPT ![o] = c]
  /\ todo' = [todo EXCEPT ![o] = attachment]
  /\ source' = [source EXCEPT ![o] = attachment]
  /\ UNCHANGED <<deliverables, cursor, worldVars>>

(* Resolve closes the row first, with the attachment on it.                *)
Resolve(o, c, attachment) ==
  /\ pc[o] = "idle"
  /\ quarantine[c].status = "open"
  /\ Close(c, "resolved", attachment, Nobody)
  /\ Goto(o, "write")
  /\ job' = [job EXCEPT ![o] = c]
  /\ todo' = [todo EXCEPT ![o] = attachment]
  /\ source' = [source EXCEPT ![o] = attachment]
  /\ UNCHANGED <<deliverables, cursor, worldVars>>

(* Mistake: a row already resolved is refused, with nothing re-applied.    *)
HealNothing(o, c) ==
  /\ pc[o] = "idle"
  /\ quarantine[c].status = "resolved"
  /\ quarantine[c].attached # {}
  /\ UNCHANGED vars

(* Resolve on a row already resolved re-applies the row's own attachment.  *)
Heal(o, c) ==
  /\ pc[o] = "idle"
  /\ quarantine[c].status = "resolved"
  /\ quarantine[c].attached # {}
  /\ Goto(o, "write")
  /\ job' = [job EXCEPT ![o] = c]
  /\ todo' = [todo EXCEPT ![o] = quarantine[c].attached]
  /\ source' = [source EXCEPT ![o] = quarantine[c].attached]
  /\ UNCHANGED <<storeVars, cursor, worldVars>>

ResolveDone(o) ==
  /\ pc[o] = "write"
  /\ todo[o] = {}
  /\ EndCall(o)
  /\ UNCHANGED <<storeVars, cursor, worldVars>>

Dismiss(c) ==
  /\ quarantine[c].status = "open"
  /\ Close(c, "dismissed", {}, Nobody)
  /\ UNCHANGED <<deliverables, cursor, procVars, worldVars>>

(* Requeue reads an open row, writes what its completion declares if the   *)
(* parser now reads it, and only then closes.  An unreadable one stays     *)
(* open (its reason and detail are refreshed, which nothing here reads).   *)
Requeue(o, c) ==
  /\ pc[o] = "idle"
  /\ quarantine[c].status = "open"
  /\ Parses(c)
  /\ Goto(o, "requeue")
  /\ job' = [job EXCEPT ![o] = c]
  /\ todo' = [todo EXCEPT ![o] = Declares[c]]
  /\ UNCHANGED <<source, storeVars, cursor, worldVars>>

RequeueSlot(o) ==
  /\ pc[o] = "requeue"
  /\ \E slot \in todo[o] :
       /\ Upsert(job[o], slot, {})
       /\ todo' = [todo EXCEPT ![o] = @ \ {slot}]
  /\ UNCHANGED <<pc, job, source, quarantine, cursor, worldVars>>

RequeueClose(o) ==
  /\ pc[o] = "requeue"
  /\ todo[o] = {}
  /\ Close(job[o], "resolved", {}, job[o])
  /\ EndCall(o)
  /\ UNCHANGED <<deliverables, cursor, worldVars>>

-----------------------------------------------------------------------------
(* The world.                                                              *)

Abort(p) ==
  /\ pc[p] # "idle"
  /\ aborts < MaxAborts
  /\ aborts' = aborts + 1
  /\ EndCall(p)
  /\ UNCHANGED <<storeVars, cursor, named, readable>>

(* A pass confirms the mint of the item (confirm_created).                 *)
NameItem(item) ==
  /\ item \notin named
  /\ named' = named \cup {item}
  /\ UNCHANGED <<storeVars, cursor, procVars, readable, aborts>>

(* A release whose parser reads a declaration the last one could not.      *)
ParserFixed(c) ==
  /\ Declares[c] # {}
  /\ c \notin readable
  /\ readable' = readable \cup {c}
  /\ UNCHANGED <<storeVars, cursor, procVars, named, aborts>>

WatcherStep(w) ==
  \/ StartPass(w) \/ Pull(w) \/ FinishPass(w) \/ NotMinted(w) \/ Classify(w)
  \/ FileRow(w) \/ CheckSettled(w) \/ WriteSlot(w) \/ SelfClose(w) \/ MintHalf(w) \/ Ack(w)

OperatorStep(o) ==
  \/ WriteSlot(o) \/ ResolveDone(o) \/ RequeueSlot(o) \/ RequeueClose(o)
  \/ \E c \in Completions :
       \/ Heal(o, c) \/ Requeue(o, c)
       \/ \E attachment \in Attachments : Resolve(o, c, attachment)

Next ==
  \/ \E w \in Watchers : WatcherStep(w)
  \/ \E o \in Operators : OperatorStep(o)
  \/ \E p \in Procs : Abort(p)
  \/ \E c \in Completions : Dismiss(c) \/ ParserFixed(c)
  \/ \E item \in Items : NameItem(item)

Spec == Init /\ [][Next]_vars

(* An operator whose call died makes it again (watch.py: "an operator      *)
(* retrying, converges it"); nobody is obliged to start a new resolution.  *)
Fairness ==
  \A o \in Operators :
    /\ WF_vars(WriteSlot(o) \/ ResolveDone(o) \/ RequeueSlot(o) \/ RequeueClose(o))
    /\ \A c \in Completions : SF_vars(Heal(o, c))

FairSpec == Spec /\ Fairness

-----------------------------------------------------------------------------
(* Properties.                                                             *)

(* Every variable stays in its domain.                                     *)
TypeOK ==
  /\ quarantine \in [Completions -> QuarantineRows]
  /\ deliverables \in [Items \X Slots -> DeliverableRows]
  /\ cursor \in 0 .. LastCompletion
  /\ named \subseteq Items
  /\ readable \subseteq Completions
  /\ pc \in [Procs -> {"idle", "next", "watch", "file", "check", "write", "mint", "ack",
                       "requeue"}]
  /\ job \in [Procs -> 0 .. LastCompletion]
  /\ todo \in [Procs -> SUBSET Slots]
  /\ source \in [Procs -> SUBSET Slots]
  /\ aborts \in 0 .. MaxAborts

(* The facts of a completion stand, or newer ones do.                      *)
Recorded(c, slots) ==
  \A slot \in slots : deliverables[<<ItemOf[c], slot>>].at >= OccurredAt[c]

Observed(c) ==
  \/ quarantine[c].status # "none"
  \/ Declares[c] # {} /\ Recorded(c, Declares[c])

(* An acked completion of an item whose mint was confirmed before it       *)
(* completed left its deliverables or a quarantine row, whichever passes   *)
(* watched it and however many died on it; and no stale re-delivery or     *)
(* late attachment ever rolled its deliverables back.                      *)
AckedCompletionsAreObserved ==
  \A c \in 1 .. cursor : ItemOf[c] \in NamedAtStart => Observed(c)

(* watch.py: of two operators resolving one row, "the loser's declaration  *)
(* provably never touches the ledger".  An attached deliverable is the one *)
(* its completion's row was resolved with.                                 *)
OnlyTheWinnersAttachment ==
  \A x \in Items \X Slots :
    deliverables[x].attachment # {} =>
      quarantine[deliverables[x].by] =
        [status |-> "resolved", attached |-> deliverables[x].attachment, closedBy |-> Nobody]

(* A row closed by a pass or a requeue is closed over durable facts: the   *)
(* deliverables of the completion it credits, which is one of the row's    *)
(* own item, stand, or newer ones do.                                      *)
ClosedOverRecordedFacts ==
  \A c \in Completions :
    LET credit == quarantine[c].closedBy
    IN credit # Nobody => /\ ItemOf[credit] = ItemOf[c]
                          /\ Recorded(credit, Declares[credit])

(* A closed row is a decision: no re-delivery, requeue, racing verb or     *)
(* self-close reopens or rewrites it.                                      *)
ClosedRowsAreSettled ==
  [][\A c \in Completions : IsClosed(quarantine[c]) => quarantine'[c] = quarantine[c]]_quarantine

(* An attachment that closed its row reaches the ledger in the end, though *)
(* the call that closed it died before writing.                            *)
AttachedIsApplied ==
  \A c \in Completions :
    quarantine[c].attached # {} ~> Recorded(c, quarantine[c].attached)

(* watch.py, of the self-close: "An EARLIER provenance-less completion of  *)
(* this item left an open row".  No later completion is closed by it.      *)
SelfClosesLookBack ==
  \A c \in Completions :
    quarantine[c].closedBy # Nobody => quarantine[c].closedBy >= c

=============================================================================
