------------------------------- MODULE DryRun -------------------------------
(***************************************************************************)
(* The operator's preview (dryrun.py): the same intake and the same        *)
(* evaluation, over a capture of the same events, against in-memory stores *)
(* and with no minting pass, compared with what the live passes do.        *)
(*                                                                         *)
(* A preview is one walk over the capture.  No row of its ledger ever      *)
(* leaves "matched", so every entry that is not refused as a collision     *)
(* yields its consequence, the re-owed ones included.                      *)
(***************************************************************************)
EXTENDS MintingPipeline

Evaluated == Events \ (Malformed \cup Foreign)

\* The entries of version v that select e and win their key within the event.
Delivered(v, e) ==
  LET selects == {i \in 1 .. Len(Entries[e]) : v[Entry(e, i)] # "absent"}
  IN {i \in selects : ~ \E j \in selects : j < i /\ EntryKey(e, j) = EntryKey(e, i)}

\* report.events: every consequence, in delivery order by <<at, nth>>.
PreviewOf(v) ==
  {[at |-> x[1], nth |-> x[2], key |-> EntryKey(x[1], x[2]),
    policy |-> Entry(x[1], x[2]), mode |-> v[Entry(x[1], x[2])]] :
   x \in UNION {{<<e, i>> : i \in Delivered(v, e)} : e \in Evaluated}}

(* Mistake: the headline counts whatever was delivered.                    *)
MintsWhateverMode(c) == TRUE

\* PendingConsequence.mints
Mints(c) == c.mode # "dry_run"

Before(c, d) == c.at < d.at \/ (c.at = d.at /\ c.nth < d.nth)

\* One consequence per key, the first.
FirstOf(S) == {c \in S : \A d \in S : d.key = c.key /\ d # c => Before(c, d)}

\* report.would_mint
WouldMint(v) == FirstOf({c \in PreviewOf(v) : Mints(c)})

\* The preview's ledger rows, each with the consequence that inserted it.
PreviewRows(v) == FirstOf(PreviewOf(v))

-----------------------------------------------------------------------------
(* Properties.  They compare a preview of the first version with live      *)
(* passes as long as no revision is published.                             *)

(* dryrun.py: "report what would have been minted".  Nothing is minted, by *)
(* whatever passes, crashes and re-deliveries, that the preview did not    *)
(* announce: its key is in the headline, and some delivery of the report   *)
(* carries a consequence of an active policy for it.                       *)
PreviewNeverUnderstates ==
  revisions = 0 => \A k \in Keys : minted[k] + late[k] > 0 =>
    /\ \E c \in WouldMint(InitialModes) : c.key = k
    /\ \E c \in PreviewOf(InitialModes) : c.key = k /\ c.mode = "active"

MintOutcomes == {"claimed", "created", "failed"}

\* What becomes of a row whose first delivery is c: a gated one is minted only
\* if an active policy renders its key too.
Fate(c) ==
  CASE ~Mints(c) -> {"dry_run"}
    [] c.mode = "active" -> MintOutcomes
    [] OTHER -> {o \in MintOutcomes : \E d \in PreviewOf(InitialModes) :
                                         d.key = c.key /\ d.mode = "active"}
                \cup {"awaiting_approval"}

(* The per-delivery report is kept: once the stream is consumed, every row *)
(* the preview shows was minted or surfaced, gated or closed as a dry run, *)
(* as the mode of its first delivery has it.                               *)
PreviewIsCarriedOut ==
  (cursor = LastEvent /\ revisions = 0) =>
    \A c \in PreviewRows(InitialModes) : ledger[c.key].outcome \in Fate(c)

(* dryrun.py: a preview reports what evaluation itself decides.  A live    *)
(* row belongs to the policy whose row the preview shows, and a key the    *)
(* preview does not show gets no row.                                      *)
RowsAsPreviewed ==
  revisions = 0 => \A k \in Keys : ledger[k] # NoRow =>
    \E c \in PreviewRows(InitialModes) : c.key = k /\ ledger[k].policy = c.policy

=============================================================================
