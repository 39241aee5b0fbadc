--------------------------- MODULE DeliveryLedger ---------------------------
(***************************************************************************)
(* The delivery ledger (ledger.py): one row per dedup key, inserted once   *)
(* and moved only by guarded compare-and-set transitions.  Every operation *)
(* below is one database transaction, so it is one step of its caller.     *)
(*                                                                         *)
(* A row's timestamps are reduced to the one question the code asks of     *)
(* them: "fresh" says a claimed row is younger than claim_stale_seconds.   *)
(***************************************************************************)
EXTENDS Naturals

CONSTANTS
  Keys,       \* policy-level dedup keys (the "p:" namespace)
  Policies,   \* policy ids
  NoPolicy,   \* the policy of an absent row
  LastEvent   \* the stream holds the events 1 .. LastEvent

ASSUME LedgerAssumption ==
  /\ LastEvent \in Nat
  /\ NoPolicy \notin Policies

VARIABLES
  ledger,     \* the policy-level rows, by dedup key
  eventRows   \* the event-level rows (the "e:" namespace), as <<outcome, event>>

Events == 1 .. LastEvent

(* The row states of DeliveryOutcome at policy level; "none" is no row.    *)
Outcomes ==
  {"none", "matched", "claimed", "created", "awaiting_approval", "dry_run", "failed"}
EventLevelOutcomes == {"ignored", "quarantined"}

ReOwedOutcomes == {"matched", "awaiting_approval"}
ReconciliationOutcomes == {"claimed", "failed"}

NoRef == 0   \* created_item_ref IS NULL; otherwise the n-th PM item of the key
NoRow == [outcome |-> "none", policy |-> NoPolicy, ref |-> NoRef, fresh |-> FALSE]

Rows == [outcome : Outcomes, policy : Policies \cup {NoPolicy},
         ref : Nat, fresh : BOOLEAN]

(* The declared transitions: what each verb is legal from and moves to.    *)
Transitions ==
  [claim                  |-> [from |-> {"matched", "awaiting_approval"}, to |-> "claimed"],
   confirm_created        |-> [from |-> {"claimed"}, to |-> "created"],
   release_claim          |-> [from |-> {"claimed"}, to |-> "matched"],
   mark_failed            |-> [from |-> {"claimed"}, to |-> "failed"],
   mark_awaiting_approval |-> [from |-> {"matched"}, to |-> "awaiting_approval"],
   close_dry_run          |-> [from |-> {"matched"}, to |-> "dry_run"],
   replay                 |-> [from |-> {"failed"}, to |-> "matched"],
   release_stale_claim    |-> [from |-> {"claimed"}, to |-> "matched"]]

-----------------------------------------------------------------------------

LedgerInit ==
  /\ ledger = [k \in Keys |-> NoRow]
  /\ eventRows = {}

(* Mistake for the runs to catch: an UPDATE that forgets the source outcome. *)
AppliesUnguarded(verb, k) == ledger[k].ref = NoRef

(* The guard of the UPDATE: a legal source outcome and no item ref.        *)
Applies(verb, k) ==
  /\ ledger[k].outcome \in Transitions[verb].from
  /\ ledger[k].ref = NoRef

(* The compare-and-set: it moves the row, or the row that refused it stays. *)
Apply(verb, k, ref) ==
  ledger' = IF Applies(verb, k)
            THEN [ledger EXCEPT ![k] =
                    [outcome |-> Transitions[verb].to, policy |-> ledger[k].policy,
                     ref |-> ref, fresh |-> Transitions[verb].to = "claimed"]]
            ELSE ledger

(* Mistake: ON CONFLICT DO UPDATE, which re-opens whatever row is there.    *)
RecordOverwriting(k, q) ==
  ledger' = [ledger EXCEPT ![k] =
               [outcome |-> "matched", policy |-> q, ref |-> NoRef, fresh |-> FALSE]]

(* INSERT ... ON CONFLICT DO NOTHING of a "matched" row.                    *)
Record(k, q) ==
  ledger' = IF ledger[k] = NoRow
            THEN [ledger EXCEPT ![k] =
                    [outcome |-> "matched", policy |-> q, ref |-> NoRef, fresh |-> FALSE]]
            ELSE ledger

RecordEvent(outcome, e) == eventRows' = eventRows \cup {<<outcome, e>>}

(* Wall-clock time: a claim outlives claim_stale_seconds.                   *)
GoStale(k) ==
  /\ ledger[k].outcome = "claimed"
  /\ ledger[k].fresh
  /\ ledger' = [ledger EXCEPT ![k] = [@ EXCEPT !.fresh = FALSE]]

LedgerTypeOK ==
  /\ ledger \in [Keys -> Rows]
  /\ eventRows \subseteq EventLevelOutcomes \X Events

=============================================================================
