------------------------------ MODULE MintOnce ------------------------------
(***************************************************************************)
(* What the minting pipeline promises PM, whatever crashes, overlaps and   *)
(* re-deliveries happen: a dedup key gets at most one PM work item, ever,  *)
(* and its ledger row names an item only after PM holds it, once.          *)
(***************************************************************************)
EXTENDS Naturals

CONSTANT Keys

VARIABLES
  items,   \* how many PM items were minted for each key
  named    \* the keys whose ledger row names its item

Init ==
  /\ items = [k \in Keys |-> 0]
  /\ named = {}

Mint(k) ==
  /\ items[k] = 0
  /\ items' = [items EXCEPT ![k] = 1]
  /\ UNCHANGED named

Name(k) ==
  /\ items[k] = 1
  /\ k \notin named
  /\ named' = named \cup {k}
  /\ UNCHANGED items

Next == \E k \in Keys : Mint(k) \/ Name(k)

Spec == Init /\ [][Next]_<<items, named>>

=============================================================================
