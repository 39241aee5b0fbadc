------------------------- MODULE MCMintingPipeline -------------------------
(* Small instances of MintingPipeline.                                     *)
EXTENDS DryRun, TLC

CONSTANTS p1, p2, a, b, c, k1, k2, k3, k4

(* Two policies select event 1, one selects event 2.  Policy a's template  *)
(* omits the event id, so its two events share a key.                      *)
MCEntries == [e \in Events |-> IF e = 1 THEN <<a, b>> ELSE <<a>>]
SharedKeyOf ==
  [x \in Policies \X Events |-> IF x[1] = b THEN k2 ELSE IF x[2] = 3 THEN k3 ELSE k1]

(* A malformed, a foreign and an ignored event, two entries that collide on *)
(* event 4, another policy that renders event 1's key on event 3, and on    *)
(* event 7 a gated policy beside an active one that comes to a key which a  *)
(* dry run closed on event 1.                                              *)
MixedEntries ==
  [e \in Events |-> CASE e = 1 -> <<a, b>> [] e = 3 -> <<b>> [] e = 4 -> <<a, b>>
                      [] e = 6 -> <<>> [] e = 7 -> <<c, a>> [] OTHER -> <<a>>]
MixedKeyOf ==
  [x \in Policies \X Events |-> CASE x[2] = 4 -> k3 [] x[1] = c -> k4
                                 [] x \in {<<b, 1>>, <<a, 7>>} -> k2 [] OTHER -> k1]

(* Another policy selects each event, both with a template that omits the  *)
(* policy id, and the two events carry the same value for its field.       *)
OneEach == [e \in Events |-> IF e = 1 THEN <<a>> ELSE <<b>>]
CollidingKeyOf == [x \in Policies \X Events |-> k1]

(* Passes are interchangeable: nothing orders or names one.  Sound where    *)
(* a run checks safety only.                                                *)
PassSymmetry == Permutations(Passes)

AllActive == [q \in Policies |-> "active"]
ActiveAndGated == [q \in Policies |-> IF q = a THEN "active" ELSE "approval_required"]
OfEachMode ==
  [q \in Policies |-> IF q = a THEN "active" ELSE IF q = b THEN "dry_run"
                      ELSE "approval_required"]
=============================================================================
