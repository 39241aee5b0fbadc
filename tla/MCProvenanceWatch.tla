------------------------- MODULE MCProvenanceWatch -------------------------
(* Small instances of ProvenanceWatch for TLC.                             *)
EXTENDS ProvenanceWatch

CONSTANTS w1, w2, o1, o2, i1, i2, s1, s2

OneItem == [c \in 1 .. LastCompletion |-> i1]
(* Each completion is another item's.                                      *)
TwoItems == <<i1, i2>>
InOrder == [c \in 1 .. LastCompletion |-> c]
(* The second completion reaches the stream after a newer third one.       *)
OutOfOrder == <<1, 3, 2>>
(* Nothing, both slots (unreadable at first), one slot.                    *)
MCDeclares == <<{}, {s1, s2}, {s1}>>
(* Both slots (unreadable at first), then nothing.                         *)
ThenNothing == <<{s1, s2}, {}>>
(* Nothing, then one slot (unreadable at first).                           *)
ThenSomething == <<{}, {s1}>>
MCAttachments == {{s1}, {s2}}

=============================================================================
