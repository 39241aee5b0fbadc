------------------------- MODULE MCPolicyResolution -------------------------
(* Small instances of PolicyResolution for TLC.                            *)
EXTENDS PolicyResolution, Sequences

CONSTANTS p1, p2, acme, bolt, v1, v2, acmeRules, boltRules, newRules

Artifact(t, v, b) == [tenant |-> t, version |-> v, body |-> b]
MCDeclares == [b \in Bodies |-> IF b = boltRules THEN bolt ELSE acme]
(* Only the second release understands newRules.                           *)
MCAccepts == <<{acmeRules, boltRules}, {acmeRules, boltRules, newRules}>>
(* Both tenants use v1, bolt for two bodies, one of them acme's.           *)
ReusedIds == {Artifact(acme, v1, newRules), Artifact(bolt, v1, boltRules),
              Artifact(bolt, v1, acmeRules)}
=============================================================================
