------------------------------ MODULE PolicyAudit ------------------------------
(***************************************************************************)
(* What policy resolution promises the audit trail: a version id belongs   *)
(* to the tenant that first recorded it, for good, and a tenant's events   *)
(* are decided only under version ids that are its own.                    *)
(***************************************************************************)
CONSTANTS Tenants, VersionIds, Nobody

VARIABLES
  holder,  \* the tenant each version id belongs to
  judged   \* the <<tenant, version id>> pairs ledger rows name

Init ==
  /\ holder = [v \in VersionIds |-> Nobody]
  /\ judged = {}

Take(t, v) ==
  /\ holder[v] = Nobody
  /\ holder' = [holder EXCEPT ![v] = t]
  /\ UNCHANGED judged

Judge(t, v) ==
  /\ holder[v] = t
  /\ judged' = judged \cup {<<t, v>>}
  /\ UNCHANGED holder

Next == \E t \in Tenants, v \in VersionIds : Take(t, v) \/ Judge(t, v)

Spec == Init /\ [][Next]_<<holder, judged>>

=============================================================================
