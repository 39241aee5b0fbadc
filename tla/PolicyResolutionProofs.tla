------------------------ MODULE PolicyResolutionProofs ------------------------
(***************************************************************************)
(* PolicyResolution for any tenants, version ids, bodies, passes, parser   *)
(* releases and artifacts in force: its safety properties and the          *)
(* refinement of PolicyAudit.                                              *)
(***************************************************************************)
EXTENDS PolicyResolution, TLAPS

HeldBy(v, t) == cache[v] # NoRow /\ cache[v].tenant = t

\* A row holds an artifact version that was in force for the row's tenant.
RowsAreIssued ==
  \A v \in VersionIds : cache[v] # NoRow =>
    [tenant |-> cache[v].tenant, version |-> v, body |-> cache[v].body] \in Issued

\* A pass that evaluates holds its version id, under a body of its tenant's.
PinsAreHeld ==
  \A p \in Passes : pass[p].step = "evaluating" =>
    /\ HeldBy(pass[p].got.version, pass[p].got.tenant)
    /\ Declares[pass[p].got.body] = pass[p].got.tenant

IInv ==
  /\ TypeOK
  /\ RowsAreIssued
  /\ PinsAreHeld
  /\ AuditJoins
  /\ VerdictMatchesBody
  /\ OwnRulesOnly

(* A classification is one of the three verdicts, and valid only for a     *)
(* body that declares the tenant it was resolved for.                      *)
LEMMA ClassifyVerdict ==
  ASSUME NEW t, NEW body, NEW rel
  PROVE  /\ Classify(t, body, rel) \in Verdicts
         /\ Classify(t, body, rel) = "valid" => Declares[body] = t
BY DEF Classify, Verdicts

(* What a pass knows after an answer: an artifact version of its tenant,   *)
(* or that there is none, or nothing.                                      *)
LEMMA HearEffect ==
  ASSUME TypeOK, NEW p \in Passes, NEW t \in Tenants, Resolve(p, t) \/ MisHear(p, t)
  PROVE  /\ UNCHANGED <<published, cache, decided, release>>
         /\ \/ pass' = [pass EXCEPT ![p] = Stalled(t)]
            \/ /\ published[t] = NoArtifact
               /\ pass' = [pass EXCEPT ![p] = NoPolicies(t)]
            \/ /\ published[t] \in Issued /\ published[t].tenant = t
                 /\ pass' = [pass EXCEPT ![p] = Fetched(t, published[t])]
<1>1. CASE Resolve(p, t)
  <2>1. CASE published[t] = NoArtifact
    <3>1. Reading(t, Truth(t)) = "not_found"
      BY <2>1 DEF Reading, Truth, Response
    <3>2. QED
      BY <1>1, <2>1, <3>1 DEF Resolve, Hear
  <2>2. CASE published[t] # NoArtifact
    <3>1. Reading(t, Truth(t)) = "resolved" /\ Truth(t).artifact = published[t]
      BY <2>2 DEF Reading, Truth, Response
    <3>2. published[t] \in Issued /\ published[t].tenant = t
      BY <2>2 DEF TypeOK
    <3>3. QED
      BY <1>1, <3>1, <3>2 DEF Resolve, Hear
  <2>3. QED
    BY <2>1, <2>2
<1>2. CASE MisHear(p, t)
  <2>1. PICK resp \in Failures(t) : Hear(p, t, resp)
    BY <1>2 DEF MisHear
  <2>2. Reading(t, resp) \in {"unavailable", "malformed_response"}
    BY ResolutionAssumption DEF Failures, Reading, Response, ResolutionAssumption
  <2>3. QED
    BY <2>1, <2>2 DEF Hear
<1>3. QED
  BY <1>1, <1>2

(* A put changes at most the row of the id fetched, and only when no other *)
(* tenant holds it; the pass evaluates only if the row is then its own.    *)
LEMMA PutEffect ==
  ASSUME TypeOK, NEW p \in Passes, Put(p)
  PROVE  LET a == pass[p].got
             verdict == Classify(a.tenant, a.body, release[p])
             row == [tenant |-> a.tenant, body |-> a.body, verdict |-> verdict] IN
         /\ a \in Issued /\ a \in Artifacts /\ row \in Rows
         /\ \/ Refused(a) /\ cache' = cache
            \/ ~Refused(a) /\ cache' = [cache EXCEPT ![a.version] = row]
         /\ \/ pass' = [pass EXCEPT ![p] = Stalled(a.tenant)]
            \/ /\ ~Refused(a) /\ verdict = "valid"
               /\ pass' = [pass EXCEPT ![p] = [@ EXCEPT !.step = "evaluating"]]
<1> DEFINE a == pass[p].got
           verdict == Classify(a.tenant, a.body, release[p])
<1>1. a \in Issued /\ a \in Artifacts /\ a.tenant = pass[p].tenant
  BY ResolutionAssumption DEF Put, TypeOK, ResolutionAssumption
<1>2. verdict \in Verdicts
  BY ClassifyVerdict
<1>3. Answer(p) = IF Refused(a) THEN "version_collision" ELSE verdict
  BY <1>1 DEF Answer
<1>4. \/ Refused(a) /\ cache' = cache
      \/ ~Refused(a) /\ cache' = [cache EXCEPT ![a.version] =
           [tenant |-> a.tenant, body |-> a.body, verdict |-> verdict]]
  BY <1>1 DEF Put, Upserted, TypeOK, Artifacts
<1>5. \/ pass' = [pass EXCEPT ![p] = Stalled(a.tenant)]
      \/ /\ ~Refused(a) /\ verdict = "valid"
         /\ pass' = [pass EXCEPT ![p] = [@ EXCEPT !.step = "evaluating"]]
  BY <1>3 DEF Put
<1>6. [tenant |-> a.tenant, body |-> a.body, verdict |-> verdict] \in Rows
  BY <1>1, <1>2 DEF Rows, Artifacts
<1>7. QED
  BY <1>1, <1>4, <1>5, <1>6

(* A version id a tenant holds stays with that tenant, whatever is put.    *)
LEMMA HoldersStay ==
  ASSUME TypeOK, [Next]_vars, NEW v \in VersionIds, cache[v] # NoRow
  PROVE  cache'[v] # NoRow /\ cache'[v].tenant = cache[v].tenant
<1>1. CASE \E p \in Passes : Put(p)
  <2>1. PICK p \in Passes : Put(p)
    BY <1>1
  <2> DEFINE a == pass[p].got
             row == [tenant |-> a.tenant, body |-> a.body,
                     verdict |-> Classify(a.tenant, a.body, release[p])]
  <2>2. row \in Rows /\ row # NoRow
    BY <2>1, PutEffect, ResolutionAssumption DEF ResolutionAssumption
  <2>3. \/ cache' = cache
        \/ ~Refused(a) /\ cache' = [cache EXCEPT ![a.version] = row]
    BY <2>1, PutEffect
  <2>4. row.tenant = a.tenant
    OBVIOUS
  <2>5. v = a.version /\ ~Refused(a) => cache[v].tenant = a.tenant
    BY DEF Refused
  <2>6. QED
    BY <2>2, <2>3, <2>4, <2>5 DEF TypeOK
<1>2. CASE ~\E p \in Passes : Put(p)
  <2>1. UNCHANGED cache
    BY <1>2, HearEffect DEF Next, vars, Evaluate, Discard, Deploy, Revise
  <2>2. QED
    BY <2>1
<1>3. QED
  BY <1>1, <1>2

(* The decisions of a tenant grow by what an evaluating pass holds.        *)
LEMMA DecidedGrows ==
  ASSUME TypeOK, [Next]_vars
  PROVE  \/ decided' = decided
         \/ \E p \in Passes : Evaluate(p)
BY HearEffect DEF Next, vars, Put, Discard, Deploy, Revise

LEMMA TypeStep == TypeOK /\ [Next]_vars => TypeOK'
<1> SUFFICES ASSUME TypeOK, [Next]_vars PROVE TypeOK'
  OBVIOUS
<1> USE ResolutionAssumption DEF ResolutionAssumption
<1> DEFINE Known == [tenant : Tenants \cup {NoTenant},
                     step : {"idle", "no_policies", "fetched", "evaluating", "stalled"},
                     got : Issued \cup {NoArtifact}]
           Fits(k) == /\ k \in Known
                      /\ k.step \in {"fetched", "evaluating"} =>
                           k.got \in Issued /\ k.got.tenant = k.tenant
<1>1. Fits(Unresolved) /\ \A t \in Tenants : Fits(Stalled(t))
  BY DEF Unresolved, Stalled
<1>2. ASSUME NEW p \in Passes, NEW k, Fits(k), pass' = [pass EXCEPT ![p] = k]
      PROVE  /\ pass' \in [Passes -> Known]
             /\ \A q \in Passes : Fits(pass'[q])
  BY <1>2 DEF TypeOK
<1>3. ASSUME NEW p \in Passes, NEW t \in Tenants, Resolve(p, t) \/ MisHear(p, t)
      PROVE  TypeOK'
  <2>1. PICK k : Fits(k) /\ pass' = [pass EXCEPT ![p] = k]
    <3>1. /\ Fits(NoPolicies(t))
          /\ published[t] \in Issued /\ published[t].tenant = t =>
               Fits(Fetched(t, published[t]))
      BY DEF Unresolved, NoPolicies, Fetched
    <3>2. \/ pass' = [pass EXCEPT ![p] = Stalled(t)]
          \/ pass' = [pass EXCEPT ![p] = NoPolicies(t)]
          \/ /\ published[t] \in Issued /\ published[t].tenant = t
             /\ pass' = [pass EXCEPT ![p] = Fetched(t, published[t])]
      BY <1>3, HearEffect
    <3>3. Fits(Stalled(t))
      BY <1>1
    <3> HIDE DEF Fits
    <3>4. QED
      BY <3>1, <3>2, <3>3
  <2>2. UNCHANGED <<published, cache, decided, release>>
    BY <1>3, HearEffect
  <2>3. QED
    BY <1>2, <2>1, <2>2 DEF TypeOK
<1>4. ASSUME NEW p \in Passes, Put(p)
      PROVE  TypeOK'
  <2>1. PICK k : Fits(k) /\ pass' = [pass EXCEPT ![p] = k]
    <3>1. Fits([pass[p] EXCEPT !.step = "evaluating"])
      BY <1>4 DEF Put, TypeOK
    <3>2. pass[p].got \in Issued /\ pass[p].got.tenant \in Tenants
      BY <1>4, PutEffect DEF Artifacts
    <3>3. QED
      BY <1>1, <1>4, <3>1, <3>2, PutEffect
  <2>2. cache' \in [VersionIds -> Rows \cup {NoRow}]
    BY <1>4, PutEffect DEF TypeOK
  <2>3. UNCHANGED <<published, decided, release>>
    BY <1>4 DEF Put
  <2>4. QED
    BY <1>2, <2>1, <2>2, <2>3 DEF TypeOK
<1>5. ASSUME NEW p \in Passes, Evaluate(p)
      PROVE  TypeOK'
  BY <1>5 DEF Evaluate, TypeOK
<1>6. ASSUME NEW p \in Passes, Discard(p) \/ Deploy(p)
      PROVE  TypeOK'
  <2>1. pass' = [pass EXCEPT ![p] = Unresolved] /\ UNCHANGED <<published, cache, decided>>
    BY <1>6 DEF Discard, Deploy
  <2>2. release' \in [Passes -> Releases]
    BY <1>6 DEF Discard, Deploy, TypeOK
  <2>3. QED
    BY <1>1, <1>2, <2>1, <2>2 DEF TypeOK
<1>7. ASSUME NEW t \in Tenants, NEW a \in Issued \cup {NoArtifact}, Revise(t, a)
      PROVE  TypeOK'
  BY <1>7 DEF Revise, TypeOK
<1>8. CASE UNCHANGED vars
  BY <1>8 DEF vars, TypeOK
<1>9. QED
  BY <1>3, <1>4, <1>5, <1>6, <1>7, <1>8 DEF Next

LEMMA RowsIssuedStep == TypeOK /\ RowsAreIssued /\ [Next]_vars => RowsAreIssued'
<1> SUFFICES ASSUME TypeOK, RowsAreIssued, [Next]_vars,
                    NEW v \in VersionIds, cache'[v] # NoRow
             PROVE  [tenant |-> cache'[v].tenant, version |-> v, body |-> cache'[v].body] \in Issued
  BY DEF RowsAreIssued
<1>1. CASE \E p \in Passes : Put(p)
  <2>1. PICK p \in Passes : Put(p)
    BY <1>1
  <2> DEFINE a == pass[p].got
             row == [tenant |-> a.tenant, body |-> a.body,
                     verdict |-> Classify(a.tenant, a.body, release[p])]
  <2>2. a \in Issued /\ a \in Artifacts
    BY <2>1, PutEffect
  <2>3. [tenant |-> row.tenant, version |-> a.version, body |-> row.body] = a
    BY <2>2 DEF Artifacts
  <2>4. cache'[v] = cache[v] \/ (v = a.version /\ cache'[v] = row)
    <3>1. cache' = cache \/ cache' = [cache EXCEPT ![a.version] = row]
      BY <2>1, PutEffect
    <3>2. QED
      BY <3>1 DEF TypeOK
  <2>5. QED
    BY <2>2, <2>3, <2>4 DEF RowsAreIssued
<1>2. CASE ~\E p \in Passes : Put(p)
  <2>1. UNCHANGED cache
    BY <1>2, HearEffect DEF Next, vars, Evaluate, Discard, Deploy, Revise
  <2>2. QED
    BY <2>1 DEF RowsAreIssued
<1>3. QED
  BY <1>1, <1>2

LEMMA VerdictStep ==
  TypeOK /\ VerdictMatchesBody /\ OwnRulesOnly /\ [Next]_vars =>
    /\ VerdictMatchesBody'
    /\ \A v \in VersionIds : cache'[v] # NoRow /\ cache'[v].verdict = "valid" =>
         Declares[cache'[v].body] = cache'[v].tenant
<1> SUFFICES ASSUME TypeOK, VerdictMatchesBody, OwnRulesOnly, [Next]_vars,
                    NEW v \in VersionIds, cache'[v] # NoRow
             PROVE  /\ \E rel \in Releases :
                         cache'[v].verdict = Classify(cache'[v].tenant, cache'[v].body, rel)
                    /\ cache'[v].verdict = "valid" =>
                         Declares[cache'[v].body] = cache'[v].tenant
  BY DEF VerdictMatchesBody, Classify
<1>1. CASE \E p \in Passes : Put(p)
  <2>1. PICK p \in Passes : Put(p)
    BY <1>1
  <2> DEFINE a == pass[p].got
             row == [tenant |-> a.tenant, body |-> a.body,
                     verdict |-> Classify(a.tenant, a.body, release[p])]
  <2>2. release[p] \in Releases
    BY DEF TypeOK
  <2>3. /\ row.verdict = Classify(row.tenant, row.body, release[p])
        /\ row.verdict = "valid" => Declares[row.body] = row.tenant
    BY ClassifyVerdict
  <2>4. cache'[v] = cache[v] \/ cache'[v] = row
    BY <2>1, PutEffect DEF TypeOK
  <2>5. QED
    BY <2>2, <2>3, <2>4 DEF VerdictMatchesBody, OwnRulesOnly
<1>2. CASE ~\E p \in Passes : Put(p)
  <2>1. UNCHANGED cache
    BY <1>2, HearEffect DEF Next, vars, Evaluate, Discard, Deploy, Revise
  <2>2. QED
    BY <2>1 DEF VerdictMatchesBody, OwnRulesOnly
<1>3. QED
  BY <1>1, <1>2

(* A pass comes to evaluate by its own put, which left it the row; no      *)
(* later put of any pass takes the row from its tenant.                    *)
LEMMA PinsStep == TypeOK /\ PinsAreHeld /\ [Next]_vars => PinsAreHeld'
<1> SUFFICES ASSUME TypeOK, PinsAreHeld, [Next]_vars,
                    NEW q \in Passes, pass'[q].step = "evaluating"
             PROVE  /\ cache'[pass'[q].got.version] # NoRow
                    /\ cache'[pass'[q].got.version].tenant = pass'[q].got.tenant
                    /\ Declares[pass'[q].got.body] = pass'[q].got.tenant
  BY DEF PinsAreHeld, HeldBy
<1>1. CASE pass'[q] = pass[q]
  <2>1. pass[q].got \in Artifacts
    BY <1>1, ResolutionAssumption DEF TypeOK, ResolutionAssumption
  <2>2. pass[q].got.version \in VersionIds
    BY <2>1 DEF Artifacts
  <2>3. QED
    BY <1>1, <2>2, HoldersStay DEF PinsAreHeld, HeldBy
<1>2. CASE pass'[q] # pass[q]
  <2>1. ASSUME NEW p \in Passes, NEW t \in Tenants, Resolve(p, t) \/ MisHear(p, t)
        PROVE  pass'[q] = pass[q] \/ pass'[q].step # "evaluating"
    <3>1. NoPolicies(t).step # "evaluating" /\ Fetched(t, published[t]).step # "evaluating"
      BY DEF Unresolved, NoPolicies, Fetched
    <3>2. Stalled(t).step # "evaluating"
      BY DEF Unresolved, Stalled
    <3>3. \/ pass' = [pass EXCEPT ![p] = Stalled(t)]
          \/ pass' = [pass EXCEPT ![p] = NoPolicies(t)]
          \/ pass' = [pass EXCEPT ![p] = Fetched(t, published[t])]
      BY <2>1, HearEffect
    <3>4. QED
      BY <3>1, <3>2, <3>3 DEF TypeOK
  <2>2. ASSUME NEW p \in Passes, Evaluate(p) \/ Discard(p) \/ Deploy(p)
        PROVE  pass'[q] = pass[q] \/ pass'[q].step # "evaluating"
    BY <2>2 DEF TypeOK, Unresolved, Evaluate, Discard, Deploy
  <2>3. PICK p \in Passes : Put(p)
    BY <1>2, <2>1, <2>2 DEF Next, vars, Revise
  <2> DEFINE a == pass[p].got
             row == [tenant |-> a.tenant, body |-> a.body,
                     verdict |-> Classify(a.tenant, a.body, release[p])]
  <2>4. p = q
    BY <1>2, <2>3 DEF Put, TypeOK
  <2>5. /\ ~Refused(a) /\ Classify(a.tenant, a.body, release[p]) = "valid"
        /\ pass'[q].got = a
    <3>1. ASSUME pass' = [pass EXCEPT ![p] = Stalled(a.tenant)]
          PROVE  FALSE
      <4>1. pass'[q] = Stalled(a.tenant)
        BY <2>4, <3>1 DEF TypeOK
      <4>2. QED
        BY <4>1 DEF Stalled, Unresolved
    <3>2. /\ ~Refused(a) /\ Classify(a.tenant, a.body, release[p]) = "valid"
          /\ pass' = [pass EXCEPT ![p] = [@ EXCEPT !.step = "evaluating"]]
      BY <2>3, <3>1, PutEffect
    <3>3. QED
      BY <2>4, <3>2 DEF TypeOK
  <2>6. cache' = [cache EXCEPT ![a.version] = row] /\ a.version \in VersionIds
    BY <2>3, <2>5, PutEffect DEF Artifacts
  <2>7. cache'[a.version] = row /\ row.tenant = a.tenant /\ row # NoRow
    BY <2>3, <2>6, PutEffect, ResolutionAssumption DEF TypeOK, ResolutionAssumption
  <2>8. QED
    BY <2>5, <2>7, ClassifyVerdict DEF HeldBy
<1>3. QED
  BY <1>1, <1>2

(* A decision is under an id its tenant holds; the issued row of that id   *)
(* has the body evaluated when the tenant gave the id no second one.       *)
LEMMA AuditStep == IInv /\ RowsAreIssued' /\ [Next]_vars => AuditJoins'
<1> SUFFICES ASSUME IInv, RowsAreIssued', [Next]_vars, NEW d \in decided'
             PROVE  /\ cache'[d.version] # NoRow
                    /\ cache'[d.version].tenant = d.tenant
                    /\ NamesOneBody(d) => cache'[d.version].body = d.body
  BY DEF AuditJoins, NamesOneBody
<1>1. d \in Issued /\ HeldBy(d.version, d.tenant)
  <2>1. CASE d \in decided
    BY <2>1 DEF IInv, TypeOK, AuditJoins, HeldBy
  <2>2. CASE d \notin decided
    <3>1. PICK p \in Passes : Evaluate(p)
      BY <2>2, DecidedGrows DEF IInv
    <3>2. d = pass[p].got /\ pass[p].step = "evaluating"
      BY <2>2, <3>1 DEF Evaluate
    <3>3. QED
      BY <3>2 DEF IInv, TypeOK, PinsAreHeld
  <2>3. QED
    BY <2>1, <2>2
<1>2. d.version \in VersionIds
  BY <1>1, ResolutionAssumption DEF ResolutionAssumption, Artifacts
<1>3. cache'[d.version] # NoRow /\ cache'[d.version].tenant = d.tenant
  BY <1>1, <1>2, HoldersStay DEF HeldBy, IInv
<1>4. ASSUME NamesOneBody(d) PROVE cache'[d.version].body = d.body
  <2> DEFINE b == [tenant |-> d.tenant, version |-> d.version, body |-> cache'[d.version].body]
  <2>1. b \in Issued
    BY <1>2, <1>3 DEF RowsAreIssued
  <2>2. b = d
    BY <1>4, <2>1 DEF NamesOneBody
  <2>3. QED
    BY <2>2
<1>5. QED
  BY <1>3, <1>4

LEMMA OwnRulesStep == IInv /\ [Next]_vars => OwnRulesOnly'
<1> SUFFICES ASSUME IInv, [Next]_vars PROVE OwnRulesOnly'
  OBVIOUS
<1>1. ASSUME NEW d \in decided' PROVE Declares[d.body] = d.tenant
  <2>1. CASE d \in decided
    BY <2>1 DEF IInv, OwnRulesOnly
  <2>2. CASE d \notin decided
    <3>1. PICK p \in Passes : Evaluate(p)
      BY <2>2, DecidedGrows DEF IInv
    <3>2. d = pass[p].got /\ pass[p].step = "evaluating"
      BY <2>2, <3>1 DEF Evaluate
    <3>3. QED
      BY <3>2 DEF IInv, PinsAreHeld
  <2>3. QED
    BY <2>1, <2>2
<1>2. QED
  BY <1>1, VerdictStep DEF IInv, OwnRulesOnly

LEMMA Invariance == Spec => []IInv
<1>1. Init => IInv
  <2> SUFFICES ASSUME Init PROVE IInv
    OBVIOUS
  <2>1. 1 \in Releases
    BY ResolutionAssumption DEF ResolutionAssumption, Releases
  <2>2. Unresolved \in [tenant : Tenants \cup {NoTenant},
                        step : {"idle", "no_policies", "fetched", "evaluating", "stalled"},
                        got : Issued \cup {NoArtifact}]
        /\ Unresolved.step = "idle"
    BY DEF Unresolved
  <2>3. TypeOK
    BY <2>1, <2>2 DEF Init, TypeOK
  <2>4. RowsAreIssued /\ PinsAreHeld /\ AuditJoins /\ VerdictMatchesBody /\ OwnRulesOnly
    BY <2>2 DEF Init, RowsAreIssued, PinsAreHeld, AuditJoins, VerdictMatchesBody, OwnRulesOnly
  <2>5. QED
    BY <2>3, <2>4 DEF IInv
<1>2. IInv /\ [Next]_vars => IInv'
  BY TypeStep, RowsIssuedStep, PinsStep, AuditStep, VerdictStep, OwnRulesStep DEF IInv
<1>3. QED
  BY <1>1, <1>2, PTL DEF Spec

(* Every variable keeps its type, and a pass past the provider holds an    *)
(* artifact version resolved for its own tenant.                           *)
THEOREM ResolutionTypeCorrect == Spec => []TypeOK
<1>1. IInv => TypeOK
  BY DEF IInv
<1>2. QED
  BY <1>1, Invariance, PTL

(* The id a ledger row names joins to a cache row of its own tenant, and   *)
(* to the body evaluated unless the tenant reuses ids.                     *)
THEOREM AuditAlwaysJoins == Spec => []AuditJoins
<1>1. IInv => AuditJoins
  BY DEF IInv
<1>2. QED
  BY <1>1, Invariance, PTL

(* A stored verdict is what some release says of the stored body.          *)
THEOREM VerdictsNeverGoStale == Spec => []VerdictMatchesBody
<1>1. IInv => VerdictMatchesBody
  BY DEF IInv
<1>2. QED
  BY <1>1, Invariance, PTL

(* No tenant is ever decided by, or listed with, another tenant's rules.   *)
THEOREM NoForeignRules == Spec => []OwnRulesOnly
<1>1. IInv => OwnRulesOnly
  BY DEF IInv
<1>2. QED
  BY <1>1, Invariance, PTL

(* A pass goes on without policies only where governance has no artifact.  *)
THEOREM FailuresNeverMatchNone == Spec => NeverMatchNone
<1>1. TypeOK /\ [Next]_vars =>
        [\A p \in Passes :
           pass[p].step # "no_policies" /\ pass'[p].step = "no_policies" =>
             published[pass'[p].tenant] = NoArtifact]_vars
  <2> SUFFICES ASSUME TypeOK, [Next]_vars, NEW q \in Passes,
                      pass[q].step # "no_policies", pass'[q].step = "no_policies"
               PROVE  published[pass'[q].tenant] = NoArtifact
    OBVIOUS
  <2>1. ASSUME NEW p \in Passes, Put(p) PROVE FALSE
    <3>1. pass'[q] = pass[q] \/ p = q
      BY <2>1 DEF Put, TypeOK
    <3>2. \/ pass'[p] = Stalled(pass[p].got.tenant)
          \/ pass'[p] = [pass[p] EXCEPT !.step = "evaluating"]
      <4>1. \/ pass' = [pass EXCEPT ![p] = Stalled(pass[p].got.tenant)]
              \/ pass' = [pass EXCEPT ![p] = [@ EXCEPT !.step = "evaluating"]]
        BY <2>1, PutEffect
      <4>2. QED
        BY <4>1 DEF TypeOK
    <3>3. pass'[p].step # "no_policies"
      BY <3>2 DEF Stalled, Unresolved, TypeOK
    <3>4. QED
      BY <3>1, <3>3
  <2>2. ASSUME NEW p \in Passes, Evaluate(p) \/ Discard(p) \/ Deploy(p) PROVE FALSE
    BY <2>2 DEF Evaluate, Discard, Deploy, TypeOK, Unresolved
  <2>3. PICK p \in Passes, t \in Tenants : Resolve(p, t) \/ MisHear(p, t)
    BY <2>1, <2>2 DEF Next, vars, Revise
  <2>4. p = q
    <3>1. p # q => pass'[q] = pass[q]
      BY <2>3 DEF Resolve, MisHear, Hear, TypeOK
    <3>2. QED
      BY <3>1
  <2>5. \/ pass'[q] = Stalled(t)
        \/ published[t] = NoArtifact /\ pass'[q] = NoPolicies(t)
        \/ pass'[q] = Fetched(t, published[t])
    <3>1. \/ pass' = [pass EXCEPT ![p] = Stalled(t)]
          \/ published[t] = NoArtifact /\ pass' = [pass EXCEPT ![p] = NoPolicies(t)]
          \/ pass' = [pass EXCEPT ![p] = Fetched(t, published[t])]
      BY <2>3, HearEffect
    <3>2. QED
      BY <2>4, <3>1 DEF TypeOK
  <2>6. QED
    BY <2>5 DEF Stalled, NoPolicies, Fetched, Unresolved
<1>2. QED
  BY <1>1, ResolutionTypeCorrect, PTL DEF Spec, NeverMatchNone

Holder == [v \in VersionIds |-> IF cache[v] = NoRow THEN NoTenant ELSE cache[v].tenant]
Judged == {<<d.tenant, d.version>> : d \in decided}

(* A put that applies gives a free id its tenant, or leaves its holder.    *)
LEMMA PutTakes ==
  ASSUME IInv, NEW p \in Passes, Put(p)
  PROVE  \/ Holder' = Holder
         \/ \E t \in Tenants, v \in VersionIds :
              Holder[v] = NoTenant /\ Holder' = [Holder EXCEPT ![v] = t]
<1> DEFINE a == pass[p].got
           row == [tenant |-> a.tenant, body |-> a.body,
                   verdict |-> Classify(a.tenant, a.body, release[p])]
<1>1. /\ a.version \in VersionIds /\ a.tenant \in Tenants
      /\ row \in Rows /\ row # NoRow
  BY PutEffect, ResolutionAssumption DEF IInv, Artifacts, ResolutionAssumption
<1>2. row.tenant = a.tenant
  OBVIOUS
<1>3. CASE Refused(a)
  <2>1. cache' = cache
    BY <1>3, PutEffect DEF IInv
  <2>2. QED
    BY <2>1 DEF Holder
<1>4. CASE ~Refused(a)
  <2>1. cache' = [cache EXCEPT ![a.version] = row]
    BY <1>4, PutEffect DEF IInv
  <2> HIDE DEF row
  <2>2. Holder' = [Holder EXCEPT ![a.version] = a.tenant]
    BY <1>1, <1>2, <2>1 DEF Holder, IInv, TypeOK
  <2>3. Holder[a.version] = NoTenant \/ Holder[a.version] = a.tenant
    BY <1>1, <1>4 DEF Holder, Refused
  <2>4. Holder[a.version] = a.tenant => Holder' = Holder
    BY <1>1, <2>2 DEF Holder
  <2>5. QED
    BY <1>1, <2>2, <2>3, <2>4
<1>5. QED
  BY <1>3, <1>4

(* The cache and the ledger implement the audit book: an id has one holder *)
(* for good, and decisions name ids their tenant holds.                    *)
THEOREM ResolutionKeepsTheAudit == Spec => ImplementsPolicyAudit
<1>1. Init => Audit!Init
  BY DEF Init, Audit!Init
<1>2. IInv /\ [Next]_vars => [Audit!Next]_<<Holder, Judged>>
  <2> SUFFICES ASSUME IInv, [Next]_vars PROVE [Audit!Next]_<<Holder, Judged>>
    OBVIOUS
  <2>1. ASSUME NEW p \in Passes, Put(p) PROVE [Audit!Next]_<<Holder, Judged>>
    <3>1. Judged' = Judged
      BY <2>1 DEF Put, Judged
    <3>2. ASSUME NEW t \in Tenants, NEW v \in VersionIds,
                 Holder[v] = NoTenant, Holder' = [Holder EXCEPT ![v] = t]
          PROVE  Audit!Next
      BY <3>1, <3>2 DEF Audit!Next, Audit!Take, Holder, Judged
    <3>3. \/ Holder' = Holder
          \/ \E t \in Tenants, v \in VersionIds :
               Holder[v] = NoTenant /\ Holder' = [Holder EXCEPT ![v] = t]
      BY <2>1, PutTakes
    <3>4. CASE Holder' = Holder
      BY <3>1, <3>4
    <3>5. CASE Holder' # Holder
      <4>1. PICK t \in Tenants, v \in VersionIds :
              Holder[v] = NoTenant /\ Holder' = [Holder EXCEPT ![v] = t]
        BY <3>3, <3>5
      <4>2. Audit!Next
        BY <3>2, <4>1
      <4>3. QED
        BY <4>2
    <3>6. QED
      BY <3>4, <3>5
  <2>2. ASSUME NEW p \in Passes, Evaluate(p) PROVE [Audit!Next]_<<Holder, Judged>>
    <3> DEFINE a == pass[p].got
    <3>1. a \in Issued /\ HeldBy(a.version, a.tenant)
      BY <2>2 DEF Evaluate, IInv, TypeOK, PinsAreHeld
    <3>2. a.version \in VersionIds /\ a.tenant \in Tenants
      BY <3>1, ResolutionAssumption DEF ResolutionAssumption, Artifacts
    <3>3. Holder' = Holder /\ Holder[a.version] = a.tenant
      BY <2>2, <3>1, <3>2 DEF Evaluate, Holder, HeldBy
    <3>4. Judged' = Judged \cup {<<a.tenant, a.version>>}
      BY <2>2 DEF Evaluate, Judged
    <3>5. ASSUME NEW t \in Tenants, NEW v \in VersionIds, t = a.tenant, v = a.version
          PROVE  Audit!Next
      BY <3>3, <3>4, <3>5 DEF Audit!Next, Audit!Judge, Holder, Judged
    <3>6. Audit!Next
      BY <3>2, <3>5
    <3>7. QED
      BY <3>6
  <2>3. CASE ~\E p \in Passes : Put(p) \/ Evaluate(p)
    <3>1. UNCHANGED <<cache, decided>>
      BY <2>3, HearEffect DEF IInv, Next, vars, Discard, Deploy, Revise
    <3>2. QED
      BY <3>1 DEF Holder, Judged
  <2>4. QED
    BY <2>1, <2>2, <2>3
<1>3. QED
  BY <1>1, <1>2, Invariance, PTL DEF Spec, ImplementsPolicyAudit, Audit!Spec, Holder, Judged

=============================================================================
