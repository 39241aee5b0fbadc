--------------------------- MODULE PolicyResolution ---------------------------
(***************************************************************************)
(* How passes of several tenants learn the rules they evaluate             *)
(* (policy_source.py, policy_cache.py, engine.resolve_policy_set and       *)
(* EvaluationHandler).                                                     *)
(*                                                                         *)
(* A pass asks governance for its tenant's current artifact version, puts  *)
(* the body in the cache, which classifies it, and only then evaluates     *)
(* events under it.  The HTTP answer and the cache's transaction are       *)
(* separate steps: artifacts are revised, other passes put and parser      *)
(* releases roll out between them.  The answers governance and the network *)
(* may give are external.                                                  *)
(***************************************************************************)
EXTENDS Naturals

CONSTANTS
  Tenants, VersionIds, Bodies, Passes,
  Issued,    \* the artifact versions that may be in force: [tenant, version, body]
  Declares,  \* body -> the tenant it declares
  LastRelease,
  Accepts,   \* parser release -> the bodies its schema accepts
  NoTenant, NoArtifact, NoRow

Artifacts == [tenant : Tenants, version : VersionIds, body : Bodies]
Releases == 1 .. LastRelease

\* invalid_policy_set stands for the decode failures too: all quarantine alike.
Verdicts == {"valid", "invalid_policy_set", "tenant_mismatch"}

\* policy_cache columns; the verdict is parse_outcome with quarantine_reason.
Rows == [tenant : Tenants, body : Bodies, verdict : Verdicts]

ASSUME ResolutionAssumption ==
  /\ Issued \subseteq Artifacts
  /\ Declares \in [Bodies -> Tenants \cup {NoTenant}]
  /\ LastRelease \in Nat \ {0}
  /\ Accepts \in [Releases -> SUBSET Bodies]
  /\ NoTenant \notin Tenants
  /\ NoArtifact \notin Issued
  /\ NoRow \notin Rows

VARIABLES
  published,  \* governance: the artifact version in force for each tenant
  cache,      \* policy_cache: version id -> row
  decided,    \* the artifact versions ledger rows were decided under
  release,    \* the parser release each driver process runs
  pass        \* what each driver process's pass knows

vars == <<published, cache, decided, release, pass>>

\* A pass that has not resolved: the handler's memo is empty.
Unresolved == [tenant |-> NoTenant, step |-> "idle", got |-> NoArtifact]
NoPolicies(t) == [Unresolved EXCEPT !.tenant = t, !.step = "no_policies"]
Fetched(t, a) == [Unresolved EXCEPT !.tenant = t, !.step = "fetched", !.got = a]
Stalled(t) == [Unresolved EXCEPT !.tenant = t, !.step = "stalled"]

Init ==
  /\ published \in [Tenants -> Issued \cup {NoArtifact}]
  /\ \A t \in Tenants : published[t] # NoArtifact => published[t].tenant = t
  /\ cache = [v \in VersionIds |-> NoRow]
  /\ decided = {}
  /\ release = [p \in Passes |-> 1]
  /\ pass = [p \in Passes |-> Unresolved]

-----------------------------------------------------------------------------
(* policy_source.py: what an HTTP answer means.                            *)

Response(status, about, artifact) ==
  [status |-> status, about |-> about, artifact |-> artifact]

\* The answer governance owes t: its artifact, or a 404 that names t.
Truth(t) ==
  IF published[t] = NoArtifact THEN Response("404", t, NoArtifact)
                               ELSE Response("200", NoTenant, published[t])

\* What may come back instead: nothing, an error status, a page that is no
\* artifact version, a bare 404, or a 404 about another tenant.
Failures(t) ==
       {Response(status, NoTenant, NoArtifact) : status \in {"lost", "error", "200", "404"}}
  \cup {Response("404", u, NoArtifact) : u \in Tenants \ {t}}

(* Mistake: a 200 is an artifact version, whatever its payload.            *)
ReadingUnchecked(t, resp) ==
  CASE resp.status = "404" /\ resp.about = t -> "not_found"
    [] resp.status = "200" -> "resolved"
    [] OTHER -> "unavailable"

(* Mistake: any 404 means the tenant has no artifact.                      *)
ReadingAny404(t, resp) ==
  CASE resp.status = "404" -> "not_found"
    [] resp.status = "200" /\ resp.artifact = NoArtifact -> "malformed_response"
    [] resp.status = "200" /\ resp.artifact # NoArtifact -> "resolved"
    [] OTHER -> "unavailable"

Reading(t, resp) ==
  CASE resp.status = "404" /\ resp.about = t -> "not_found"
    [] resp.status = "200" /\ resp.artifact = NoArtifact -> "malformed_response"
    [] resp.status = "200" /\ resp.artifact # NoArtifact -> "resolved"
    [] OTHER -> "unavailable"

\* resolve_policy_set up to the put: a pass's first event makes it resolve.  A
\* stalled pass is over; the next one builds a new handler and asks again.
Hear(p, t, resp) ==
  LET reading == Reading(t, resp) IN
  /\ pass[p].step \in {"idle", "stalled"}
  /\ pass' = [pass EXCEPT ![p] =
       CASE reading = "not_found" -> NoPolicies(t)
         [] reading = "resolved" -> Fetched(t, resp.artifact)
         [] OTHER -> Stalled(t)]
  /\ UNCHANGED <<published, cache, decided, release>>

Resolve(p, t) == Hear(p, t, Truth(t))
MisHear(p, t) == \E resp \in Failures(t) : Hear(p, t, resp)

-----------------------------------------------------------------------------
(* policy_cache.py: the tenant-guarded upsert, and its classification.     *)

(* Mistake: the parse is given no expected tenant.                         *)
ClassifyForAnyTenant(t, body, rel) ==
  IF body \in Accepts[rel] THEN "valid" ELSE "invalid_policy_set"

Classify(t, body, rel) ==
  CASE body \notin Accepts[rel] -> "invalid_policy_set"
    [] body \in Accepts[rel] /\ Declares[body] # t -> "tenant_mismatch"
    [] OTHER -> "valid"

(* Mistake: the conflict update has no guard.                              *)
RefusedNever(a) == FALSE

Refused(a) == cache[a.version] # NoRow /\ cache[a.version].tenant # a.tenant

(* Mistake: the refusal is noticed by nobody, the parse is handed back.    *)
AnswerParsed(p) == Classify(pass[p].tenant, pass[p].got.body, release[p])

\* What the put hands back to the engine: a policy set only if valid.
Answer(p) ==
  IF Refused(pass[p].got) THEN "version_collision"
  ELSE Classify(pass[p].tenant, pass[p].got.body, release[p])

(* Mistake: the conflict update leaves the old classification.             *)
UpsertedKeepingVerdict(row, a, rel) ==
  [tenant |-> a.tenant, body |-> a.body,
   verdict |-> IF row = NoRow THEN Classify(a.tenant, a.body, rel) ELSE row.verdict]

\* The row after an insert or an applied update: every column is overwritten.
Upserted(row, a, rel) ==
  [tenant |-> a.tenant, body |-> a.body, verdict |-> Classify(a.tenant, a.body, rel)]

(* Mistake: a version already cached is neither written nor classified.    *)
PutInsertOnly(p) ==
  LET a == pass[p].got
      row == IF cache[a.version] = NoRow THEN Upserted(NoRow, a, release[p]) ELSE cache[a.version]
  IN
  /\ pass[p].step = "fetched"
  /\ cache' = [cache EXCEPT ![a.version] = row]
  /\ pass' = [pass EXCEPT ![p] =
       IF ~Refused(a) /\ row.verdict = "valid" THEN [@ EXCEPT !.step = "evaluating"]
                                              ELSE Stalled(a.tenant)]
  /\ UNCHANGED <<published, decided, release>>

Put(p) ==
  LET a == pass[p].got IN
  /\ pass[p].step = "fetched"
  /\ cache' = IF Refused(a) THEN cache
              ELSE [cache EXCEPT ![a.version] = Upserted(@, a, release[p])]
  /\ pass' = [pass EXCEPT ![p] =
       IF Answer(p) = "valid" THEN [@ EXCEPT !.step = "evaluating"]
                              ELSE Stalled(a.tenant)]
  /\ UNCHANGED <<published, decided, release>>

-----------------------------------------------------------------------------
\* An event decided under the pinned version: its ledger rows name the id.  (A
\* pass with no policies writes rows that name no version.)
Evaluate(p) ==
  /\ pass[p].step = "evaluating"
  /\ decided' = decided \cup {pass[p].got}
  /\ UNCHANGED <<published, cache, release, pass>>

\* The pass is over, its process died, or the put's transaction raised: the
\* handler is discarded, and the next pass resolves anew.
Discard(p) ==
  /\ pass[p].step # "idle"
  /\ pass' = [pass EXCEPT ![p] = Unresolved]
  /\ UNCHANGED <<published, cache, decided, release>>

\* The process is restarted on the next parser release.
Deploy(p) ==
  /\ release[p] + 1 \in Releases
  /\ release' = [release EXCEPT ![p] = @ + 1]
  /\ pass' = [pass EXCEPT ![p] = Unresolved]
  /\ UNCHANGED <<published, cache, decided>>

\* Governance: an artifact is revised, registered or retired.
Revise(t, a) ==
  /\ a # NoArtifact => a.tenant = t
  /\ a # published[t]
  /\ published' = [published EXCEPT ![t] = a]
  /\ UNCHANGED <<cache, decided, release, pass>>

Next ==
  \/ \E p \in Passes :
       \/ \E t \in Tenants : Resolve(p, t) \/ MisHear(p, t)
       \/ Put(p) \/ Evaluate(p) \/ Discard(p) \/ Deploy(p)
  \/ \E t \in Tenants, a \in Issued \cup {NoArtifact} : Revise(t, a)

Spec == Init /\ [][Next]_vars

\* Each tenant's passes are driven again and again, and end; governance answers,
\* and a process survives long enough, infinitely often; a rollout completes.
Fairness ==
  /\ \A t \in Tenants :
       /\ SF_vars(\E p \in Passes : Resolve(p, t))
       /\ SF_vars(\E p \in Passes : pass[p].tenant = t /\ Put(p))
       /\ SF_vars(\E p \in Passes : pass[p].tenant = t /\ Evaluate(p))
  /\ \A p \in Passes : WF_vars(Discard(p)) /\ WF_vars(Deploy(p))

FairSpec == Spec /\ Fairness

-----------------------------------------------------------------------------
\* Every variable holds what the code can put there; a pass past the provider
\* holds an artifact version resolved for its own tenant.
TypeOK ==
  /\ published \in [Tenants -> Issued \cup {NoArtifact}]
  /\ \A t \in Tenants : published[t] # NoArtifact => published[t].tenant = t
  /\ cache \in [VersionIds -> Rows \cup {NoRow}]
  /\ decided \subseteq Issued
  /\ release \in [Passes -> Releases]
  /\ pass \in [Passes -> [tenant : Tenants \cup {NoTenant},
                          step : {"idle", "no_policies", "fetched", "evaluating", "stalled"},
                          got : Issued \cup {NoArtifact}]]
  /\ \A p \in Passes : pass[p].step \in {"fetched", "evaluating"} =>
       pass[p].got \in Issued /\ pass[p].got.tenant = pass[p].tenant

\* A tenant that reuses no id for a second body, as governance never does.
NamesOneBody(a) ==
  \A b \in Issued : b.tenant = a.tenant /\ b.version = a.version => b = a

(* policy_cache.py: "an audit row that cannot reach the policy it was      *)
(* evaluated against is not an audit row".  Whatever ids tenants share,    *)
(* the id a ledger row names joins to a cache row of the ledger row's own  *)
(* tenant, and to the very body evaluated unless that tenant reuses ids.   *)
AuditJoins ==
  \A d \in decided :
    /\ cache[d.version] # NoRow
    /\ cache[d.version].tenant = d.tenant
    /\ NamesOneBody(d) => cache[d.version].body = d.body

(* PolicyCache.put: the "row's classification UNABLE to disagree with its  *)
(* body".  Across re-fetches, reused ids and processes of two releases, a  *)
(* stored verdict is what some release says of the stored body for the     *)
(* stored tenant: none is left over from an earlier classification.        *)
VerdictMatchesBody ==
  \A v \in VersionIds : cache[v] # NoRow =>
    \E rel \in Releases : cache[v].verdict = Classify(cache[v].tenant, cache[v].body, rel)

(* policies.py: a misregistered artifact "must never let one tenant's      *)
(* rules cache, evaluate, or audit under another's name".  Every decision  *)
(* was made under a body that declares the deciding tenant, and a row      *)
(* listed valid declares the tenant it is listed under.                    *)
OwnRulesOnly ==
  /\ \A d \in decided : Declares[d.body] = d.tenant
  /\ \A v \in VersionIds : cache[v] # NoRow /\ cache[v].verdict = "valid" =>
       Declares[cache[v].body] = cache[v].tenant

(* policy_source.py: "The caller must never round this down to 'no         *)
(* policies'".  A pass goes on with no policies only in a step in which    *)
(* governance has no artifact for its tenant, never on a failure.          *)
NeverMatchNone ==
  [][\A p \in Passes :
       pass[p].step # "no_policies" /\ pass'[p].step = "no_policies" =>
         published[pass'[p].tenant] = NoArtifact]_vars

(* policy_cache.py: "When a schema fix ships, a re-fetch re-classifies".   *)
(* A version in force that the last release finds valid comes to decide    *)
(* its tenant's events, whatever outages and quarantines came before,      *)
(* unless it is superseded or another tenant holds its id.                 *)
CurrentPolicyDecides ==
  \A a \in Issued :
    (/\ published[a.tenant] = a
     /\ Classify(a.tenant, a.body, LastRelease) = "valid")
      ~> (a \in decided \/ published[a.tenant] # a \/ Refused(a))

\* Version ids have one holder for good, and decisions name held ids only.
Audit == INSTANCE PolicyAudit WITH
  Nobody <- NoTenant,
  holder <- [v \in VersionIds |-> IF cache[v] = NoRow THEN NoTenant ELSE cache[v].tenant],
  judged <- {<<d.tenant, d.version>> : d \in decided}
ImplementsPolicyAudit == Audit!Spec

=============================================================================
