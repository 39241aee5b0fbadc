------------------------------ MODULE WorkSink ------------------------------
(***************************************************************************)
(* What one attempt to mint through PM comes to (work_sink.py): how the    *)
(* exchange over the wire ended, what PM may have done meanwhile, and what *)
(* the sink reads it as.  The sink does not see PM: it is right when no    *)
(* reading contradicts any effect its exchange may hide.                   *)
(***************************************************************************)
EXTENDS Naturals

CONSTANT Statuses      \* the HTTP status codes PM or a proxy may answer

ASSUME SinkAssumption == Statuses \subseteq Nat

\* unsent: _NEVER_SENT_ERRORS; unbuilt: a ValueError or an OSError;
\* interrupted: any other httpx error; answered: a response.
Ends == {"unsent", "unbuilt", "interrupted", "answered"}

\* A body that names the item created, or the scope refused, or neither: not
\* JSON, without an id, or with a blank one.
ResponseBodies == {"names_item", "names_scope", "neither"}

Exchanges ==
  [end : Ends \ {"answered"}]
    \cup [end : {"answered"}, status : Statuses, body : ResponseBodies]

PermanentStatuses == {400, 409, 422}
Readings == {"created", "rejected", "indeterminate", "unavailable"}

(* Mistake: an answered failure is read as if PM had done nothing.          *)
ReadServerErrorAsUnavailable(x) ==
  CASE x.end = "interrupted" -> "indeterminate"
    [] x.end = "answered" /\ x.status \in 200 .. 299 ->
         IF x.body = "names_item" THEN "created" ELSE "indeterminate"
    [] OTHER -> "unavailable"

\* submit and _read_response.
Read(x) ==
  CASE x.end \in {"unsent", "unbuilt"} -> "unavailable"
    [] x.end = "interrupted" -> "indeterminate"
    [] x.end = "answered" ->
         CASE x.status \in 200 .. 299 ->
                IF x.body = "names_item" THEN "created" ELSE "indeterminate"
           [] x.status = 404 ->
                IF x.body = "names_scope" THEN "rejected" ELSE "unavailable"
           [] x.status \in PermanentStatuses -> "rejected"
           [] x.status >= 500 -> "indeterminate"
           [] OTHER -> "unavailable"

\* What PM may have done: nothing, minted the item, or not decided yet, the
\* request or its transaction being under way.
PMEffects(x) ==
  CASE x.end \in {"unsent", "unbuilt"} -> {"none"}
    [] x.end = "interrupted" -> {"minted", "underway"}
    [] x.end = "answered" ->
         CASE x.status \in 200 .. 299 ->
                IF x.body = "names_item" THEN {"minted"} ELSE {"minted", "underway"}
           [] x.status >= 500 -> {"minted", "underway"}
           [] OTHER -> {"none"}

=============================================================================
