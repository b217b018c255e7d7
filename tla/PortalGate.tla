----------------------------- MODULE PortalGate -----------------------------
(***************************************************************************)
(* The signed request that asks BLOQUE Portal whether a folio may start a  *)
(* quote (modules/portal_gate).  Two layers send it again: httpx's auth    *)
(* flow once when the timestamp had expired, and the loop of               *)
(* validate_folio on timeouts and on answers that may pass.                *)
(***************************************************************************)
EXTENDS Integers

CONSTANTS
    Request,        \* calls of validate_folio
    RetrySetting    \* PORTAL_RETRY_ATTEMPTS

ASSUME PortalGateAssumption == RetrySetting \in Int

VARIABLE portal     \* per call: the loop, what was heard last, the verdict

\* _resolved_retry_attempts: 1 to 5, whatever is configured
Attempts == IF RetrySetting < 1 THEN 1 ELSE IF RetrySetting > 5 THEN 5 ELSE RetrySetting

Retried == {"timeout", "busy"}      \* TimeoutException, ConnectError; 429, 5xx

\* What one exchange with Portal may bring.  200 comes with a status, without
\* one, or with a body that is not JSON; "broken" is any other httpx error.
Reply == Retried \cup {"eligible", "ineligible", "nostatus", "notjson", "expired",
                       "unauthorized", "forbidden", "odd", "broken"}

Verdict == {"eligible", "not_eligible", "unavailable", "integration_auth_failure", "raised"}

\* _resolve_success, _resolve_auth_failure and the rest of the loop's body.
Resolve(r) ==
    CASE r = "eligible"                      -> "eligible"
      [] r \in {"ineligible", "forbidden"}   -> "not_eligible"
      [] r \in {"expired", "unauthorized"}   -> "integration_auth_failure"
      [] r \in {"nostatus", "odd"} \cup Retried -> "unavailable"
      [] r \in {"notjson", "broken"}         -> "raised"

Asking(q) == portal[q].verdict = "asking"

\* Mutant: the auth flow signs again as often as the timestamp has expired.
AfterRefiring(p, r) ==
    LET sent == [p EXCEPT !.sends = p.sends + 1, !.heard = r] IN
    IF r = "expired" /\ p.sends < 12 THEN [sent EXCEPT !.refired = TRUE]
    ELSE IF r \in Retried /\ p.attempt < Attempts
         THEN [sent EXCEPT !.attempt = p.attempt + 1, !.refired = FALSE]
         ELSE [sent EXCEPT !.verdict = Resolve(r)]

\* Mutant: a timeout does not use up an attempt.
AfterRetryingForever(p, r) ==
    LET sent == [p EXCEPT !.sends = p.sends + 1, !.heard = r] IN
    IF r = "expired" /\ ~ p.refired THEN [sent EXCEPT !.refired = TRUE]
    ELSE IF r \in Retried THEN [p EXCEPT !.heard = r, !.refired = FALSE]
         ELSE [sent EXCEPT !.verdict = Resolve(r)]

\* A call after one more exchange.
After(p, r) ==
    LET sent == [p EXCEPT !.sends = p.sends + 1, !.heard = r] IN
    IF r = "expired" /\ ~ p.refired THEN [sent EXCEPT !.refired = TRUE]
    ELSE IF r \in Retried /\ p.attempt < Attempts
         THEN [sent EXCEPT !.attempt = p.attempt + 1, !.refired = FALSE]
         ELSE [sent EXCEPT !.verdict = Resolve(r)]

Exchange(q) ==
    /\ Asking(q)
    /\ \E r \in Reply : portal' = [portal EXCEPT ![q] = After(@, r)]

PortalInit ==
    portal = [q \in Request |->
        [attempt |-> 1, refired |-> FALSE, sends |-> 0, heard |-> "nothing",
         verdict |-> "asking"]]

-----------------------------------------------------------------------------
\* Types of a call: where it is in its two loops, what it heard, its verdict.
PortalTypeOK ==
    portal \in [Request -> [attempt : 1..Attempts, refired : BOOLEAN, sends : Nat,
                            heard : Reply \cup {"nothing"},
                            verdict : Verdict \cup {"asking"}]]

\* Both layers together send at most twice per attempt, and nothing is sent
\* after an answer that settles the matter (client.py:199-213, auth.py:44-48).
SendsBounded ==
    \A q \in Request :
        /\ portal[q].sends <= 2 * Attempts
        /\ Asking(q) => portal[q].heard \in Retried \cup {"expired", "nothing"}

\* A folio is rejected only if Portal said so, and accepted only if Portal said
\* so, whatever went wrong and was retried before (RN-009, client.py:74-78).
VerdictIsPortals ==
    \A q \in Request :
        /\ portal[q].verdict = "not_eligible" => portal[q].heard \in {"ineligible", "forbidden"}
        /\ portal[q].verdict = "eligible" => portal[q].heard = "eligible"
        /\ portal[q].verdict = "integration_auth_failure" =>
              portal[q].heard \in {"expired", "unauthorized"}

\* Every call of Portal (portal_gate/client.py, auth.py).
PortalInv == PortalTypeOK /\ SendsBounded /\ VerdictIsPortals

=============================================================================
