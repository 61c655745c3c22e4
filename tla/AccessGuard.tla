---------------------------- MODULE AccessGuard ----------------------------
(***************************************************************************)
(* ObservabilityAccessGuard (app/services/observability_access.py) and the *)
(* middleware of app/main.py that asks it before a protected path is       *)
(* served.  The guard is built once from the environment and has no state: *)
(* everything here is an operator on the environment and the request.      *)
(***************************************************************************)
EXTENDS Naturals

CONSTANTS Absent,   \* an environment variable or header that is not there; an empty secret
                    \* is treated as one
          Blank,    \* a text that strip() leaves nothing of
          Ascii     \* the secrets hmac.compare_digest() can compare

\* A mode that is not recognised asks for a proxy; only an absent one is the default.
Mode(raw) == IF raw \in {Absent, "trusted_network"} THEN "trusted_network" ELSE "oidc_proxy"

\* The names of a comma-separated list.
Names(list) == list \ {Blank}

\* from_environment().
Guard(s) == [mode |-> Mode(s.mode), secret |-> s.secret, groups |-> Names(s.groups)]

\* authorize(): the status of the reply the guard gives instead of serving, or 200.
\* compare_digest() raises a TypeError, which the middleware does not catch, for a
\* text that is not ASCII; an absent header is compared as the empty text.
Authorize(g, h) ==
    IF g.mode = "trusted_network" THEN 200
    ELSE IF g.secret = Absent THEN 503
    ELSE IF ~({g.secret, h.secret} \subseteq Ascii \cup {Absent}) THEN 500
    ELSE IF h.secret # g.secret \/ h.user \in {Absent, Blank} THEN 401
    ELSE IF g.groups # {} /\ g.groups \cap Names(h.groups) = {} THEN 403
    ELSE 200

\* protect_observability_access(): paths under /v1/observability/, and the metrics
\* and history of the paper runs, are protected.
Protected == {"observability", "paper_metrics", "paper_history"}

Status(s, path, h) == IF path \in Protected THEN Authorize(Guard(s), h) ELSE 200
-----------------------------------------------------------------------------
\* README.md says the guard fails closed when trust or identity is missing: unless
\* the environment s leaves the mode unset or names the trusted network, a protected
\* path is served only to a request with the configured secret, a user, and one of
\* the allowed groups if there are any, whatever is misspelled, blank or not ASCII.
FailsClosed(s, path, h) ==
    path \in Protected /\ Status(s, path, h) = 200 =>
        \/ s.mode \in {Absent, "trusted_network"}
        \/ /\ s.secret # Absent
           /\ h.secret = s.secret
           /\ h.user \notin {Absent, Blank}
           /\ \/ s.groups \subseteq {Blank}
              \/ \E name \in s.groups \cap h.groups : name # Blank
=============================================================================
