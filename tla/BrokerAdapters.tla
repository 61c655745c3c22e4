-------------------------- MODULE BrokerAdapters --------------------------
(***************************************************************************)
(* The brokers the service knows and what their adapters allow             *)
(* (app/services/broker_adapters.py, broker_env.py, read_only_broker.py,   *)
(* icici_readonly.py, upstox_readonly.py and broker_smoke.py): from the    *)
(* credentials in the environment to a smoke test.  Adapters keep no state *)
(* and none but the paper adapter takes orders: these are operators.       *)
(***************************************************************************)
EXTENDS FiniteSets

\* BROKER_REQUIRED_CREDENTIALS.
Required == [icici         |-> {"app_key", "client_secret", "user_id", "api_session"},
             zerodha       |-> {"api_key", "api_secret", "access_token"},
             upstox        |-> {"client_id", "client_secret", "redirect_uri", "access_token"},
             angelone      |-> {"api_key", "client_code", "access_token"},
             motilal_oswal |-> {"api_key", "client_code", "access_token"},
             dhan          |-> {"client_id", "access_token"},
             fyers         |-> {"client_id", "access_token"}]

Broker == DOMAIN Required
Reads == {"quote", "funds", "positions"}

\* The environment of broker b: what each of its variables is set to.
Environment(b) == [Required[b] -> {"absent", "blank", "text"}]

\* load_broker_credentials(): the values that are left when blanks are stripped.
Loaded(b, env) == {field \in Required[b] : env[field] = "text"}

\* BrokerCredentials.missing_fields() and configured.
Missing(b, given) == Required[b] \ given
Configured(b, given) == Missing(b, given) = {}

\* What an adapter says of its connection, and which reads it can make.
Adapter(connected, reads) == [connected |-> connected, reads |-> reads]

\* default_broker_adapters(): no adapter is connected, whatever its credentials.
Unconnected == Adapter(FALSE, {})

\* The two builders of read-only adapters refuse incomplete credentials, which
\* leaves the broker with its default adapter.
Build(b, given) ==
    IF b \in {"icici", "upstox"} /\ Configured(b, given) THEN Adapter(TRUE, Reads)
    ELSE Unconnected

\* A read raises unless the transport is connected and the read was given; the
\* reads in down fail at the broker.
Answers(a, read, down) == a.connected /\ read \in a.reads /\ read \notin down

\* run_broker_smoke_test(): one failing read does not keep the others from being made.
Smoke(a, down) == [read \in Reads |-> Answers(a, read, down)]
Connected(checks) == \A read \in Reads : checks[read]
-----------------------------------------------------------------------------
\* Whatever part of the credentials is in the environment, and however blank, a
\* smoke test finds broker b connected only if every required field has a text and
\* every read succeeds.
ConnectedIsConfigured(b, env, down) ==
    Connected(Smoke(Build(b, Loaded(b, env)), down)) =>
        /\ \A field \in Required[b] : env[field] = "text"
        /\ down \cap Reads = {}
=============================================================================
