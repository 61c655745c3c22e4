------------------------------ MODULE LiveGate ------------------------------
(***************************************************************************)
(* The gate in front of live and shadow orders: LiveRiskGuard,             *)
(* ControlledLiveGateway, AuditLog and ShadowExecutionRecorder             *)
(* (app/services/live_risk_guard.py, controlled_live_gateway.py,           *)
(* audit_log.py, shadow_execution.py) behind /v1/readiness and             *)
(* /v1/shadow/order of app/main.py.                                        *)
(*                                                                         *)
(* One guard object serves every request thread.  Each request asks a      *)
(* fixed list of questions and reads one attribute of the guard for each,  *)
(* without a lock, while the attributes are assigned by others: nothing in *)
(* app/ assigns them or calls mark_order_accepted(), so whoever operates   *)
(* the service and submits approved orders is external.                    *)
(***************************************************************************)
EXTENDS Integers, Sequences, FiniteSets

CONSTANTS Client,       \* the threads that handle requests
          NoRequest,    \* what an idle thread handles
          Request,      \* the requests that arrive
          DailyPnl,     \* the values daily_pnl takes
          MaxNotional,  \* max_order_notional
          MaxDailyLoss, \* max_daily_loss
          MaxCalls      \* bound: how many requests a behaviour makes

\* Mutant: an order key that was accepted is not looked up.
PreflightRouteUnkeyed ==
    <<"mode", "kill_switch", "live_confirmed", "daily_pnl", "order", "notional">>

\* validate_order() asks the gate and then for the order.
PreflightRoute ==
    <<"mode", "kill_switch", "live_confirmed", "daily_pnl", "order", "notional", "order_key">>

\* /v1/readiness reports the gate.
ReadinessRoute == <<"mode", "kill_switch", "live_confirmed", "daily_pnl">>

\* A shadow order needs the mode, and an intent the recorder does not refuse.
ShadowRoute == <<"shadow_mode", "intent">>

\* The questions of each kind of request, in the order the code asks them.
Route == [preflight |-> PreflightRoute, readiness |-> ReadinessRoute, shadow |-> ShadowRoute]

\* BrokerOrder refuses an order of no quantity before it gets to the gateway, and
\* daily_pnl starts at zero.
ASSUME GateAssumption ==
    /\ NoRequest \notin Request
    /\ MaxCalls \in Nat
    /\ 0 \in DailyPnl
    /\ \A r \in Request :
        /\ r.kind \in DOMAIN Route
        /\ r.kind = "preflight" => r.quantity > 0 /\ r.side \in {"BUY", "SELL"}

VARIABLES
    mode,           \* LiveRiskGuard.mode
    kill_switch,    \* LiveRiskGuard.kill_switch
    live_confirmed, \* LiveRiskGuard.live_confirmed
    daily_pnl,      \* LiveRiskGuard.daily_pnl
    seen,           \* LiveRiskGuard._seen_order_keys
    events,         \* AuditLog.events, each with the call it was recorded for
    intents,        \* ShadowExecutionRecorder.intents
    request,        \* what each thread handles
    call,           \* the number of the call each thread handles
    asked,          \* how many questions of its route it has passed
    refused,        \* whether an exception is propagating in it
    calls,          \* how many calls have been made
    closed          \* history variable: what has stood against its request at every
                    \* moment since the request arrived

attributes == <<mode, kill_switch, live_confirmed, daily_pnl, seen>>
threadVars == <<request, call, asked, refused, calls>>
vars == <<attributes, events, intents, threadVars, closed>>

Question == {"mode", "kill_switch", "live_confirmed", "daily_pnl", "order",
             "notional", "order_key", "shadow_mode", "intent"}

\* The type invariant: the guard, the trail and what each thread handles stay well
\* formed, and every event of the trail names its order.
TypeOK ==
    /\ mode \in {"paper", "shadow", "live"}
    /\ kill_switch \in BOOLEAN
    /\ live_confirmed \in BOOLEAN
    /\ daily_pnl \in DailyPnl
    /\ seen \subseteq {r.order_key : r \in Request}
    /\ events \in Seq([type : {"attempted", "blocked", "approved"},
                       call : 1..MaxCalls, order_key : {r.order_key : r \in Request}])
    /\ intents \in Seq(Request)
    /\ request \in [Client -> Request \cup {NoRequest}]
    /\ call \in [Client -> 0..MaxCalls]
    /\ asked \in [Client -> 0..7]
    /\ refused \in [Client -> BOOLEAN]
    /\ calls \in 0..MaxCalls
    /\ closed \in [Client -> SUBSET Question]

Init ==
    /\ mode = "paper"
    /\ kill_switch = TRUE
    /\ live_confirmed = FALSE
    /\ daily_pnl = 0
    /\ seen = {}
    /\ events = <<>>
    /\ intents = <<>>
    /\ request = [c \in Client |-> NoRequest]
    /\ call = [c \in Client |-> 0]
    /\ asked = [c \in Client |-> 0]
    /\ refused = [c \in Client |-> FALSE]
    /\ calls = 0
    /\ closed = [c \in Client |-> {}]
-----------------------------------------------------------------------------
\* The answer to question q of request r, from the attributes as they are now.
Holds(r, q) ==
    \/ q = "mode"           /\ mode = "live"
    \/ q = "kill_switch"    /\ ~kill_switch
    \/ q = "live_confirmed" /\ live_confirmed
    \/ q = "daily_pnl"      /\ daily_pnl > -MaxDailyLoss
    \/ q = "order"          /\ r.quantity > 0 /\ r.price > 0
    \/ q = "notional"       /\ r.quantity * r.price <= MaxNotional
    \/ q = "order_key"      /\ r.order_key \notin seen
    \/ q = "shadow_mode"    /\ mode = "shadow"
    \/ q = "intent"         /\ r.quantity > 0 /\ r.price > 0 /\ r.side \in {"BUY", "SELL"}

\* What a granted request of each kind must be able to rely on.
Needed == [preflight |-> Question \ {"shadow_mode", "intent"},
           readiness |-> {"mode", "kill_switch", "live_confirmed", "daily_pnl"},
           shadow    |-> {"shadow_mode", "intent"}]

\* Mutant: the event does not say which order it is about.
RecordedUnkeyed(type, r, n) ==
    IF r.kind = "preflight" THEN Append(events, [type |-> type, call |-> n]) ELSE events

\* The trail after AuditLog.record() for call n of request r; only preflights
\* are audited.
Recorded(type, r, n) ==
    IF r.kind = "preflight"
    THEN Append(events, [type |-> type, call |-> n, order_key |-> r.order_key])
    ELSE events

\* ShadowExecutionRecorder.record() of request r.
Intended(r) == IF r.kind = "shadow" THEN Append(intents, r) ELSE intents

\* A request arrives, and a preflight records its attempt.
Attempt(c, r) ==
    /\ request[c] = NoRequest
    /\ calls < MaxCalls
    /\ calls' = calls + 1
    /\ request' = [request EXCEPT ![c] = r]
    /\ call' = [call EXCEPT ![c] = calls + 1]
    /\ events' = Recorded("attempted", r, calls + 1)
    /\ closed' = [closed EXCEPT ![c] = {q \in Needed[r.kind] : ~Holds(r, q)}]
    /\ UNCHANGED <<attributes, intents, asked, refused>>

\* The next question of the request's route is asked.
Ask(c) ==
    /\ request[c] # NoRequest
    /\ ~refused[c]
    /\ asked[c] < Len(Route[request[c].kind])
    /\ IF Holds(request[c], Route[request[c].kind][asked[c] + 1])
       THEN /\ asked' = [asked EXCEPT ![c] = @ + 1]
            /\ UNCHANGED refused
       ELSE /\ refused' = [refused EXCEPT ![c] = TRUE]
            /\ UNCHANGED asked
    /\ UNCHANGED <<attributes, events, intents, request, call, calls, closed>>

\* The request is answered and its thread is free.
Answer(c) ==
    /\ request' = [request EXCEPT ![c] = NoRequest]
    /\ call' = [call EXCEPT ![c] = 0]
    /\ asked' = [asked EXCEPT ![c] = 0]
    /\ refused' = [refused EXCEPT ![c] = FALSE]
    /\ closed' = [closed EXCEPT ![c] = {}]
    /\ UNCHANGED <<attributes, calls>>

\* Mutant: the exception leaves the gateway unrecorded.
RefuseSilently(c) ==
    /\ refused[c]
    /\ Answer(c)
    /\ UNCHANGED <<events, intents>>

\* An answer was no: a preflight records that it is blocked and lets the
\* exception through, a shadow order is a 409 or 400, readiness says not allowed.
Refuse(c) ==
    /\ refused[c]
    /\ Answer(c)
    /\ events' = Recorded("blocked", request[c], call[c])
    /\ UNCHANGED intents

\* Every answer was yes.  Nothing is sent to a broker.
Grant(c) ==
    /\ ~refused[c]
    /\ request[c] # NoRequest
    /\ asked[c] = Len(Route[request[c].kind])
    /\ Answer(c)
    /\ events' = Recorded("approved", request[c], call[c])
    /\ intents' = Intended(request[c])

\* What has stood against the request of c from its arrival to the next state.
StillClosed == closed' = [c \in Client |-> {q \in closed[c] : ~Holds(request[c], q)'}]

\* Somebody assigns an attribute of the guard.
Operate ==
    /\ \/ mode' \in {"paper", "shadow", "live"}
          /\ UNCHANGED <<kill_switch, live_confirmed, daily_pnl>>
       \/ kill_switch' \in BOOLEAN
          /\ UNCHANGED <<mode, live_confirmed, daily_pnl>>
       \/ live_confirmed' \in BOOLEAN
          /\ UNCHANGED <<mode, kill_switch, daily_pnl>>
       \/ daily_pnl' \in DailyPnl
          /\ UNCHANGED <<mode, kill_switch, live_confirmed>>
    /\ UNCHANGED <<seen, events, intents, threadVars>>
    /\ StillClosed

\* mark_order_accepted(): an order whose preflight was approved has been submitted
\* and accepted.
MarkAccepted(i) ==
    /\ events[i].type = "approved"
    /\ seen' = seen \cup {events[i].order_key}
    /\ UNCHANGED <<mode, kill_switch, live_confirmed, daily_pnl, events, intents, threadVars>>
    /\ StillClosed

Next ==
    \/ \E c \in Client :
        \/ \E r \in Request : Attempt(c, r)
        \/ Ask(c)
        \/ Refuse(c)
        \/ Grant(c)
    \/ Operate
    \/ \E i \in DOMAIN events : MarkAccepted(i)

Spec == Init /\ [][Next]_vars
-----------------------------------------------------------------------------
\* Whatever is assigned while a request reads the attributes one by one, it is
\* granted only if each condition held at some moment since it arrived: a kill
\* switch that was on all the time, a loss limit that was reached before, or an
\* order key that was accepted before stops every preflight that starts after it,
\* and readiness never reports an open gate then.  (No more than that: the gate
\* need not have been open at any one moment.)
NothingPassesAClosedGate ==
    \A c \in Client :
        /\ request[c] # NoRequest
        /\ ~refused[c]
        /\ asked[c] = Len(Route[request[c].kind])
        => closed[c] = {}

\* The events of call n are its attempt and then, once it is no longer handled, one
\* decision: however preflights overlap and whichever question stops them, none
\* ends unrecorded, none is decided twice or before it was attempted.
EveryAttemptIsDecided ==
    \A n \in 1..calls :
        LET trail   == {i \in DOMAIN events : events[i].call = n}
            handled == \E c \in Client : request[c] # NoRequest /\ call[c] = n
        IN  trail # {} =>
            \E i \in trail :
                /\ events[i].type = "attempted"
                /\ IF handled
                   THEN trail = {i}
                   ELSE \E j \in trail : /\ i < j
                                         /\ trail = {i, j}
                                         /\ events[j].type \in {"blocked", "approved"}
=============================================================================
