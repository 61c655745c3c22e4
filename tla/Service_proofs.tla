--------------------------- MODULE Service_proofs ---------------------------
(***************************************************************************)
(* Proofs about the request path of the service: LiveGate and the paper    *)
(* validation metrics for any number of threads, any requests, limits and  *)
(* histories, and the stateless guards for any environment and headers.    *)
(***************************************************************************)
EXTENDS LiveGate, AccessGuard, BrokerAdapters, ValidationMetrics, JournalFile_proofs

\* Everything a request of kind k needs is asked on its route.
LEMMA RouteAsksAll ==
    /\ DOMAIN Route = {"preflight", "readiness", "shadow"}
    /\ \A k \in DOMAIN Route :
        /\ Len(Route[k]) \in Nat
        /\ \A q \in Needed[k] : \E i \in 1..Len(Route[k]) : Route[k][i] = q
  <1>2. /\ Len(Route["preflight"]) = 7
        /\ Route["preflight"][1] = "mode"
        /\ Route["preflight"][2] = "kill_switch"
        /\ Route["preflight"][3] = "live_confirmed"
        /\ Route["preflight"][4] = "daily_pnl"
        /\ Route["preflight"][5] = "order"
        /\ Route["preflight"][6] = "notional"
        /\ Route["preflight"][7] = "order_key"
      BY DEF Route, PreflightRoute, ReadinessRoute, ShadowRoute
  <1>3. Len(Route["readiness"]) = 4 /\ Len(Route["shadow"]) = 2
      BY DEF Route, PreflightRoute, ReadinessRoute, ShadowRoute
  <1>4. \A q \in Needed["preflight"] : \E i \in 1..7 : Route["preflight"][i] = q
    <2>1. Needed["preflight"] = {"mode", "kill_switch", "live_confirmed", "daily_pnl", "order",
                                 "notional", "order_key"}
        BY DEF Needed, Question
    <2> QED BY <1>2, <2>1
  <1>5. \A q \in Needed["readiness"] : \E i \in 1..4 : Route["readiness"][i] = q
      BY DEF Needed, Route, PreflightRoute, ReadinessRoute, ShadowRoute
  <1>6. \A q \in Needed["shadow"] : \E i \in 1..2 : Route["shadow"][i] = q
      BY DEF Needed, Route, PreflightRoute, ReadinessRoute, ShadowRoute
  <1>7. DOMAIN Route = {"preflight", "readiness", "shadow"}
      BY DEF Route, PreflightRoute, ReadinessRoute, ShadowRoute
  <1> QED BY <1>2, <1>3, <1>4, <1>5, <1>6, <1>7

-----------------------------------------------------------------------------
\* What holds of a thread that handles a request: what has stood against it since
\* it arrived stands against it now, and is nothing it has asked for already.
Handling(c) ==
    /\ request[c] \in Request
    /\ asked[c] \in 0..Len(Route[request[c].kind])
    /\ closed[c] \subseteq Needed[request[c].kind]
    /\ \A q \in closed[c] : ~Holds(request[c], q)
    /\ \A i \in 1..asked[c] : Route[request[c].kind][i] \notin closed[c]

\* The inductive invariant.
GateInv ==
    /\ DOMAIN request = Client /\ DOMAIN asked = Client /\ DOMAIN closed = Client
    /\ \A c \in Client : request[c] = NoRequest => asked[c] = 0
    /\ \A c \in Client : request[c] # NoRequest => Handling(c)

\* A thread that handles its request as before, while the attributes may change
\* and closed is filtered accordingly, keeps the invariant.
LEMMA StillHandling ==
    ASSUME NEW c \in Client, GateInv, request[c] # NoRequest,
           request' = request, asked' = asked, StillClosed
    PROVE  Handling(c)'
  <1>1. /\ request'[c] = request[c] /\ asked'[c] = asked[c]
        /\ closed'[c] = {q \in closed[c] : ~Holds(request[c], q)'}
      BY DEF StillClosed
  <1>2. \A q \in closed'[c] : ~Holds(request[c], q)'
      BY <1>1
  <1> QED BY <1>1, <1>2 DEF Handling, GateInv

\* What the invariant says of one client.
ClientInv(c) ==
    /\ request[c] = NoRequest => asked[c] = 0
    /\ request[c] # NoRequest => Handling(c)

\* A client that a step leaves alone keeps the invariant while no attribute of the
\* guard changes.
LEMMA LeftAlone ==
    ASSUME NEW d \in Client, GateInv, UNCHANGED attributes,
           request'[d] = request[d], asked'[d] = asked[d], closed'[d] = closed[d]
    PROVE  ClientInv(d)'
  <1>1. \A r, q : Holds(r, q)' <=> Holds(r, q)
      BY DEF Holds, attributes
  <1>2. ClientInv(d)
      BY DEF GateInv, ClientInv
  <1> QED BY <1>1, <1>2 DEF Handling, ClientInv

\* Nothing is handled at first.
LEMMA GateInit == Init => GateInv
BY DEF Init, GateInv

\* A step of one client keeps the invariant if it keeps it for that client.
LEMMA OneClient ==
    ASSUME NEW c \in Client, GateInv, ClientInv(c)', UNCHANGED attributes,
           DOMAIN request' = Client, DOMAIN asked' = Client, DOMAIN closed' = Client,
           \A d \in Client \ {c} : /\ request'[d] = request[d]
                                  /\ asked'[d] = asked[d]
                                  /\ closed'[d] = closed[d]
    PROVE  GateInv'
  <1>1. \A d \in Client : ClientInv(d)'
      BY LeftAlone
  <1> QED BY <1>1 DEF GateInv, ClientInv

\* Every step keeps the invariant.
LEMMA GateStep == GateInv /\ [Next]_vars => GateInv'
  <1> SUFFICES ASSUME GateInv, [Next]_vars PROVE GateInv'
      OBVIOUS
  <1>1. ASSUME NEW c \in Client, NEW r \in Request, Attempt(c, r)
        PROVE  GateInv'
    <2>1. /\ request'[c] = r /\ asked'[c] = 0
          /\ closed'[c] = {q \in Needed[r.kind] : ~Holds(r, q)}
        BY <1>1 DEF Attempt, GateInv
    <2>2. \A q \in closed'[c] : ~Holds(r, q)'
        BY <1>1, <2>1 DEF Attempt, Holds, attributes
    <2>3. Len(Route[r.kind]) \in Nat
        BY RouteAsksAll, GateAssumption DEF GateAssumption
    <2>4. ClientInv(c)'
        BY <2>1, <2>2, <2>3, GateAssumption DEF Handling, ClientInv, GateAssumption
    <2> QED BY <1>1, <2>4, OneClient DEF Attempt, GateInv
  <1>2. ASSUME NEW c \in Client, Ask(c)
        PROVE  GateInv'
    <2>1. Handling(c) /\ request' = request /\ closed' = closed
        BY <1>2 DEF Ask, GateInv
    <2> DEFINE route == Route[request[c].kind]
    <2>2. Len(route) \in Nat
        BY <2>1, RouteAsksAll, GateAssumption DEF Handling, GateAssumption
    <2>3. \A r, q : Holds(r, q)' <=> Holds(r, q)
        BY <1>2 DEF Ask, Holds, attributes
    <2>4. ASSUME Holds(request[c], route[asked[c] + 1])
          PROVE  ClientInv(c)'
      <3>1. asked'[c] = asked[c] + 1 /\ asked[c] < Len(route)
          BY <1>2, <2>4 DEF Ask, GateInv
      <3>2. \A i \in 1..asked'[c] : i \in 1..asked[c] \/ i = asked[c] + 1
          BY <2>1, <2>2, <3>1 DEF Handling
      <3>3. route[asked[c] + 1] \notin closed[c]
          BY <2>1, <2>4 DEF Handling
      <3>4. asked'[c] \in 0..Len(route)
          BY <2>1, <2>2, <3>1 DEF Handling
      <3> QED BY <1>2, <2>1, <2>3, <3>2, <3>3, <3>4 DEF Handling, ClientInv, Ask
    <2>5. ASSUME ~Holds(request[c], route[asked[c] + 1])
          PROVE  ClientInv(c)'
        BY <1>2, <2>1, <2>3, <2>5 DEF Ask, Handling, ClientInv
    <2>6. ClientInv(c)'
        BY <2>4, <2>5
    <2>7. \A d \in Client \ {c} : asked'[d] = asked[d]
        BY <1>2 DEF Ask, GateInv
    <2> QED BY <1>2, <2>1, <2>6, <2>7, OneClient DEF Ask, GateInv
  <1>3. ASSUME NEW c \in Client, Answer(c)
        PROVE  GateInv'
    <2>1. ClientInv(c)'
        BY <1>3 DEF Answer, ClientInv, GateInv
    <2> QED BY <1>3, <2>1, OneClient DEF Answer, GateInv
  <1>4. ASSUME StillClosed, UNCHANGED threadVars
        PROVE  GateInv'
    <2>1. ASSUME NEW c \in Client, request'[c] # NoRequest
          PROVE  Handling(c)'
        BY <1>4, <2>1, StillHandling DEF threadVars
    <2> QED BY <1>4, <2>1 DEF GateInv, StillClosed, threadVars
  <1>5. CASE UNCHANGED vars
    <2>1. \A d \in Client : ClientInv(d)'
        BY <1>5, LeftAlone DEF vars, threadVars
    <2> QED BY <1>5, <2>1 DEF GateInv, ClientInv, vars, threadVars
  <1> QED BY <1>1, <1>2, <1>3, <1>4, <1>5 DEF Next, Refuse, Grant, Operate, MarkAccepted

\* Behind a passed route nothing has stood against the request all the time.
LEMMA PassedRoute == GateInv => NothingPassesAClosedGate
  <1> SUFFICES ASSUME GateInv, NEW c \in Client, request[c] # NoRequest,
                      asked[c] = Len(Route[request[c].kind]),
                      NEW q \in closed[c]
               PROVE  FALSE
      BY DEF NothingPassesAClosedGate
  <1>1. Handling(c)
      BY DEF GateInv
  <1>2. PICK i \in 1..Len(Route[request[c].kind]) : Route[request[c].kind][i] = q
      BY <1>1, RouteAsksAll, GateAssumption DEF Handling, GateAssumption
  <1> QED BY <1>1, <1>2 DEF Handling

\* No request passes a gate that was closed from its arrival on, for any number of
\* threads and whatever is assigned meanwhile.
THEOREM GateIsNotPassed == Spec => []NothingPassesAClosedGate
  <1> QED BY GateInit, GateStep, PassedRoute, PTL DEF Spec

-----------------------------------------------------------------------------
\* The events of the trail.
Event == [type : {"attempted", "blocked", "approved"},
          call : 1..MaxCalls, order_key : {r.order_key : r \in Request}]

\* What is recorded is an event of the trail.
LEMMA RecordedType ==
    ASSUME events \in Seq(Event), NEW r \in Request, NEW n \in 1..MaxCalls,
           NEW type \in {"attempted", "blocked", "approved"}
    PROVE  Recorded(type, r, n) \in Seq(Event)
<1>1. [type |-> type, call |-> n, order_key |-> r.order_key] \in Event
  BY DEF Event
<1>. QED  BY <1>1, AppendProperties DEF Recorded

\* The invariant of the calls: only a thread that handles a call is refused, no
\* other thread handles that call, and its preflight has been recorded.
CallInv ==
    /\ \A c \in Client : refused[c] => request[c] # NoRequest
    /\ \A c \in Client : request[c] # NoRequest =>
          /\ call[c] \in 1..calls
          /\ \A d \in Client : request[d] # NoRequest /\ call[d] = call[c] => d = c
          /\ request[c].kind = "preflight" <=>
                \E i \in DOMAIN events : events[i].call = call[c]

\* The inductive invariant of types and calls.
TrailInv ==
    /\ TypeOK
    /\ CallInv
    /\ \A i \in DOMAIN events : events[i].call <= calls
    /\ EveryAttemptIsDecided

\* A request needs what is a question, and asks no more than seven of them.
LEMMA RouteBounds ==
    ASSUME NEW k \in DOMAIN Route
    PROVE  Needed[k] \subseteq Question /\ Len(Route[k]) \in 0..7
<1>1. k \in {"preflight", "readiness", "shadow"}
  BY RouteAsksAll
<1>2. Len(Route[k]) \in 0..7
  BY <1>1 DEF Route, PreflightRoute, ReadinessRoute, ShadowRoute
<1>3. Needed[k] \subseteq Question
  BY <1>1 DEF Needed, Question
<1>. QED  BY <1>2, <1>3

\* Nothing is recorded at first.
LEMMA TrailInit == Init => TrailInv
<1>1. Init => TypeOK
  <2>1. 0 \in 0..MaxCalls /\ 0 \in DailyPnl /\ 0 \in 0..7
    BY GateAssumption DEF GateAssumption
  <2>2. \A S : <<>> \in Seq(S)
    BY EmptySeq
  <2>. QED  BY <2>1, <2>2 DEF Init, TypeOK
<1>2. Init => CallInv
  BY DEF Init, CallInv
<1>3. Init => EveryAttemptIsDecided
  BY DEF Init, EveryAttemptIsDecided
<1>4. Init => \A i \in DOMAIN events : events[i].call <= calls
  BY EmptySeq, LenProperties DEF Init
<1>. QED  BY <1>1, <1>2, <1>3, <1>4 DEF TrailInv

\* Every step keeps the state well formed.
LEMMA TypeStep == GateInv /\ TrailInv /\ [Next]_vars => TypeOK'
<1>1. SUFFICES ASSUME GateInv, TrailInv, [Next]_vars PROVE TypeOK'
  OBVIOUS
<1>2. /\ mode \in {"paper", "shadow", "live"} /\ kill_switch \in BOOLEAN
      /\ live_confirmed \in BOOLEAN /\ daily_pnl \in DailyPnl
      /\ seen \subseteq {r.order_key : r \in Request}
      /\ events \in Seq(Event) /\ intents \in Seq(Request)
      /\ request \in [Client -> Request \cup {NoRequest}] /\ call \in [Client -> 0..MaxCalls]
      /\ asked \in [Client -> 0..7] /\ refused \in [Client -> BOOLEAN]
      /\ calls \in 0..MaxCalls /\ closed \in [Client -> SUBSET Question]
      /\ MaxCalls \in Nat
  BY <1>1, GateAssumption DEF TrailInv, TypeOK, Event, GateAssumption
<1>. DEFINE Typed ==
        /\ mode' \in {"paper", "shadow", "live"} /\ kill_switch' \in BOOLEAN
        /\ live_confirmed' \in BOOLEAN /\ daily_pnl' \in DailyPnl
        /\ seen' \subseteq {r.order_key : r \in Request}
        /\ events' \in Seq(Event) /\ intents' \in Seq(Request)
        /\ request' \in [Client -> Request \cup {NoRequest}] /\ call' \in [Client -> 0..MaxCalls]
        /\ asked' \in [Client -> 0..7] /\ refused' \in [Client -> BOOLEAN]
        /\ calls' \in 0..MaxCalls /\ closed' \in [Client -> SUBSET Question]
<1>3. Typed => TypeOK'
  BY DEF TypeOK, Event
<1>4. ASSUME NEW c \in Client, NEW r \in Request, Attempt(c, r) PROVE Typed
  <2>1. calls + 1 \in 1..MaxCalls /\ calls + 1 \in 0..MaxCalls
    BY <1>2, <1>4 DEF Attempt
  <2>2. Recorded("attempted", r, calls + 1) \in Seq(Event)
    BY <1>2, <2>1, RecordedType
  <2>3. {q \in Needed[r.kind] : ~Holds(r, q)} \in SUBSET Question
    BY RouteBounds, GateAssumption DEF GateAssumption
  <2>. QED  BY <1>2, <1>4, <2>1, <2>2, <2>3 DEF Attempt, attributes
<1>5. ASSUME NEW c \in Client, Ask(c) PROVE Typed
  <2>1. request[c].kind \in DOMAIN Route
    BY <1>2, <1>5, GateAssumption DEF Ask, GateAssumption
  <2>2. Len(Route[request[c].kind]) \in 0..7
    BY <2>1, RouteBounds
  <2>3. asked[c] \in 0..7
    BY <1>2
  <2>4. \A a, l \in 0..7 : a < l => a + 1 \in 0..7
    OBVIOUS
  <2>5. asked[c] < Len(Route[request[c].kind]) => asked[c] + 1 \in 0..7
    BY <2>2, <2>3, <2>4
  <2>. QED  BY <1>2, <1>5, <2>5 DEF Ask, attributes
<1>6. ASSUME NEW c \in Client, Refuse(c) \/ Grant(c) PROVE Typed
  <2>1. request[c] # NoRequest /\ call[c] \in 1..calls
    BY <1>1, <1>6 DEF Refuse, Grant, TrailInv, CallInv
  <2>2. request[c] \in Request /\ call[c] \in 1..MaxCalls
    BY <1>2, <2>1
  <2>3. /\ Recorded("blocked", request[c], call[c]) \in Seq(Event)
        /\ Recorded("approved", request[c], call[c]) \in Seq(Event)
    BY <1>2, <2>2, RecordedType
  <2>4. Intended(request[c]) \in Seq(Request)
    BY <1>2, <2>2, AppendProperties DEF Intended
  <2>5. events' \in Seq(Event) /\ intents' \in Seq(Request)
    BY <1>2, <1>6, <2>3, <2>4 DEF Refuse, Grant
  <2>6. 0 \in 0..MaxCalls /\ 0 \in 0..7
    BY <1>2
  <2>. QED  BY <1>2, <1>6, <2>5, <2>6 DEF Refuse, Grant, Answer, attributes
<1>7. ASSUME Operate PROVE Typed
  BY <1>2, <1>7 DEF Operate, StillClosed, threadVars
<1>8. ASSUME NEW i \in DOMAIN events, MarkAccepted(i) PROVE Typed
  <2>1. events[i] \in Event
    BY <1>2, <1>8, LenProperties, ElementOfSeq
  <2>2. events[i].order_key \in {r.order_key : r \in Request}
    BY <2>1 DEF Event
  <2>3. seen' \subseteq {r.order_key : r \in Request}
    BY <1>2, <1>8, <2>2, Zenon DEF MarkAccepted
  <2>. QED  BY <1>2, <1>8, <2>3 DEF MarkAccepted, StillClosed, threadVars
<1>9. ASSUME UNCHANGED vars PROVE Typed
  BY <1>2, <1>9 DEF vars, attributes, threadVars
<1>. QED
  BY <1>1, <1>3, <1>4, <1>5, <1>6, <1>7, <1>8, <1>9 DEF Next

\* Recording an event for call n adds its place to the trail of n and to no other.
LEMMA RecordedTrail ==
    ASSUME events \in Seq(Event), NEW r \in Request, NEW n \in 1..MaxCalls,
           NEW type \in {"attempted", "blocked", "approved"},
           events' = Recorded(type, r, n)
    PROVE  /\ r.kind # "preflight" => events' = events
           /\ r.kind = "preflight" =>
                 /\ Len(events) \in Nat
                 /\ DOMAIN events = 1..Len(events)
                 /\ DOMAIN events' = 1..(Len(events) + 1)
                 /\ \A i \in 1..Len(events) : events'[i] = events[i]
                 /\ events'[Len(events) + 1].call = n
                 /\ events'[Len(events) + 1].type = type
<1>1. [type |-> type, call |-> n, order_key |-> r.order_key] \in Event
  BY DEF Event
<1>2. CASE r.kind = "preflight"
  <2>1. events' = Append(events, [type |-> type, call |-> n, order_key |-> r.order_key])
    BY <1>2 DEF Recorded
  <2>2. /\ Len(events) \in Nat /\ DOMAIN events = 1..Len(events)
        /\ events' \in Seq(Event) /\ Len(events') = Len(events) + 1
        /\ \A i \in 1..Len(events) : events'[i] = events[i]
        /\ events'[Len(events) + 1]
             = [type |-> type, call |-> n, order_key |-> r.order_key]
    BY <1>1, <2>1, AppendProperties, LenProperties
  <2>3. DOMAIN events' = 1..(Len(events) + 1)
    BY <2>2, LenProperties
  <2>. QED  BY <1>2, <2>2, <2>3
<1>3. CASE r.kind # "preflight"
  BY <1>3 DEF Recorded
<1>. QED  BY <1>2, <1>3

\* The trail of call n among the events e, what it looks like while n is handled and
\* afterwards, and whether n is handled where the threads handle requests r and calls k.
Trail(e, n) == {i \in DOMAIN e : e[i].call = n}
Attempted(e, n) == \E i \in Trail(e, n) : Trail(e, n) = {i} /\ e[i].type = "attempted"
Decided(e, n) ==
    \E i, j \in Trail(e, n) : /\ i < j /\ Trail(e, n) = {i, j}
                              /\ e[i].type = "attempted"
                              /\ e[j].type \in {"blocked", "approved"}
Handled(r, k, n) == \E c \in Client : r[c] # NoRequest /\ k[c] = n

\* What the property says of call n.
Verdict(e, r, k, n) ==
    Trail(e, n) # {} => IF Handled(r, k, n) THEN Attempted(e, n) ELSE Decided(e, n)

\* The property says it of every call.
LEMMA DecidedMeans ==
    /\ EveryAttemptIsDecided <=> \A n \in 1..calls : Verdict(events, request, call, n)
    /\ EveryAttemptIsDecided' <=> \A n \in 1..calls' : Verdict(events', request', call', n)
<1>1. EveryAttemptIsDecided => \A n \in 1..calls : Verdict(events, request, call, n)
  BY DEF EveryAttemptIsDecided, Verdict, Trail, Handled, Attempted, Decided
<1>2. (\A n \in 1..calls : Verdict(events, request, call, n)) => EveryAttemptIsDecided
  BY DEF EveryAttemptIsDecided, Verdict, Trail, Handled, Attempted, Decided
<1>3. EveryAttemptIsDecided' => \A n \in 1..calls' : Verdict(events', request', call', n)
  BY DEF EveryAttemptIsDecided, Verdict, Trail, Handled, Attempted, Decided
<1>4. (\A n \in 1..calls' : Verdict(events', request', call', n)) => EveryAttemptIsDecided'
  BY DEF EveryAttemptIsDecided, Verdict, Trail, Handled, Attempted, Decided
<1>. QED  BY <1>1, <1>2, <1>3, <1>4

\* A step that records nothing and neither takes nor ends a call keeps the trails.
LEMMA SameTrails ==
    ASSUME TrailInv, UNCHANGED <<events, request, call, calls>>,
           \A c \in Client : refused'[c] => request[c] # NoRequest
    PROVE  /\ CallInv'
           /\ \A i \in DOMAIN events' : events'[i].call <= calls'
           /\ EveryAttemptIsDecided'
BY DEF TrailInv, CallInv, EveryAttemptIsDecided

\* A recorded event is the newest of its call's trail and leaves the other trails alone.
LEMMA GrownTrail ==
    ASSUME events \in Seq(Event), NEW r \in Request, NEW n \in 1..MaxCalls,
           NEW type \in {"attempted", "blocked", "approved"},
           events' = Recorded(type, r, n), r.kind = "preflight"
    PROVE  /\ \A m : m # n => Trail(events', m) = Trail(events, m)
           /\ Trail(events', n) = Trail(events, n) \cup {Len(events) + 1}
           /\ \A i \in Trail(events, n) : i < Len(events) + 1
<1>1. /\ Len(events) \in Nat /\ DOMAIN events = 1..Len(events)
      /\ DOMAIN events' = 1..(Len(events) + 1)
      /\ \A i \in 1..Len(events) : events'[i] = events[i]
      /\ events'[Len(events) + 1].call = n
  BY RecordedTrail
<1>2. DOMAIN events' = DOMAIN events \cup {Len(events) + 1}
  BY <1>1
<1>3. \A i \in DOMAIN events : i < Len(events) + 1
  BY <1>1
<1>4. \A m : m # n => Trail(events', m) = Trail(events, m)
  BY <1>1, <1>2 DEF Trail
<1>5. Trail(events', n) = Trail(events, n) \cup {Len(events) + 1}
  BY <1>1, <1>2 DEF Trail
<1>. QED  BY <1>3, <1>4, <1>5 DEF Trail

\* Where the trails keep the events they have, every event keeps its verdict.
LEMMA SameEvents ==
    ASSUME events \in Seq(Event), NEW r \in Request, NEW n \in 1..MaxCalls,
           NEW type \in {"attempted", "blocked", "approved"},
           events' = Recorded(type, r, n),
           NEW m, Trail(events', m) = Trail(events, m)
    PROVE  /\ Attempted(events, m) => Attempted(events', m)
           /\ Decided(events, m) => Decided(events', m)
<1>1. \A i \in DOMAIN events : events'[i] = events[i]
  BY RecordedTrail
<1>2. \A i \in Trail(events, m) : events'[i] = events[i]
  BY <1>1 DEF Trail
<1>. QED  BY <1>2 DEF Attempted, Decided

\* A call that arrives starts a trail if it is a preflight, and disturbs no other.
LEMMA AttemptTrail ==
    ASSUME TrailInv, NEW c \in Client, NEW r \in Request, Attempt(c, r)
    PROVE  /\ CallInv'
           /\ \A i \in DOMAIN events' : events'[i].call <= calls'
           /\ EveryAttemptIsDecided'
<1>. DEFINE n == calls + 1
<1>1. /\ calls \in Nat /\ n \in 1..MaxCalls /\ events \in Seq(Event)
      /\ \A m \in 1..calls : m # n
      /\ \A m \in 1..n : m \in 1..calls \/ m = n
      /\ 1..calls \subseteq 1..n /\ n \in 1..n
  BY GateAssumption DEF TrailInv, TypeOK, Attempt, Event, GateAssumption
<1>2. /\ events' = Recorded("attempted", r, n) /\ calls' = n
      /\ request[c] = NoRequest /\ refused' = refused
      /\ request'[c] = r /\ call'[c] = n /\ r # NoRequest
      /\ \A d \in Client \ {c} : request'[d] = request[d] /\ call'[d] = call[d]
  BY GateAssumption DEF Attempt, TrailInv, TypeOK, GateAssumption
<1>3. \A i \in DOMAIN events : events[i].call <= calls /\ events[i].call \in 1..MaxCalls
  <2>1. \A i \in DOMAIN events : events[i] \in Event
    BY <1>1, LenProperties, ElementOfSeq
  <2>. QED  BY <2>1 DEF TrailInv, Event
<1>. HIDE DEF n
<1>4. Trail(events, n) = {}
  BY <1>1, <1>3 DEF Trail, n
<1>5. /\ \A m : m # n => Trail(events', m) = Trail(events, m)
      /\ r.kind = "preflight" => Trail(events', n) = {Len(events) + 1}
      /\ r.kind # "preflight" => Trail(events', n) = {}
  <2>1. CASE r.kind = "preflight"
    BY <1>1, <1>2, <1>4, <2>1, GrownTrail
  <2>2. CASE r.kind # "preflight"
    <3>1. events' = events
      BY <1>2, <2>2 DEF Recorded
    <3>. QED  BY <1>4, <2>2, <3>1 DEF Trail
  <2>. QED  BY <2>1, <2>2
<1>6. r.kind = "preflight" => events'[Len(events) + 1].type = "attempted"
  BY <1>1, <1>2, RecordedTrail
<1>7. \A i \in DOMAIN events' : events'[i].call <= calls'
  <2>1. CASE r.kind = "preflight"
    <3>1. /\ Len(events) \in Nat /\ DOMAIN events = 1..Len(events)
          /\ DOMAIN events' = 1..(Len(events) + 1)
          /\ \A i \in 1..Len(events) : events'[i] = events[i]
          /\ events'[Len(events) + 1].call = n
      BY <1>1, <1>2, <2>1, RecordedTrail
    <3>2. \A i \in DOMAIN events' : i \in DOMAIN events \/ i = Len(events) + 1
      BY <3>1
    <3>3. \A i \in DOMAIN events : events'[i].call <= n
      BY <1>1, <1>3, <3>1 DEF n
    <3>4. n <= n
      BY <1>1
    <3>. QED  BY <1>2, <3>1, <3>2, <3>3, <3>4
  <2>2. CASE r.kind # "preflight"
    <3>1. events' = events
      BY <1>2, <2>2 DEF Recorded
    <3>. QED  BY <1>1, <1>2, <1>3, <3>1 DEF n
  <2>. QED  BY <2>1, <2>2
<1>8. CallInv'
  <2>1. ASSUME NEW d \in Client, refused'[d] PROVE request'[d] # NoRequest
    BY <1>2, <2>1 DEF TrailInv, CallInv
  <2>2. ASSUME NEW d \in Client, request'[d] # NoRequest
        PROVE  /\ call'[d] \in 1..calls'
               /\ \A e \in Client : request'[e] # NoRequest /\ call'[e] = call'[d] => e = d
               /\ request'[d].kind = "preflight" <=> Trail(events', call'[d]) # {}
    <3>1. CASE d = c
      <4>1. \A e \in Client \ {c} : request'[e] # NoRequest => call'[e] \in 1..calls
        BY <1>2 DEF TrailInv, CallInv
      <4>. QED  BY <1>1, <1>2, <1>5, <3>1, <4>1
    <3>2. CASE d # c
      <4>1. request[d] # NoRequest /\ request'[d] = request[d] /\ call'[d] = call[d]
        BY <1>2, <2>2, <3>2
      <4>2. /\ call[d] \in 1..calls
            /\ \A e \in Client : request[e] # NoRequest /\ call[e] = call[d] => e = d
            /\ request[d].kind = "preflight" <=> Trail(events, call[d]) # {}
        BY <4>1 DEF TrailInv, CallInv, Trail
      <4>3. call[d] # n
        BY <1>1, <4>2
      <4>4. Trail(events', call'[d]) = Trail(events, call[d])
        BY <1>5, <4>1, <4>3
      <4>. QED  BY <1>1, <1>2, <4>1, <4>2, <4>3, <4>4
    <3>. QED  BY <3>1, <3>2
  <2>. QED  BY <2>1, <2>2 DEF CallInv, Trail
<1>9. EveryAttemptIsDecided'
  <2>1. SUFFICES ASSUME NEW m \in 1..calls', Trail(events', m) # {}
                 PROVE  IF Handled(request', call', m)
                        THEN Attempted(events', m) ELSE Decided(events', m)
    BY DecidedMeans DEF Verdict
  <2>2. CASE m = n
    <3>1. Handled(request', call', m)
      BY <1>2, <2>2 DEF Handled
    <3>2. Attempted(events', m)
      BY <1>5, <1>6, <2>1, <2>2 DEF Attempted
    <3>. QED  BY <3>1, <3>2
  <2>3. CASE m # n
    <3>1. m \in 1..calls /\ Trail(events', m) = Trail(events, m)
      BY <1>1, <1>2, <1>5, <2>3
    <3>2. Handled(request', call', m) <=> Handled(request, call, m)
      BY <1>2, <2>3 DEF Handled
    <3>3. IF Handled(request, call, m) THEN Attempted(events, m) ELSE Decided(events, m)
      BY <2>1, <3>1, DecidedMeans DEF TrailInv, Verdict
    <3>4. (Attempted(events, m) => Attempted(events', m)) /\ (Decided(events, m) => Decided(events', m))
      BY <1>1, <1>2, <3>1, SameEvents
    <3>. QED  BY <3>2, <3>3, <3>4
  <2>. QED  BY <2>2, <2>3
<1>. QED  BY <1>7, <1>8, <1>9

\* A call that is answered has its trail decided if it has one, and disturbs no other.
LEMMA AnswerTrail ==
    ASSUME TrailInv, NEW c \in Client, request[c] # NoRequest, Answer(c),
           NEW type \in {"blocked", "approved"},
           events' = Recorded(type, request[c], call[c])
    PROVE  /\ CallInv'
           /\ \A i \in DOMAIN events' : events'[i].call <= calls'
           /\ EveryAttemptIsDecided'
<1>. DEFINE n == call[c]
            r == request[c]
<1>1. /\ events \in Seq(Event) /\ r \in Request /\ r # NoRequest /\ calls' = calls
      /\ calls \in 0..MaxCalls /\ MaxCalls \in Nat
      /\ n \in 1..calls /\ n \in 1..MaxCalls
      /\ r.kind = "preflight" <=> Trail(events, n) # {}
      /\ \A e \in Client : request[e] # NoRequest /\ call[e] = n => e = c
  <2>1. /\ events \in Seq(Event) /\ r \in Request /\ r # NoRequest /\ calls' = calls
        /\ calls \in 0..MaxCalls /\ MaxCalls \in Nat
    BY GateAssumption DEF TrailInv, TypeOK, Event, GateAssumption, Answer
  <2>2. /\ n \in 1..calls
        /\ r.kind = "preflight" <=> Trail(events, n) # {}
        /\ \A e \in Client : request[e] # NoRequest /\ call[e] = n => e = c
    BY DEF TrailInv, CallInv, Trail
  <2>. QED  BY <2>1, <2>2
<1>2. /\ request'[c] = NoRequest /\ refused'[c] = FALSE
      /\ \A d \in Client \ {c} : /\ request'[d] = request[d] /\ call'[d] = call[d]
                                 /\ refused'[d] = refused[d]
  BY DEF Answer, TrailInv, TypeOK
<1>3. events' = Recorded(type, r, n) /\ type \in {"attempted", "blocked", "approved"}
  OBVIOUS
<1>. HIDE DEF n, r
<1>4. /\ \A m : m # n => Trail(events', m) = Trail(events, m)
      /\ r.kind = "preflight" => Trail(events', n) = Trail(events, n) \cup {Len(events) + 1}
      /\ r.kind # "preflight" => Trail(events', n) = {}
  <2>1. CASE r.kind = "preflight"
    BY <1>1, <1>3, <2>1, GrownTrail
  <2>2. CASE r.kind # "preflight"
    <3>1. events' = events /\ Trail(events, n) = {}
      BY <1>1, <1>3, <2>2 DEF Recorded
    <3>. QED  BY <2>2, <3>1 DEF Trail
  <2>. QED  BY <2>1, <2>2
<1>5. \A i \in DOMAIN events' : events'[i].call <= calls'
  <2>1. \A i \in DOMAIN events : events[i].call <= calls
    BY DEF TrailInv
  <2>2. CASE r.kind = "preflight"
    <3>1. /\ Len(events) \in Nat /\ DOMAIN events = 1..Len(events)
          /\ DOMAIN events' = 1..(Len(events) + 1)
          /\ \A i \in 1..Len(events) : events'[i] = events[i]
          /\ events'[Len(events) + 1].call = n
      BY <1>1, <1>3, <2>2, RecordedTrail
    <3>2. \A i \in DOMAIN events' : i \in DOMAIN events \/ i = Len(events) + 1
      BY <3>1
    <3>3. n <= calls
      BY <1>1
    <3>. QED  BY <1>1, <2>1, <3>1, <3>2, <3>3
  <2>3. CASE r.kind # "preflight"
    BY <1>1, <1>3, <2>1, <2>3 DEF Recorded
  <2>. QED  BY <2>2, <2>3
<1>6. CallInv'
  <2>1. ASSUME NEW d \in Client, refused'[d] PROVE request'[d] # NoRequest
    BY <1>2, <2>1 DEF TrailInv, CallInv
  <2>2. ASSUME NEW d \in Client, request'[d] # NoRequest
        PROVE  /\ call'[d] \in 1..calls'
               /\ \A e \in Client : request'[e] # NoRequest /\ call'[e] = call'[d] => e = d
               /\ request'[d].kind = "preflight" <=> Trail(events', call'[d]) # {}
    <3>1. d # c
      BY <1>2, <2>2
    <3>2. request[d] # NoRequest /\ request'[d] = request[d] /\ call'[d] = call[d]
      BY <1>2, <2>2, <3>1
    <3>3. /\ call[d] \in 1..calls
          /\ \A e \in Client : request[e] # NoRequest /\ call[e] = call[d] => e = d
          /\ request[d].kind = "preflight" <=> Trail(events, call[d]) # {}
      BY <3>2 DEF TrailInv, CallInv, Trail
    <3>4. call[d] # n
      BY <1>1, <3>1, <3>2
    <3>5. Trail(events', call'[d]) = Trail(events, call[d])
      BY <1>4, <3>2, <3>4
    <3>. QED  BY <1>1, <1>2, <3>2, <3>3, <3>5
  <2>. QED  BY <2>1, <2>2 DEF CallInv, Trail
<1>7. EveryAttemptIsDecided'
  <2>1. SUFFICES ASSUME NEW m \in 1..calls', Trail(events', m) # {}
                 PROVE  IF Handled(request', call', m)
                        THEN Attempted(events', m) ELSE Decided(events', m)
    BY DecidedMeans DEF Verdict
  <2>2. CASE m = n
    <3>1. r.kind = "preflight"
      BY <1>4, <2>1, <2>2
    <3>2. ~Handled(request', call', m)
      BY <1>1, <1>2, <2>2 DEF Handled
    <3>3. Attempted(events, n)
      <4>1. Handled(request, call, n)
        BY DEF Handled, n
      <4>. QED  BY <1>1, <3>1, <4>1, DecidedMeans DEF TrailInv, Verdict
    <3>4. PICK i \in Trail(events, n) : Trail(events, n) = {i} /\ events[i].type = "attempted"
      BY <3>3 DEF Attempted
    <3>5. /\ \A k \in DOMAIN events : events'[k] = events[k]
          /\ events'[Len(events) + 1].type = type
      BY <1>1, <1>3, <3>1, RecordedTrail
    <3>6. i < Len(events) + 1 /\ events'[i].type = "attempted"
      <4>1. \A k \in Trail(events, n) : k < Len(events) + 1
        BY <1>1, <1>3, <3>1, GrownTrail
      <4>2. i \in DOMAIN events
        BY DEF Trail
      <4>. QED  BY <3>4, <3>5, <4>1, <4>2
    <3>7. Trail(events', n) = {i, Len(events) + 1}
      BY <1>4, <3>1, <3>4
    <3>8. Decided(events', m)
      BY <2>2, <3>5, <3>6, <3>7 DEF Decided
    <3>. QED  BY <3>2, <3>8
  <2>3. CASE m # n
    <3>1. m \in 1..calls /\ Trail(events', m) = Trail(events, m)
      BY <1>1, <1>4, <2>3
    <3>2. Handled(request', call', m) <=> Handled(request, call, m)
      BY <1>2, <2>3 DEF Handled, n
    <3>3. IF Handled(request, call, m) THEN Attempted(events, m) ELSE Decided(events, m)
      BY <2>1, <3>1, DecidedMeans DEF TrailInv, Verdict
    <3>4. (Attempted(events, m) => Attempted(events', m)) /\ (Decided(events, m) => Decided(events', m))
      BY <1>1, <1>3, <3>1, SameEvents
    <3>. QED  BY <3>2, <3>3, <3>4
  <2>. QED  BY <2>2, <2>3
<1>. QED  BY <1>5, <1>6, <1>7

\* Every step keeps the invariant of types and calls.
LEMMA TrailStep == GateInv /\ TrailInv /\ [Next]_vars => TrailInv'
<1>1. SUFFICES ASSUME GateInv, TrailInv, [Next]_vars
               PROVE  /\ CallInv'
                      /\ \A i \in DOMAIN events' : events'[i].call <= calls'
                      /\ EveryAttemptIsDecided'
  BY TypeStep DEF TrailInv
<1>2. \A c \in Client : refused[c] => request[c] # NoRequest
  BY <1>1 DEF TrailInv, CallInv
<1>3. CASE \E c \in Client, r \in Request : Attempt(c, r)
  BY <1>1, <1>3, AttemptTrail
<1>4. ASSUME NEW c \in Client, Ask(c)
      PROVE  /\ CallInv'
             /\ \A i \in DOMAIN events' : events'[i].call <= calls'
             /\ EveryAttemptIsDecided'
  <2>1. \A d \in Client : refused'[d] => request[d] # NoRequest
    BY <1>1, <1>2, <1>4 DEF Ask, TrailInv, TypeOK
  <2>. QED  BY <1>1, <1>4, <2>1, SameTrails DEF Ask
<1>5. ASSUME NEW c \in Client, Refuse(c) \/ Grant(c)
      PROVE  /\ CallInv'
             /\ \A i \in DOMAIN events' : events'[i].call <= calls'
             /\ EveryAttemptIsDecided'
  BY <1>1, <1>2, <1>5, AnswerTrail DEF Refuse, Grant
<1>6. CASE Operate \/ \E i \in DOMAIN events : MarkAccepted(i)
  BY <1>1, <1>2, <1>6, SameTrails DEF Operate, MarkAccepted, threadVars
<1>7. CASE UNCHANGED vars
  BY <1>1, <1>2, <1>7, SameTrails DEF vars, threadVars
<1>. QED
  BY <1>1, <1>3, <1>4, <1>5, <1>6, <1>7 DEF Next

\* The guard, the trail and what each thread handles stay well formed, for any number of
\* threads, requests and assignments to the guard.
THEOREM GateTypeCorrect == Spec => []TypeOK
<1>1. GateInv /\ TrailInv => TypeOK
  BY DEF TrailInv
<1>. QED  BY <1>1, GateInit, GateStep, TrailInit, TrailStep, PTL DEF Spec

\* However preflights overlap in validate_order() and whatever is assigned meanwhile, each
\* is recorded as attempted when it arrives and as blocked or approved, once, when it ends.
THEOREM EveryCallIsDecided == Spec => []EveryAttemptIsDecided
<1>1. GateInv /\ TrailInv => EveryAttemptIsDecided
  BY DEF TrailInv
<1>. QED  BY <1>1, GateInit, GateStep, TrailInit, TrailStep, PTL DEF Spec

-----------------------------------------------------------------------------
\* Without trust or identity no protected path is served (AccessGuard).
THEOREM AccessFailsClosed ==
    ASSUME NEW s, NEW path, NEW h
    PROVE  FailsClosed(s, path, h)
  <1> SUFFICES ASSUME path \in Protected, Authorize(Guard(s), h) = 200,
                      s.mode \notin {Absent, "trusted_network"}
               PROVE  /\ s.secret # Absent
                      /\ h.secret = s.secret
                      /\ h.user \notin {Absent, Blank}
                      /\ \/ s.groups \subseteq {Blank}
                         \/ \E name \in s.groups \cap h.groups : name # Blank
      BY DEF FailsClosed, Status
  <1>1. Guard(s) = [mode |-> "oidc_proxy", secret |-> s.secret, groups |-> Names(s.groups)]
      BY DEF Guard, Mode
  <1>2. s.secret # Absent
      BY <1>1 DEF Authorize
  <1>3. /\ h.secret = s.secret
        /\ h.user \notin {Absent, Blank}
        /\ Names(s.groups) = {} \/ Names(s.groups) \cap Names(h.groups) # {}
      BY <1>1, <1>2 DEF Authorize
  <1>4. s.groups \subseteq {Blank} \/ \E name \in s.groups \cap h.groups : name # Blank
      BY <1>3 DEF Names
  <1> QED BY <1>2, <1>3, <1>4

\* A smoke test that connects has complete credentials behind it (BrokerAdapters).
THEOREM SmokeNeedsCredentials ==
    ASSUME NEW b \in Broker, NEW env \in Environment(b), NEW down
    PROVE  ConnectedIsConfigured(b, env, down)
  <1> SUFFICES ASSUME Connected(Smoke(Build(b, Loaded(b, env)), down))
               PROVE  /\ \A field \in Required[b] : env[field] = "text"
                      /\ down \cap Reads = {}
      BY DEF ConnectedIsConfigured
  <1>1. \A read \in Reads : Answers(Build(b, Loaded(b, env)), read, down)
      BY DEF Connected, Smoke
  <1>2. Configured(b, Loaded(b, env))
      BY <1>1 DEF Answers, Build, Unconnected, Adapter, Reads
  <1> QED BY <1>1, <1>2 DEF Answers, Configured, Missing, Loaded

-----------------------------------------------------------------------------
\* The validation metrics.
USE DEF historyVars, lossVars

\* Where a thread can stand in record(), and where it stands inside of it.
Place == {"idle", "count", "number", "push", "take", "persist"}
Inside == Place \ {"idle"}

\* The threads that f has at one of the places P.
At(f, P) == {t \in Thread : f[t] \in P}

\* One when a thread that is at x counts among those at P.
One(x, P) == IF x \in P THEN 1 ELSE 0

\* There are finitely many of them.
LEMMA AtFinite ==
    ASSUME NEW f, NEW P
    PROVE  IsFiniteSet(At(f, P)) /\ Cardinality(At(f, P)) \in Nat
<1>1. IsFiniteSet(Thread) /\ At(f, P) \in SUBSET Thread
  BY MetricsAssumption DEF MetricsAssumption, At
<1>2. IsFiniteSet(At(f, P))
  BY <1>1, FS_Subset
<1>. QED  BY <1>2, FS_CardinalityType

\* Nobody is anywhere when all are elsewhere.
LEMMA AtNone ==
    ASSUME NEW f, NEW P, \A t \in Thread : f[t] \notin P
    PROVE  Cardinality(At(f, P)) = 0
<1>1. At(f, P) = {}
  BY DEF At
<1>. QED  BY <1>1, FS_EmptySet

\* How many threads stand at P changes with the one that moves.
LEMMA AtMoves ==
    ASSUME NEW f \in [Thread -> Place], NEW t \in Thread, NEW l \in Place, NEW P,
           NEW g, g[t] = l, \A u \in Thread \ {t} : g[u] = f[u]
    PROVE  Cardinality(At(g, P)) + One(f[t], P) = Cardinality(At(f, P)) + One(l, P)
<1>. DEFINE A == At(f, P)
            B == A \ {t}
            C == At(g, P)
<1>1. IsFiniteSet(A) /\ Cardinality(A) \in Nat
  BY AtFinite
<1>2. IsFiniteSet(B) /\ Cardinality(B) = IF t \in A THEN Cardinality(A) - 1 ELSE Cardinality(A)
  BY <1>1, FS_RemoveElement
<1>3. Cardinality(B \cup {t}) = IF t \in B THEN Cardinality(B) ELSE Cardinality(B) + 1
  BY <1>2, FS_AddElement
<1>4. /\ t \in A <=> f[t] \in P
      /\ t \notin B
      /\ l \in P => C = B \cup {t}
      /\ l \notin P => C = B
  BY DEF At
<1>. HIDE DEF A, B, C
<1>5. Cardinality(B) \in Nat
  BY <1>2, FS_CardinalityType
<1>6. Cardinality(B) + (IF f[t] \in P THEN 1 ELSE 0) = Cardinality(A)
  <2>1. CASE t \in A
    BY <1>1, <1>2, <1>4, <2>1
  <2>2. CASE t \notin A
    BY <1>1, <1>2, <1>4, <2>2
  <2>. QED  BY <2>1, <2>2
<1>7. Cardinality(C) = Cardinality(B) + (IF l \in P THEN 1 ELSE 0)
  <2>1. CASE l \in P
    <3>1. C = B \cup {t}
      BY <1>4, <2>1
    <3>. QED  BY <1>3, <1>4, <2>1, <3>1
  <2>2. CASE l \notin P
    <3>1. C = B
      BY <1>4, <2>2
    <3>. QED  BY <1>5, <2>2, <3>1
  <2>. QED  BY <2>1, <2>2
<1>8. Cardinality(C) + (IF f[t] \in P THEN 1 ELSE 0)
        = Cardinality(A) + (IF l \in P THEN 1 ELSE 0)
  <2>1. CASE f[t] \in P
    BY <1>5, <1>6, <1>7, <2>1
  <2>2. CASE f[t] \notin P
    BY <1>5, <1>6, <1>7, <2>2
  <2>. QED  BY <2>1, <2>2
<1>. QED  BY <1>8 DEF A, C, One

\* What a run is, without the bound on its number.
Entry == [number : Nat, valid : BOOLEAN]

\* What a restart makes of the history.
LEMMA RestoredTypes ==
    ASSUME NEW h \in Seq(Run)
    PROVE  /\ Len(h) \in Nat /\ RestoredTotal(h) = Len(h)
           /\ RestoredValid(h) \in Nat /\ RestoredValid(h) <= Len(h)
           /\ RestoredRuns(h) \in Seq(Entry) /\ Len(RestoredRuns(h)) = Len(h)
           /\ Len(h) <= MaxRuns => RestoredRuns(h) \in Seq(Run)
<1>1. Len(h) \in Nat /\ \A i \in 1..Len(h) : h[i] \in Run
  BY LenProperties, ElementOfSeq
<1>2. RestoredValid(h) \in Nat /\ RestoredValid(h) <= Len(h)
  <2>1. {i \in 1..Len(h) : h[i].valid} \subseteq 1..Len(h)
    OBVIOUS
  <2>. QED  BY <1>1, <2>1, PlacesFinite DEF RestoredValid
<1>3. \A i \in 1..Len(h) : h[i].valid \in BOOLEAN
  BY <1>1 DEF Run
<1>4. RestoredRuns(h) \in [1..Len(h) -> Entry]
  BY <1>1, <1>3 DEF RestoredRuns, Entry
<1>5. RestoredRuns(h) \in Seq(Entry) /\ Len(RestoredRuns(h)) = Len(h)
  BY <1>1, <1>4
<1>6. ASSUME Len(h) <= MaxRuns PROVE RestoredRuns(h) \in Seq(Run)
  <2>1. \A i \in 1..Len(h) : i \in 0..MaxRuns
    BY <1>1, <1>6, MetricsAssumption DEF MetricsAssumption
  <2>2. RestoredRuns(h) \in [1..Len(h) -> Run]
    BY <1>3, <2>1 DEF RestoredRuns, Run
  <2>. QED  BY <1>1, <2>2
<1>. QED  BY <1>1, <1>2, <1>5, <1>6 DEF RestoredTotal

\* A snapshot more is a run more, and a valid one when it says so.
LEMMA RestoredAppend ==
    ASSUME NEW h \in Seq(Run), NEW r \in Run
    PROVE  /\ RestoredTotal(Append(h, r)) = RestoredTotal(h) + 1
           /\ RestoredValid(Append(h, r)) = RestoredValid(h) + (IF r.valid THEN 1 ELSE 0)
           /\ RestoredRuns(Append(h, r)) =
                  Append(RestoredRuns(h), [number |-> Len(h) + 1, valid |-> r.valid])
<1>. DEFINE N == Len(h)
            g == Append(h, r)
            V == {i \in 1..N : h[i].valid}
            W == {i \in 1..(N + 1) : g[i].valid}
<1>1. /\ N \in Nat /\ Len(g) = N + 1 /\ g[N + 1] = r
      /\ \A i \in 1..N : g[i] = h[i]
  BY LenProperties, AppendProperties
<1>2. RestoredTotal(g) = RestoredTotal(h) + 1
  BY <1>1 DEF RestoredTotal
<1>3. RestoredValid(g) = Cardinality(W) /\ RestoredValid(h) = Cardinality(V)
  BY <1>1 DEF RestoredValid
<1>4. IsFiniteSet(V) /\ Cardinality(V) \in Nat /\ N + 1 \notin V
  <2>1. V \subseteq 1..N
    OBVIOUS
  <2>2. N + 1 \notin 1..N
    BY <1>1
  <2>. QED  BY <1>1, <2>1, <2>2, PlacesFinite
<1>5. W = IF r.valid THEN V \cup {N + 1} ELSE V
  <2>1. \A i : i \in 1..(N + 1) <=> i \in 1..N \/ i = N + 1
    BY <1>1
  <2>2. N + 1 \notin 1..N
    BY <1>1
  <2>. HIDE DEF N, g
  <2>3. \A i : i \in W <=> (i \in V \/ (i = N + 1 /\ r.valid))
    BY <1>1, <2>1, <2>2
  <2>. HIDE DEF V, W
  <2>. QED  BY <2>3
<1>6. RestoredValid(g) = RestoredValid(h) + (IF r.valid THEN 1 ELSE 0)
  <2>. HIDE DEF N, g, V, W
  <2>1. CASE r.valid
    <3>1. W = V \cup {N + 1}
      BY <1>5, <2>1
    <3>2. Cardinality(W) = Cardinality(V) + 1
      BY <1>4, <3>1, FS_AddElement
    <3>. QED  BY <1>3, <2>1, <3>2
  <2>2. CASE ~r.valid
    <3>1. W = V
      BY <1>5, <2>2
    <3>. QED  BY <1>3, <1>4, <2>2, <3>1
  <2>. QED  BY <2>1, <2>2
<1>7. RestoredRuns(g) = Append(RestoredRuns(h), [number |-> N + 1, valid |-> r.valid])
  <2>. DEFINE x == [number |-> N + 1, valid |-> r.valid]
  <2>1. x \in Entry
    BY <1>1 DEF Entry, Run
  <2>2. RestoredRuns(h) \in Seq(Entry) /\ Len(RestoredRuns(h)) = N
    BY RestoredTypes
  <2>3. /\ Append(RestoredRuns(h), x) \in Seq(Entry)
        /\ Len(Append(RestoredRuns(h), x)) = N + 1
        /\ Append(RestoredRuns(h), x)[N + 1] = x
        /\ \A i \in 1..N : Append(RestoredRuns(h), x)[i] = RestoredRuns(h)[i]
    BY <2>1, <2>2, AppendProperties
  <2>4. g \in Seq(Run)
    BY AppendProperties
  <2>5. RestoredRuns(g) \in Seq(Entry) /\ Len(RestoredRuns(g)) = N + 1
    BY <1>1, <2>4, RestoredTypes
  <2>6. \A i \in 1..(N + 1) : RestoredRuns(g)[i] = [number |-> i, valid |-> g[i].valid]
    BY <1>1 DEF RestoredRuns
  <2>7. \A i \in 1..N : RestoredRuns(h)[i] = [number |-> i, valid |-> h[i].valid]
    BY DEF RestoredRuns
  <2>. HIDE DEF N, g
  <2>8. \A i \in 1..(N + 1) : RestoredRuns(g)[i] = Append(RestoredRuns(h), x)[i]
    <3>1. SUFFICES ASSUME NEW i \in 1..(N + 1)
                   PROVE  RestoredRuns(g)[i] = Append(RestoredRuns(h), x)[i]
      OBVIOUS
    <3>2. CASE i = N + 1
      BY <1>1, <2>3, <2>6, <3>2
    <3>3. CASE i # N + 1
      <4>1. i \in 1..N
        BY <1>1, <3>3
      <4>. QED  BY <1>1, <2>3, <2>6, <2>7, <4>1
    <3>. QED  BY <3>2, <3>3
  <2>. HIDE DEF x
  <2>9. RestoredRuns(g) = Append(RestoredRuns(h), x)
    BY <2>3, <2>5, <2>8, SeqEqual
  <2>. QED  BY <2>9 DEF x
<1>. QED  BY <1>2, <1>6, <1>7

\* Cutting the recent runs after each run keeps what one cut of all runs would.
LEMMA CutAppend ==
    ASSUME NEW s \in Seq(Entry), NEW x \in Entry, NEW n \in Nat
    PROVE  Newest(Append(Newest(s, n), x), n) = Newest(Append(s, x), n)
<1>1. Len(s) \in Nat /\ Append(s, x) \in Seq(Entry) /\ Len(Append(s, x)) = Len(s) + 1
  BY LenProperties, AppendProperties
<1>2. CASE Len(s) <= n
  BY <1>2 DEF Newest
<1>3. CASE ~(Len(s) <= n)
  <2>1. n <= Len(s) /\ n + 1 \in Nat /\ n <= n + 1 /\ n + 1 <= Len(Append(s, x))
    BY <1>1, <1>3
  <2>2. Append(Newest(s, n), x) = Newest(Append(s, x), n + 1)
    BY <2>1, NewestAppend
  <2>3. Newest(Newest(Append(s, x), n + 1), n) = Newest(Append(s, x), n)
    BY <1>1, <2>1, NewestOfNewest
  <2>. QED  BY <2>2, <2>3
<1>. QED  BY <1>2, <1>3

-----------------------------------------------------------------------------
\* The counters agree with each other, count every thread that is past counting at
\* most once, and leave room in the bound for the runs that are still to be stored.
Numbers ==
    /\ valid + invalid = total
    /\ total + Cardinality(At(pc, {"count"})) <= started
    /\ Len(history) + Cardinality(At(pc, Inside)) <= started
    /\ \A t \in Thread : pc[t] = "take" => recent # <<>>

\* Without overlap there is at most one thread inside record().
Solo == ~overlapped => \A t, u \in Thread : pc[t] # "idle" /\ pc[u] # "idle" => t = u

\* The run of t, and the history once it is stored.
ThisRun(t) == [number |-> total, valid |-> outcome[t]]
InFlight(t) == Append(history, ThisRun(t))

\* The counters, and the recent runs, are those a restart on h would restore.
Counts(h) == total = RestoredTotal(h) /\ valid = RestoredValid(h)
Keeps(h) == recent = Newest(RestoredRuns(h), MaxRecent)

\* How far the counters, the recent runs and the snapshot of t are, where t stands.
Stage(t) ==
    /\ pc[t] = "count" => Counts(history)
    /\ pc[t] \in {"number", "push", "take", "persist"} => Counts(InFlight(t))
    /\ pc[t] \in {"count", "number", "push"} => Keeps(history)
    /\ pc[t] = "push" => number[t] = total
    /\ pc[t] = "take" =>
        recent = Append(Newest(RestoredRuns(history), MaxRecent), ThisRun(t))
    /\ pc[t] = "persist" => Keeps(InFlight(t)) /\ snapshot[t] = ThisRun(t)

\* While nothing failed, nothing overlapped and nothing fell off the history, what is
\* in memory is what a restart would restore, up to the run in flight.
Replayed ==
    complete /\ ~overlapped /\ total <= HistoryLimit =>
        /\ (\A t \in Thread : pc[t] = "idle") => Counts(history) /\ Keeps(history)
        /\ \A t \in Thread : Stage(t)

\* The places of the runs that are counted and not stored yet, how many runs the history
\* is due, and how many of them it is sure to keep: RunsAreAccounted, with the line
\* that a torn end of the history will spoil.
Storing == {"number", "push", "take", "persist"}
Due == base + total - Cardinality(At(pc, Storing))
Kept(n) == IF n <= HistoryLimit THEN n ELSE HistoryLimit
Accounts == Len(history) <= Due /\ Weight(File) + 2 * failures >= Kept(Due)

\* The inductive invariant.
MetricsInv == MetricsTypeOK /\ Numbers /\ RecentIsBounded /\ Solo /\ Replayed /\ Accounts

-----------------------------------------------------------------------------
\* The numbers of threads at the places the invariants count.
LEMMA Numbered ==
    ASSUME NEW f
    PROVE  /\ Cardinality(At(f, {"count"})) \in Nat
           /\ Cardinality(At(f, Inside)) \in Nat
           /\ Cardinality(At(f, {"take"})) \in Nat
BY AtFinite

\* How they change when t goes to l.
LEMMA Moved ==
    ASSUME MetricsTypeOK, NEW t \in Thread, NEW l \in Place, Goto(t, l)
    PROVE  /\ pc' \in [Thread -> Place] /\ pc'[t] = l
           /\ \A u \in Thread \ {t} : pc'[u] = pc[u]
           /\ Cardinality(At(pc', {"count"})) + (IF pc[t] = "count" THEN 1 ELSE 0)
              = Cardinality(At(pc, {"count"})) + (IF l = "count" THEN 1 ELSE 0)
           /\ Cardinality(At(pc', Inside)) + (IF pc[t] = "idle" THEN 0 ELSE 1)
              = Cardinality(At(pc, Inside)) + (IF l = "idle" THEN 0 ELSE 1)
           /\ Cardinality(At(pc', {"take"})) + (IF pc[t] = "take" THEN 1 ELSE 0)
              = Cardinality(At(pc, {"take"})) + (IF l = "take" THEN 1 ELSE 0)
<1>1. pc \in [Thread -> Place]
  BY DEF MetricsTypeOK, Place
<1>2. pc' = [pc EXCEPT ![t] = l]
  BY DEF Goto
<1>3. pc' \in [Thread -> Place] /\ pc'[t] = l /\ \A u \in Thread \ {t} : pc'[u] = pc[u]
  BY <1>1, <1>2
<1>4. \A P : Cardinality(At(pc', P)) + One(pc[t], P) = Cardinality(At(pc, P)) + One(l, P)
  BY <1>1, <1>3, AtMoves
<1>5. \A p \in Place : p \in Inside <=> p # "idle"
  BY DEF Inside
<1>6. pc[t] \in Place
  BY <1>1
<1>7. Cardinality(At(pc', {"count"})) + (IF pc[t] \in {"count"} THEN 1 ELSE 0)
      = Cardinality(At(pc, {"count"})) + (IF l \in {"count"} THEN 1 ELSE 0)
  BY <1>4 DEF One
<1>8. Cardinality(At(pc', {"take"})) + (IF pc[t] \in {"take"} THEN 1 ELSE 0)
      = Cardinality(At(pc, {"take"})) + (IF l \in {"take"} THEN 1 ELSE 0)
  BY <1>4 DEF One
<1>9. Cardinality(At(pc', Inside)) + (IF pc[t] \in Inside THEN 1 ELSE 0)
      = Cardinality(At(pc, Inside)) + (IF l \in Inside THEN 1 ELSE 0)
  BY <1>4 DEF One
<1>10. Cardinality(At(pc', Inside)) + (IF pc[t] = "idle" THEN 0 ELSE 1)
      = Cardinality(At(pc, Inside)) + (IF l = "idle" THEN 0 ELSE 1)
  <2>1. (pc[t] \in Inside <=> pc[t] # "idle") /\ (l \in Inside <=> l # "idle")
    BY <1>5, <1>6
  <2>2. (IF pc[t] \in Inside THEN 1 ELSE 0) = IF pc[t] = "idle" THEN 0 ELSE 1
    BY <2>1
  <2>3. (IF l \in Inside THEN 1 ELSE 0) = IF l = "idle" THEN 0 ELSE 1
    BY <2>1
  <2>. QED  BY <1>9, <2>2, <2>3
<1>. QED  BY <1>7, <1>8, <1>10, <1>3

\* Nobody is inside record() after a restart.
LEMMA Emptied ==
    ASSUME pc' = [t \in Thread |-> "idle"]
    PROVE  /\ pc' \in [Thread -> Place]
           /\ \A t \in Thread : pc'[t] = "idle"
           /\ Cardinality(At(pc', {"count"})) = 0
           /\ Cardinality(At(pc', Inside)) = 0
           /\ Cardinality(At(pc', {"take"})) = 0
<1>1. \A t \in Thread : pc'[t] = "idle" /\ pc'[t] \notin Inside
  BY DEF Inside
<1>2. \A P : (\A t \in Thread : pc'[t] \notin P) => Cardinality(At(pc', P)) = 0
  BY AtNone
<1>3. Cardinality(At(pc', {"count"})) = 0 /\ Cardinality(At(pc', {"take"})) = 0
  BY <1>1, <1>2
<1>. QED  BY <1>1, <1>2, <1>3 DEF Place

\* The types, with the places named.
LEMMA Types ==
    ASSUME MetricsTypeOK
    PROVE  /\ total \in Nat /\ valid \in Nat /\ invalid \in Nat /\ started \in Nat
           /\ started <= MaxRuns /\ MaxRuns \in Nat
           /\ MaxRecent \in Nat /\ MaxRecent >= 1 /\ HistoryLimit \in Nat
           /\ Len(history) \in Nat /\ Len(recent) \in Nat
           /\ history \in Seq(Run) /\ recent \in Seq(Run)
           /\ pc \in [Thread -> Place]
BY MetricsAssumption, LenProperties DEF MetricsTypeOK, MetricsAssumption, Place

\* A snapshot more in the history.
LEMMA StoredTypes ==
    ASSUME NEW h \in Seq(Run), NEW r \in Run
    PROVE  /\ Append(h, r) \in Seq(Run) /\ Len(Append(h, r)) = Len(h) + 1
           /\ Newest(Append(h, r), HistoryLimit) \in Seq(Run)
           /\ Len(Newest(Append(h, r), HistoryLimit)) \in Nat
           /\ Len(Newest(Append(h, r), HistoryLimit)) <= Len(h) + 1
<1>1. /\ Append(h, r) \in Seq(Run) /\ Len(Append(h, r)) = Len(h) + 1
      /\ Len(h) \in Nat /\ HistoryLimit \in Nat
  BY MetricsAssumption, AppendProperties, LenProperties DEF MetricsAssumption
<1>2. /\ Newest(Append(h, r), HistoryLimit) \in Seq(Run)
      /\ Len(Newest(Append(h, r), HistoryLimit)) =
            IF Len(Append(h, r)) <= HistoryLimit THEN Len(Append(h, r)) ELSE HistoryLimit
  BY <1>1, NewestType
<1>. QED  BY <1>1, <1>2

\* What cutting the recent runs leaves.
LEMMA CutTypes ==
    ASSUME MetricsTypeOK
    PROVE  /\ Cut(recent) \in Seq(Run)
           /\ Len(Cut(recent)) = IF Len(recent) <= MaxRecent THEN Len(recent) ELSE MaxRecent
           /\ recent # <<>> => Cut(recent) # <<>> /\ Latest \in Run
<1>1. recent \in Seq(Run) /\ Len(recent) \in Nat /\ MaxRecent \in Nat /\ MaxRecent >= 1
  BY Types
<1>2. /\ Cut(recent) \in Seq(Run)
      /\ Len(Cut(recent)) = IF Len(recent) <= MaxRecent THEN Len(recent) ELSE MaxRecent
  BY <1>1, NewestType DEF Cut
<1>3. ASSUME recent # <<>> PROVE Cut(recent) # <<>> /\ Latest \in Run
  <2>1. Len(recent) >= 1
    BY <1>1, <1>3, EmptySeq
  <2>2. Len(Cut(recent)) >= 1
    BY <1>1, <1>2, <2>1
  <2>3. Latest \in Run
    BY <1>1, <2>1, ElementOfSeq DEF Latest
  <2>. QED  BY <1>2, <2>2, <2>3, EmptySeq
<1>. QED  BY <1>2, <1>3

\* RecentIsBounded, in terms of At.
LEMMA RecentAt ==
    /\ RecentIsBounded <=> Len(recent) <= MaxRecent + Cardinality(At(pc, {"take"}))
    /\ RecentIsBounded' <=> Len(recent') <= MaxRecent + Cardinality(At(pc', {"take"}))
<1>1. {t \in Thread : pc[t] = "take"} = At(pc, {"take"})
  BY DEF At
<1>2. {t \in Thread : pc'[t] = "take"} = At(pc', {"take"})
  BY DEF At
<1>. QED  BY <1>1, <1>2 DEF RecentIsBounded

-----------------------------------------------------------------------------
\* Every step keeps the types, the numbers and the bound on the recent runs.
Sized == MetricsTypeOK /\ Numbers /\ RecentIsBounded

\* A run that starts adds a thread inside record(), and one to the runs there were.
LEMMA StartSized ==
    ASSUME Sized, NEW t \in Thread, Start(t)
    PROVE  Sized'
<1>1. MetricsTypeOK /\ pc[t] = "idle" /\ Goto(t, "count") /\ "count" \in Place
  BY DEF Sized, Start, Place
<1>2. MetricsTypeOK'
  <2>1. started' \in 0..MaxRuns
    BY <1>1, Types DEF Start
  <2>2. overlapped' \in BOOLEAN
    BY <1>1 DEF Start, MetricsTypeOK
  <2>3. outcome' \in [Thread -> BOOLEAN]
    BY <1>1 DEF Start, MetricsTypeOK
  <2>4. pc' \in [Thread -> Place]
    BY <1>1, Moved
  <2>. QED  BY <1>1, <2>1, <2>2, <2>3, <2>4 DEF Start, MetricsTypeOK, Place, counters
<1>3. Numbers'
  <2>1. /\ Cardinality(At(pc', {"count"})) = Cardinality(At(pc, {"count"})) + 1
        /\ Cardinality(At(pc', Inside)) = Cardinality(At(pc, Inside)) + 1
    BY <1>1, Moved, Numbered
  <2>2. \A u \in Thread : pc'[u] = "take" => recent # <<>>
    BY <1>1, Moved DEF Sized, Numbers
  <2>3. /\ started' = started + 1
        /\ UNCHANGED <<total, valid, invalid, recent, history>>
    BY DEF Start, counters
  <2>4. /\ total + Cardinality(At(pc, {"count"})) <= started
        /\ Len(history) + Cardinality(At(pc, Inside)) <= started
        /\ valid + invalid = total
    BY DEF Sized, Numbers
  <2>5. /\ total \in Nat /\ Len(history) \in Nat /\ started \in Nat
        /\ Cardinality(At(pc, {"count"})) \in Nat /\ Cardinality(At(pc, Inside)) \in Nat
    BY <1>1, Types, Numbered
  <2>6. /\ total' + Cardinality(At(pc', {"count"})) <= started'
        /\ Len(history') + Cardinality(At(pc', Inside)) <= started'
    BY <2>1, <2>3, <2>4, <2>5
  <2>. QED  BY <2>2, <2>3, <2>4, <2>6 DEF Numbers
<1>4. RecentIsBounded'
  <2>1. Cardinality(At(pc', {"take"})) = Cardinality(At(pc, {"take"}))
    BY <1>1, Moved, Numbered
  <2>. QED  BY <2>1, RecentAt DEF Sized, Start
<1>. QED  BY <1>2, <1>3, <1>4 DEF Sized

\* A run that is counted is no longer to be counted.
LEMMA CountSized ==
    ASSUME Sized, NEW t \in Thread, Count(t)
    PROVE  Sized'
<1>1. MetricsTypeOK /\ pc[t] = "count" /\ Goto(t, "number") /\ "number" \in Place
  BY DEF Sized, Count, Place
<1>2. /\ Cardinality(At(pc', {"count"})) + 1 = Cardinality(At(pc, {"count"}))
      /\ Cardinality(At(pc', Inside)) = Cardinality(At(pc, Inside))
      /\ Cardinality(At(pc', {"take"})) = Cardinality(At(pc, {"take"}))
  BY <1>1, Moved, Numbered
<1>3. total' = total + 1 /\ valid' + invalid' = total' /\ valid' \in Nat /\ invalid' \in Nat
  BY <1>1, Types DEF Sized, Numbers, Count, Counted
<1>4. Numbers'
  <2>1. \A u \in Thread : pc'[u] = "take" => recent # <<>>
    BY <1>1, Moved DEF Sized, Numbers
  <2>2. UNCHANGED <<recent, history, started>>
    BY DEF Count
  <2>3. /\ total + Cardinality(At(pc, {"count"})) <= started
        /\ Len(history) + Cardinality(At(pc, Inside)) <= started
    BY DEF Sized, Numbers
  <2>4. /\ total \in Nat /\ started \in Nat /\ Cardinality(At(pc', {"count"})) \in Nat
        /\ Cardinality(At(pc, {"count"})) \in Nat
    BY <1>1, Types, Numbered
  <2>5. total' + Cardinality(At(pc', {"count"})) <= started'
    BY <1>2, <1>3, <2>2, <2>3, <2>4
  <2>6. Len(history') + Cardinality(At(pc', Inside)) <= started'
    BY <1>2, <2>2, <2>3
  <2>. QED  BY <1>3, <2>1, <2>2, <2>5, <2>6 DEF Numbers
<1>5. MetricsTypeOK'
  <2>1. {total', valid', invalid'} \subseteq 0..MaxRuns
    <3>1. total' + Cardinality(At(pc', {"count"})) <= started'
      BY <1>4 DEF Numbers
    <3>2. /\ total' \in Nat /\ started' \in Nat /\ started' <= MaxRuns /\ MaxRuns \in Nat
          /\ Cardinality(At(pc', {"count"})) \in Nat
      BY <1>1, <1>3, Types, Numbered DEF Count
    <3>3. total' <= MaxRuns
      BY <3>1, <3>2
    <3>4. total' \in 0..MaxRuns /\ valid' \in 0..MaxRuns /\ invalid' \in 0..MaxRuns
      BY <1>3, <3>2, <3>3
    <3>. QED  BY <3>4
  <2>2. pc' \in [Thread -> Place]
    BY <1>1, Moved
  <2>. QED  BY <1>1, <2>1, <2>2 DEF Count, MetricsTypeOK, Place, recordVars
<1>6. RecentIsBounded'
  BY <1>2, RecentAt DEF Sized, Count
<1>. QED  BY <1>4, <1>5, <1>6 DEF Sized

\* A run number is the number of a run there was.
LEMMA NumberSized ==
    ASSUME Sized, NEW t \in Thread, Number(t)
    PROVE  Sized'
<1>1. MetricsTypeOK /\ pc[t] = "number" /\ Goto(t, "push") /\ "push" \in Place
  BY DEF Sized, Number, Place
<1>2. /\ Cardinality(At(pc', {"count"})) = Cardinality(At(pc, {"count"}))
      /\ Cardinality(At(pc', Inside)) = Cardinality(At(pc, Inside))
      /\ Cardinality(At(pc', {"take"})) = Cardinality(At(pc, {"take"}))
  BY <1>1, Moved, Numbered
<1>3. MetricsTypeOK'
  <2>1. number' \in [Thread -> 0..MaxRuns]
    BY <1>1 DEF Number, MetricsTypeOK
  <2>2. pc' \in [Thread -> Place]
    BY <1>1, Moved
  <2>. QED  BY <1>1, <2>1, <2>2 DEF Number, MetricsTypeOK, Place, counters
<1>4. Numbers'
  <2>1. \A u \in Thread : pc'[u] = "take" => recent # <<>>
    BY <1>1, Moved DEF Sized, Numbers
  <2>. QED  BY <1>2, <2>1 DEF Sized, Numbers, Number, counters
<1>5. RecentIsBounded'
  BY <1>2, RecentAt DEF Sized, Number
<1>. QED  BY <1>3, <1>4, <1>5 DEF Sized

\* A run more among the recent ones is a thread more that is about to cut them.
LEMMA PushSized ==
    ASSUME Sized, NEW t \in Thread, Push(t)
    PROVE  Sized'
<1>1. MetricsTypeOK /\ pc[t] = "push" /\ Goto(t, "take") /\ "take" \in Place
  BY DEF Sized, Push, Place
<1>2. /\ Cardinality(At(pc', {"count"})) = Cardinality(At(pc, {"count"}))
      /\ Cardinality(At(pc', Inside)) = Cardinality(At(pc, Inside))
      /\ Cardinality(At(pc', {"take"})) = Cardinality(At(pc, {"take"})) + 1
  BY <1>1, Moved, Numbered
<1>3. recent' \in Seq(Run) /\ Len(recent') = Len(recent) + 1 /\ recent' # <<>>
  <2>1. [number |-> number[t], valid |-> outcome[t]] \in Run
    BY <1>1 DEF MetricsTypeOK, Run
  <2>2. recent \in Seq(Run) /\ Len(recent) \in Nat
    BY <1>1, Types
  <2>3. recent' = Append(recent, [number |-> number[t], valid |-> outcome[t]])
    BY DEF Push
  <2>4. recent' \in Seq(Run) /\ Len(recent') = Len(recent) + 1
    BY <2>1, <2>2, <2>3, AppendProperties
  <2>. QED  BY <2>2, <2>4, EmptySeq
<1>4. MetricsTypeOK'
  <2>1. pc' \in [Thread -> Place]
    BY <1>1, Moved
  <2>. QED  BY <1>1, <1>3, <2>1 DEF Push, MetricsTypeOK, Place, counters, recordVars
<1>5. Numbers'
  BY <1>2, <1>3 DEF Sized, Numbers, Push, counters
<1>6. RecentIsBounded'
  BY <1>1, <1>2, <1>3, Types, Numbered, RecentAt DEF Sized, Push
<1>. QED  BY <1>4, <1>5, <1>6 DEF Sized

\* The thread that was about to cut the recent runs has cut them.
LEMMA TakeSized ==
    ASSUME Sized, NEW t \in Thread, Take(t)
    PROVE  Sized'
<1>1. MetricsTypeOK /\ pc[t] = "take" /\ Goto(t, "persist") /\ "persist" \in Place
  BY DEF Sized, Take, Place
<1>2. /\ Cardinality(At(pc', {"count"})) = Cardinality(At(pc, {"count"}))
      /\ Cardinality(At(pc', Inside)) = Cardinality(At(pc, Inside))
      /\ Cardinality(At(pc', {"take"})) + 1 = Cardinality(At(pc, {"take"}))
  BY <1>1, Moved, Numbered
<1>3. /\ recent' \in Seq(Run) /\ recent' # <<>> /\ Latest \in Run
      /\ Len(recent') = IF Len(recent) <= MaxRecent THEN Len(recent) ELSE MaxRecent
  <2>1. recent # <<>> /\ recent' = Cut(recent)
    BY <1>1 DEF Sized, Numbers, Take
  <2>. QED  BY <1>1, <2>1, CutTypes
<1>4. MetricsTypeOK'
  <2>1. snapshot' \in [Thread -> Run]
    BY <1>1, <1>3 DEF Take, MetricsTypeOK
  <2>2. pc' \in [Thread -> Place]
    BY <1>1, Moved
  <2>. QED  BY <1>1, <1>3, <2>1, <2>2 DEF Take, MetricsTypeOK, Place, counters
<1>5. Numbers'
  BY <1>2, <1>3 DEF Sized, Numbers, Take, counters
<1>6. RecentIsBounded'
  <2>1. Len(recent') <= MaxRecent + Cardinality(At(pc', {"take"}))
    BY <1>1, <1>3, Types, Numbered
  <2>. QED  BY <2>1, RecentAt
<1>. QED  BY <1>4, <1>5, <1>6 DEF Sized

\* The history gets at most one entry, and the thread is done.
LEMMA StoredSized ==
    ASSUME Sized, NEW t \in Thread, pc[t] = "persist", Goto(t, "idle"),
           history' \in Seq(Run), Len(history') <= Len(history) + 1,
           tail' \in {"ended", "cut", "open"}, status' \in {"ok", "error"},
           complete' \in BOOLEAN, failures' \in Nat,
           UNCHANGED <<counters, recent, recordVars, started, base, overlapped>>
    PROVE  Sized'
<1>1. MetricsTypeOK /\ "idle" \in Place
  BY DEF Sized, Place
<1>2. /\ Cardinality(At(pc', {"count"})) = Cardinality(At(pc, {"count"}))
      /\ Cardinality(At(pc', Inside)) + 1 = Cardinality(At(pc, Inside))
      /\ Cardinality(At(pc', {"take"})) = Cardinality(At(pc, {"take"}))
      /\ Len(history') \in Nat
  BY <1>1, Moved, Numbered, LenProperties
<1>3. MetricsTypeOK'
  <2>1. pc' \in [Thread -> Place]
    BY <1>1, Moved
  <2>. QED  BY <1>1, <2>1 DEF MetricsTypeOK, Place, counters, recordVars
<1>4. Numbers'
  <2>1. \A u \in Thread : pc'[u] = "take" => recent # <<>>
    BY <1>1, Moved DEF Sized, Numbers
  <2>. QED  BY <1>1, <1>2, <2>1, Types, Numbered DEF Sized, Numbers, counters
<1>5. RecentIsBounded'
  BY <1>2, RecentAt DEF Sized
<1>. QED  BY <1>3, <1>4, <1>5 DEF Sized

\* The history as a file.
LEMMA FileType ==
    ASSUME MetricsTypeOK
    PROVE  File \in FileOf(Run) /\ File.recs = history /\ File.tail = tail
BY DEF MetricsTypeOK, File, FileOf

\* What history.append() makes of the history: it gets at most one entry, and is sure
\* to keep one more when the call returns and at most one less when it raises, unless
\* compaction left it at its limit.
LEMMA Stored ==
    ASSUME MetricsTypeOK, NEW t \in Thread, Persist(t) \/ PersistFails(t)
    PROVE  /\ history' \in Seq(Run) /\ tail' \in {"ended", "cut", "open"}
           /\ Len(history') \in Nat /\ Len(history') <= Len(history) + 1
           /\ Weight(File) \in Int /\ Weight(File') \in Int
           /\ Persist(t) => Weight(File') = Len(history')
                            /\ \/ Weight(File') >= Weight(File) + 1
                               \/ Len(history') = HistoryLimit
           /\ PersistFails(t) => \/ Weight(File') >= Weight(File) - 1
                                 \/ Weight(File') = HistoryLimit
<1>1. /\ File \in FileOf(Run) /\ File.recs = history /\ File.tail = tail
      /\ snapshot[t] \in Run /\ HistoryLimit \in Nat
  BY FileType, MetricsAssumption DEF MetricsTypeOK, MetricsAssumption
<1>. DEFINE a == AddLine(File, snapshot[t])
            c == AddCut(File)
            o == AddOpen(File, snapshot[t])
<1>2. /\ Len(history) \in Nat /\ Weight(File) \in Int
      /\ Len(a.recs) \in Nat /\ Len(a.recs) <= Len(history) + 1
      /\ Weight(a) = Len(a.recs) /\ Weight(a) >= Weight(File) + 1
      /\ Len(c.recs) \in Nat /\ Len(c.recs) <= Len(history) + 1
      /\ Weight(c) \in Int /\ Weight(c) >= Weight(File) - 1
      /\ Len(o.recs) \in Nat /\ Len(o.recs) <= Len(history) + 1
      /\ Weight(o) \in Int /\ Weight(o) >= Weight(File) - 1
  BY <1>1, AddWeight
<1>3. a \in FileOf(Run) /\ c \in FileOf(Run) /\ o \in FileOf(Run)
  BY <1>1, AddType
<1>4. File'.recs = history' /\ File'.tail = tail'
  BY DEF File
<1>5. \A g : g.recs = history' /\ g.tail = tail' => Weight(File') = Weight(g)
  BY <1>4 DEF Weight
<1>8. /\ Appended(snapshot[t]).tail = "ended"
      /\ Appended(snapshot[t]).recs \in Seq(Run)
      /\ Weight(Appended(snapshot[t])) = Len(Appended(snapshot[t]).recs)
      /\ Len(Appended(snapshot[t]).recs) \in Nat
      /\ Len(Appended(snapshot[t]).recs) <= Len(history) + 1
      /\ \/ Len(Appended(snapshot[t]).recs) >= Weight(File) + 1
         \/ Len(Appended(snapshot[t]).recs) = HistoryLimit
  <2>. DEFINE n == Newest(a.recs, HistoryLimit)
  <2>1. Appended(snapshot[t]).recs = n /\ Appended(snapshot[t]).tail = "ended"
    BY DEF Appended, CleanFile
  <2>. HIDE DEF a
  <2>2. a.recs \in Seq(Run)
    BY <1>3 DEF FileOf
  <2>3. n \in Seq(Run) /\ Len(n) = IF Len(a.recs) <= HistoryLimit THEN Len(a.recs) ELSE HistoryLimit
    BY <1>1, <2>2, NewestType
  <2>. HIDE DEF n
  <2>4. /\ Len(n) \in Nat /\ Len(n) <= Len(history) + 1
        /\ Len(n) >= Weight(File) + 1 \/ Len(n) = HistoryLimit
    BY <1>1, <1>2, <2>3
  <2>5. Weight(Appended(snapshot[t])) = Len(n)
    BY <2>1, <2>4 DEF Weight
  <2>. QED  BY <2>1, <2>3, <2>4, <2>5
<1>6. CASE Persist(t)
  <2>1. history' = Appended(snapshot[t]).recs /\ tail' = Appended(snapshot[t]).tail
    BY <1>6, <1>8 DEF Persist
  <2>2. Weight(File') = Weight(Appended(snapshot[t]))
    BY <1>5, <2>1
  <2>3. tail' \in {"ended", "cut", "open"}
    BY <1>8, <2>1
  <2>4. ~PersistFails(t)
    BY <1>6 DEF Persist, PersistFails
  <2>5. /\ history' \in Seq(Run) /\ Len(history') \in Nat /\ Len(history') <= Len(history) + 1
        /\ Weight(File') = Len(history')
        /\ Len(history') >= Weight(File) + 1 \/ Len(history') = HistoryLimit
    BY <1>8, <2>1, <2>2
  <2>6. Weight(File') \in Int /\ (Weight(File') >= Weight(File) + 1 \/ Len(history') = HistoryLimit)
    BY <2>5
  <2>. QED  BY <1>2, <2>3, <2>4, <2>5, <2>6
<1>7. CASE PersistFails(t)
  <2>1. PICK g \in {File, a, c, o, Appended(snapshot[t])} : history' = g.recs /\ tail' = g.tail
    BY <1>7 DEF PersistFails
  <2>. HIDE DEF a, c, o
  <2>2. /\ g.recs \in Seq(Run) /\ g.tail \in {"ended", "cut", "open"}
        /\ Len(g.recs) \in Nat /\ Len(g.recs) <= Len(history) + 1
        /\ Weight(g) \in Int
        /\ Weight(g) >= Weight(File) - 1 \/ Weight(g) = HistoryLimit
    <3>1. CASE g = File
      BY <1>1, <1>2, <3>1 DEF FileOf
    <3>2. CASE g = a
      BY <1>2, <1>3, <3>2 DEF FileOf
    <3>3. CASE g = c
      BY <1>2, <1>3, <3>3 DEF FileOf
    <3>4. CASE g = o
      BY <1>2, <1>3, <3>4 DEF FileOf
    <3>5. CASE g = Appended(snapshot[t])
      <4>1. /\ Weight(g) = Len(g.recs) /\ Len(g.recs) \in Nat /\ Weight(File) \in Int
            /\ Len(g.recs) >= Weight(File) + 1 \/ Len(g.recs) = HistoryLimit
        BY <1>2, <1>8, <3>5
      <4>2. Weight(g) \in Int /\ (Weight(g) >= Weight(File) - 1 \/ Weight(g) = HistoryLimit)
        BY <4>1
      <4>. QED  BY <1>8, <3>5, <4>2
    <3>. QED  BY <3>1, <3>2, <3>3, <3>4, <3>5
  <2>3. history' \in Seq(Run) /\ tail' \in {"ended", "cut", "open"}
    BY <2>1, <2>2
  <2>4. Weight(File') = Weight(g)
    BY <1>5, <2>1
  <2>5. ~Persist(t)
    BY <1>7 DEF Persist, PersistFails
  <2>6. Len(history') \in Nat /\ Len(history') <= Len(history) + 1
    BY <2>1, <2>2
  <2>7. /\ Weight(File') \in Int
        /\ Weight(File') >= Weight(File) - 1 \/ Weight(File') = HistoryLimit
    <3>1. Weight(g) \in Int /\ (Weight(g) >= Weight(File) - 1 \/ Weight(g) = HistoryLimit)
      BY <2>2, Zenon
    <3>. QED  BY <2>4, <3>1, Zenon
  <2>. QED  BY <1>2, <2>3, <2>5, <2>6, <2>7
<1>. QED  BY <1>6, <1>7

\* Whether history.append() returns or raises, the history gets at most one entry.
LEMMA PersistSized ==
    ASSUME Sized, NEW t \in Thread, Persist(t) \/ PersistFails(t)
    PROVE  Sized'
<1>1. /\ history' \in Seq(Run) /\ Len(history') <= Len(history) + 1
      /\ tail' \in {"ended", "cut", "open"}
  BY Stored DEF Sized
<1>2. complete' \in BOOLEAN
  BY DEF Sized, MetricsTypeOK, Persist, PersistFails
<1>3. failures' \in Nat
  BY DEF Sized, MetricsTypeOK, Persist, PersistFails
<1>. QED  BY <1>1, <1>2, <1>3, StoredSized DEF Persist, PersistFails

\* What a restart restores is no more than the runs in the history.
LEMMA RestartSized ==
    ASSUME Sized, Restart \/ RestartUnread
    PROVE  Sized'
<1>1. /\ MetricsTypeOK /\ pc' = [t \in Thread |-> "idle"]
      /\ UNCHANGED <<historyVars, recordVars, started>>
      /\ base' \in Nat /\ failures' \in Nat
  BY LenProperties DEF Sized, Restart, RestartUnread, MetricsTypeOK
<1>2. Len(history) <= started /\ Len(history) <= MaxRuns
  BY <1>1, Types, Numbered DEF Sized, Numbers
<1>3. RestoredRuns(history) \in Seq(Run) /\ Len(RestoredRuns(history)) \in Nat
  BY <1>1, <1>2, Types, RestoredTypes
<1>4. /\ total' \in Nat /\ valid' \in Nat /\ invalid' \in Nat
      /\ valid' + invalid' = total' /\ total' <= started
      /\ total' <= MaxRuns /\ valid' <= MaxRuns /\ invalid' <= MaxRuns
  <2>0. started \in Nat /\ MaxRuns \in Nat
    BY <1>1, Types
  <2>1. /\ RestoredTotal(history) = Len(history) /\ Len(history) \in Nat
        /\ RestoredValid(history) \in Nat /\ RestoredValid(history) <= Len(history)
    BY <1>1, Types, RestoredTypes
  <2>2. CASE Restart
    BY <1>2, <2>0, <2>1, <2>2 DEF Restart
  <2>3. CASE RestartUnread
    BY <2>0, <2>3 DEF RestartUnread
  <2>. QED  BY <2>2, <2>3
<1>5. recent' \in Seq(Run) /\ Len(recent') \in Nat /\ Len(recent') <= MaxRecent
  <2>1. CASE Restart
    BY <1>1, <1>3, <2>1, Types, NewestType DEF Restart
  <2>2. CASE RestartUnread
    <3>1. <<>> \in Seq(Run) /\ Len(<<>>) = 0 /\ MaxRecent \in Nat
      BY <1>1, Types, EmptySeq
    <3>. QED  BY <2>2, <3>1 DEF RestartUnread
  <2>. QED  BY <2>1, <2>2
<1>6. status' \in {"ok", "error"} /\ complete' \in BOOLEAN /\ overlapped' \in BOOLEAN
  BY DEF Restart, RestartUnread
<1>7. MetricsTypeOK'
  <2>1. {total', valid', invalid'} \subseteq 0..MaxRuns
    <3>1. MaxRuns \in Nat
      BY <1>1, Types
    <3>2. \A n \in Nat : n <= MaxRuns => n \in 0..MaxRuns
      BY <3>1
    <3>. QED  BY <1>4, <3>2
  <2>2. pc' \in [Thread -> Place]
    BY <1>1, Emptied
  <2>. QED  BY <1>1, <1>6, <1>5, <2>1, <2>2 DEF MetricsTypeOK, Place, recordVars
<1>8. Numbers'
  <2>1. \A t \in Thread : pc'[t] # "take"
    BY <1>1
  <2>2. Cardinality(At(pc', {"count"})) = 0 /\ Cardinality(At(pc', Inside)) = 0
    BY <1>1, Emptied
  <2>3. history' = history /\ started' = started /\ Len(history) \in Nat
    BY <1>1, Types
  <2>5. total' + Cardinality(At(pc', {"count"})) <= started'
    BY <1>4, <2>2, <2>3
  <2>6. Len(history') + Cardinality(At(pc', Inside)) <= started'
    BY <1>2, <2>2, <2>3
  <2>4. /\ total' + Cardinality(At(pc', {"count"})) <= started'
        /\ Len(history') + Cardinality(At(pc', Inside)) <= started'
    BY <2>5, <2>6
  <2>. QED  BY <1>4, <2>1, <2>4 DEF Numbers
<1>9. RecentIsBounded'
  <2>1. Cardinality(At(pc', {"take"})) = 0
    BY <1>1, Emptied
  <2>2. MaxRecent \in Nat
    BY <1>1, Types
  <2>. QED  BY <1>5, <2>1, <2>2, RecentAt
<1>. QED  BY <1>7, <1>8, <1>9 DEF Sized

\* One step, whichever it is.
LEMMA StepSized ==
    ASSUME Sized, [MetricsNext]_metricsVars
    PROVE  Sized'
<1>1. CASE \E t \in Thread : Start(t) \/ Record(t) \/ PersistFails(t)
  BY <1>1, StartSized, CountSized, NumberSized, PushSized, TakeSized, PersistSized DEF Record
<1>2. CASE ReadFails \/ UNCHANGED metricsVars
  <2>1. UNCHANGED <<counters, recent, historyVars, pc, recordVars, started, lossVars,
                    overlapped>>
    BY <1>2 DEF ReadFails, metricsVars
  <2>2. status' \in {"ok", "error"}
    BY <1>2 DEF Sized, MetricsTypeOK, ReadFails, metricsVars
  <2>3. MetricsTypeOK'
    BY <2>1, <2>2 DEF Sized, MetricsTypeOK, counters, recordVars
  <2>4. Numbers' /\ RecentIsBounded'
    BY <2>1, RecentAt DEF Sized, Numbers, counters
  <2>. QED  BY <2>3, <2>4 DEF Sized
<1>3. CASE Restart \/ RestartUnread
  BY <1>3, RestartSized
<1>. QED  BY <1>1, <1>2, <1>3 DEF MetricsNext

-----------------------------------------------------------------------------
\* What the accounts are made of.
LEMMA AccountTypes ==
    ASSUME MetricsTypeOK
    PROVE  /\ base \in Nat /\ total \in Nat /\ failures \in Nat /\ HistoryLimit \in Nat
           /\ Cardinality(At(pc, Storing)) \in Nat /\ Due \in Int
           /\ Len(history) \in Nat /\ Weight(File) \in Int
<1>1. base \in Nat /\ total \in Nat /\ failures \in Nat /\ HistoryLimit \in Nat
  BY Types DEF MetricsTypeOK
<1>2. Cardinality(At(pc, Storing)) \in Nat
  BY AtFinite
<1>3. Due \in Int
  BY <1>1, <1>2 DEF Due
<1>4. Len(history) \in Nat /\ Weight(File) \in Int
  BY Types, FileType DEF Weight
<1>. QED  BY <1>1, <1>2, <1>3, <1>4

\* A thread that goes to l is among those that are to store a run by where it
\* stands.
LEMMA StoringMoves ==
    ASSUME MetricsTypeOK, NEW t \in Thread, NEW l \in Place, Goto(t, l)
    PROVE  /\ Cardinality(At(pc', Storing)) \in Nat
           /\ Cardinality(At(pc', Storing)) + (IF pc[t] \in {"idle", "count"} THEN 0 ELSE 1)
              = Cardinality(At(pc, Storing)) + (IF l \in {"idle", "count"} THEN 0 ELSE 1)
<1>1. pc \in [Thread -> Place] /\ pc' = [pc EXCEPT ![t] = l]
  BY DEF MetricsTypeOK, Place, Goto
<1>2. pc'[t] = l /\ \A u \in Thread \ {t} : pc'[u] = pc[u]
  BY <1>1
<1>3. Cardinality(At(pc', Storing)) + One(pc[t], Storing)
        = Cardinality(At(pc, Storing)) + One(l, Storing)
  <2>1. pc \in [Thread -> Place]
    BY <1>1
  <2>2. \A P : Cardinality(At(pc', P)) + One(pc[t], P) = Cardinality(At(pc, P)) + One(l, P)
    BY <1>2, <2>1, AtMoves
  <2>. QED  BY <2>2
<1>4. \A q \in Place : One(q, Storing) = IF q \in {"idle", "count"} THEN 0 ELSE 1
  BY DEF One, Place, Storing
<1>5. One(pc[t], Storing) = (IF pc[t] \in {"idle", "count"} THEN 0 ELSE 1)
  <2>1. pc[t] \in Place
    BY <1>1
  <2>. QED  BY <1>4, <2>1
<1>6. One(l, Storing) = (IF l \in {"idle", "count"} THEN 0 ELSE 1)
  BY <1>4
<1>7. Cardinality(At(pc', Storing)) \in Nat
  BY AtFinite
<1>. QED  BY <1>3, <1>5, <1>6, <1>7

\* Where neither the history nor what it is due changes, the accounts stay balanced.
LEMMA SameAccounts ==
    ASSUME Accounts, Due' = Due, UNCHANGED <<history, tail, failures>>
    PROVE  Accounts'
<1>1. File' = File
  BY DEF File
<1>2. Weight(File') = Weight(File) /\ Kept(Due)' = Kept(Due)
  BY <1>1 DEF Kept
<1>. QED  BY <1>2 DEF Accounts

\* A run is due as soon as its thread is to store it no more.
LEMMA RecordAccounts ==
    ASSUME MetricsTypeOK, Accounts, NEW t \in Thread,
           Start(t) \/ Count(t) \/ Number(t) \/ Push(t) \/ Take(t)
    PROVE  Accounts'
<1>1. Cardinality(At(pc, Storing)) \in Nat /\ base \in Nat /\ total \in Nat
  BY AccountTypes
<1>2. base' = base /\ UNCHANGED <<history, tail, failures>>
  BY DEF Start, Count, Number, Push, Take
<1>3. Due' = base' + total' - Cardinality(At(pc', Storing))
  BY DEF Due
<1>4. CASE Start(t)
  <2>1. total' = total /\ pc[t] = "idle" /\ Goto(t, "count")
    BY <1>4 DEF Start, counters
  <2>2. Cardinality(At(pc', Storing)) = Cardinality(At(pc, Storing))
    BY <1>1, <2>1, StoringMoves DEF Place
  <2>3. Due' = Due
    BY <1>2, <1>3, <2>1, <2>2 DEF Due
  <2>. QED  BY <1>2, <2>3, SameAccounts
<1>5. CASE Count(t)
  <2>1. total' = total + 1 /\ pc[t] = "count" /\ Goto(t, "number")
    BY <1>5 DEF Count, Counted
  <2>2. Cardinality(At(pc', Storing)) = Cardinality(At(pc, Storing)) + 1
    BY <1>1, <2>1, StoringMoves DEF Place
  <2>3. Due' = Due
    BY <1>1, <1>2, <1>3, <2>1, <2>2 DEF Due
  <2>. QED  BY <1>2, <2>3, SameAccounts
<1>6. CASE Number(t) \/ Push(t) \/ Take(t)
  <2>1. /\ total' = total
        /\ \/ pc[t] = "number" /\ Goto(t, "push")
           \/ pc[t] = "push" /\ Goto(t, "take")
           \/ pc[t] = "take" /\ Goto(t, "persist")
    BY <1>6 DEF Number, Push, Take, counters
  <2>2. Cardinality(At(pc', Storing)) = Cardinality(At(pc, Storing))
    <3>1. CASE pc[t] = "number" /\ Goto(t, "push")
      BY <1>1, <3>1, StoringMoves DEF Place
    <3>2. CASE pc[t] = "push" /\ Goto(t, "take")
      BY <1>1, <3>2, StoringMoves DEF Place
    <3>3. CASE pc[t] = "take" /\ Goto(t, "persist")
      BY <1>1, <3>3, StoringMoves DEF Place
    <3>. QED  BY <2>1, <3>1, <3>2, <3>3
  <2>3. Due' = Due
    BY <1>2, <1>3, <2>1, <2>2 DEF Due
  <2>. QED  BY <1>2, <2>3, SameAccounts
<1>. QED  BY <1>4, <1>5, <1>6

\* A run that is due is stored, or its append failed.
LEMMA PersistAccounts ==
    ASSUME MetricsTypeOK, Accounts, NEW t \in Thread, Persist(t) \/ PersistFails(t)
    PROVE  Accounts'
<1>1. /\ base \in Nat /\ total \in Nat /\ failures \in Nat /\ HistoryLimit \in Nat
      /\ Cardinality(At(pc, Storing)) \in Nat /\ Due \in Int
      /\ Len(history) \in Nat /\ Weight(File) \in Int
  BY AccountTypes
<1>2. /\ total' = total /\ base' = base /\ pc[t] = "persist" /\ Goto(t, "idle")
      /\ Persist(t) => failures' = failures
      /\ PersistFails(t) => failures' = failures + 1
  BY DEF Persist, PersistFails, counters
<1>3. /\ Cardinality(At(pc', Storing)) \in Nat
      /\ Cardinality(At(pc', Storing)) + 1 = Cardinality(At(pc, Storing))
  BY <1>1, <1>2, StoringMoves DEF Place
<1>4. Due' = Due + 1
  <2>1. Due' = base' + total' - Cardinality(At(pc', Storing))
    BY DEF Due
  <2>. QED  BY <1>1, <1>2, <1>3, <2>1 DEF Due
<1>5. /\ Len(history') \in Nat /\ Len(history') <= Len(history) + 1
      /\ Weight(File') \in Int
      /\ Persist(t) => Weight(File') = Len(history')
                       /\ \/ Weight(File') >= Weight(File) + 1
                          \/ Len(history') = HistoryLimit
      /\ PersistFails(t) => \/ Weight(File') >= Weight(File) - 1
                            \/ Weight(File') = HistoryLimit
  BY Stored
<1>6. Len(history) <= Due /\ Weight(File) + 2 * failures >= Kept(Due)
  BY DEF Accounts
<1>7. Kept(Due)' = Kept(Due') /\ Kept(Due') <= Kept(Due) + 1 /\ Kept(Due') <= HistoryLimit
      /\ Kept(Due) \in Int /\ Kept(Due') \in Int
  BY <1>1, <1>4 DEF Kept
<1>8. Len(history') <= Due'
  BY <1>1, <1>4, <1>5, <1>6
<1>9. Weight(File') + 2 * failures' >= Kept(Due')
  <2>. DEFINE w == Weight(File)
              v == Weight(File')
              k == Kept(Due)
              l == Kept(Due')
              n == Len(history')
  <2>1. /\ w \in Int /\ v \in Int /\ k \in Int /\ l \in Int /\ n \in Nat
        /\ w + 2 * failures >= k /\ l <= k + 1 /\ l <= HistoryLimit
        /\ Persist(t) => v = n /\ (v >= w + 1 \/ n = HistoryLimit)
        /\ PersistFails(t) => v >= w - 1 \/ v = HistoryLimit
    BY <1>1, <1>5, <1>6, <1>7
  <2>. HIDE DEF w, v, k, l, n
  <2>2. CASE Persist(t)
    <3>1. failures' = failures
      BY <1>2, <2>2
    <3>. QED  BY <1>1, <2>1, <2>2, <3>1 DEF w, v, k, l, n
  <2>3. CASE PersistFails(t)
    <3>1. failures' = failures + 1 /\ (v >= w - 1 \/ v = HistoryLimit)
      BY <1>2, <2>1, <2>3
    <3>2. v + 2 * failures' >= l
      BY <1>1, <2>1, <3>1
    <3>. QED  BY <3>2 DEF v, l
  <2>. QED  BY <2>2, <2>3
<1>. QED  BY <1>7, <1>8, <1>9 DEF Accounts

\* A restart begins with the runs it finds, and owes one line to a torn end.
LEMMA RestartAccounts ==
    ASSUME MetricsTypeOK, Restart \/ RestartUnread
    PROVE  Accounts'
<1>1. Len(history) \in Nat /\ HistoryLimit \in Nat /\ history' = history /\ tail' = tail
  BY AccountTypes DEF Restart, RestartUnread
<1>2. base' + total' = Len(history) /\ base' \in Nat /\ total' \in Nat
      /\ failures' = IF tail = "ended" THEN 0 ELSE 1
  BY <1>1 DEF Restart, RestartUnread, RestoredTotal
<1>3. Cardinality(At(pc', Storing)) = 0
  <2>1. \A t \in Thread : pc'[t] \notin Storing
    BY DEF Restart, RestartUnread, Storing
  <2>. QED  BY <2>1, AtNone
<1>4. Due' = Len(history)
  <2>. DEFINE d == Due'
              b == base'
              n == total'
              h == Len(history)
              c == Cardinality(At(pc', Storing))
  <2>1. d = b + n - c
    BY DEF Due
  <2>2. b + n = h /\ b \in Nat /\ n \in Nat /\ c = 0
    BY <1>2, <1>3
  <2>. HIDE DEF d, b, n, h, c
  <2>3. d = h
    BY <2>1, <2>2
  <2>. QED  BY <2>3 DEF d, h
<1>5. Weight(File') = Len(history) - (IF tail = "ended" THEN 0 ELSE IF tail = "cut" THEN 1 ELSE 2)
  BY <1>1 DEF Weight, File
<1>6. Weight(File') + 2 * failures' >= Len(history)
  <2>1. CASE tail = "ended"
    BY <1>1, <1>2, <1>5, <2>1
  <2>2. CASE tail # "ended"
    BY <1>1, <1>2, <1>5, <2>2
  <2>. QED  BY <2>1, <2>2
<1>7. Kept(Due)' = Kept(Due') /\ Kept(Due') <= Len(history)
  BY <1>1, <1>4 DEF Kept
<1>8. Weight(File') + 2 * failures' >= Kept(Due)'
  <2>1. Weight(File') \in Int /\ failures' \in Nat /\ Kept(Due') \in Int
    <3>1. Weight(File') \in Int
      BY <1>1, <1>5
    <3>2. Kept(Due') \in Int
      BY <1>1, <1>4 DEF Kept
    <3>. QED  BY <1>2, <3>1, <3>2
  <2>. QED  BY <1>1, <1>6, <1>7, <2>1
<1>9. Len(history') <= Due'
  BY <1>1, <1>4
<1>. QED  BY <1>8, <1>9 DEF Accounts

\* One step, whichever it is.
LEMMA AccountsKept ==
    ASSUME MetricsTypeOK, Accounts, [MetricsNext]_metricsVars
    PROVE  Accounts'
<1>1. CASE \E t \in Thread : Start(t) \/ Record(t) \/ PersistFails(t)
  BY <1>1, RecordAccounts, PersistAccounts DEF Record
<1>2. CASE ReadFails \/ UNCHANGED metricsVars
  <2>1. UNCHANGED <<base, total, pc, history, tail, failures>>
    BY <1>2 DEF ReadFails, metricsVars, counters
  <2>2. Due' = Due
    BY <2>1 DEF Due
  <2>. QED  BY <2>1, <2>2, SameAccounts
<1>3. CASE Restart \/ RestartUnread
  BY <1>3, RestartAccounts
<1>. QED  BY <1>1, <1>2, <1>3 DEF MetricsNext

-----------------------------------------------------------------------------
\* No step brings a second thread into record() without marking the overlap.
LEMMA SoloKept ==
    ASSUME MetricsTypeOK, Solo, [MetricsNext]_metricsVars
    PROVE  Solo'
<1>1. CASE \E t \in Thread : Start(t)
  <2>1. PICK t \in Thread : Start(t)
    BY <1>1
  <2>2. \A u \in Thread \ {t} : pc'[u] = pc[u]
    BY <2>1, Moved DEF Start, Place
  <2>3. ~overlapped' => \A u \in Thread : pc[u] = "idle"
    BY <2>1 DEF Start
  <2>. QED  BY <2>2, <2>3 DEF Solo
<1>2. CASE \E t \in Thread : Record(t) \/ PersistFails(t)
  <2>1. PICK t \in Thread : Record(t) \/ PersistFails(t)
    BY <1>2
  <2>2. pc[t] # "idle" /\ overlapped' = overlapped
    BY <2>1 DEF Record, Count, Number, Push, Take, Persist, PersistFails
  <2>3. \A u \in Thread \ {t} : pc'[u] = pc[u]
    BY <2>1, Moved DEF Record, Count, Number, Push, Take, Persist, PersistFails, Place
  <2>. QED  BY <2>2, <2>3 DEF Solo
<1>3. CASE ReadFails \/ UNCHANGED metricsVars
  <2>1. pc' = pc /\ overlapped' = overlapped
    BY <1>3 DEF ReadFails, metricsVars
  <2>. QED  BY <2>1 DEF Solo
<1>4. CASE Restart \/ RestartUnread
  <2>1. \A t \in Thread : pc'[t] = "idle"
    BY <1>4 DEF Restart, RestartUnread
  <2>. QED  BY <2>1 DEF Solo
<1>. QED  BY <1>1, <1>2, <1>3, <1>4 DEF MetricsNext

\* Nothing failed, overlapped or fell off the history.
Calm == complete /\ ~overlapped /\ total <= HistoryLimit

\* Replayed holds after a step of t that leaves t inside record(), if its stage does.
LEMMA StaysInside ==
    ASSUME MetricsTypeOK, NEW t \in Thread, NEW l \in Inside, Goto(t, l),
           \A u \in Thread \ {t} : pc[u] = "idle", Stage(t)'
    PROVE  Replayed'
<1>1. l \in Place /\ l # "idle"
  BY DEF Inside
<1>2. pc'[t] # "idle" /\ \A u \in Thread \ {t} : pc'[u] = "idle"
  BY <1>1, Moved
<1>3. \A u \in Thread \ {t} : Stage(u)'
  BY <1>2 DEF Stage
<1>. QED  BY <1>2, <1>3 DEF Replayed

\* It holds when all are idle, if a restart would change nothing.
LEMMA AllIdle ==
    ASSUME \A u \in Thread : pc'[u] = "idle", Counts(history)', Keeps(history)'
    PROVE  Replayed'
<1>1. \A u \in Thread : Stage(u)'
  BY DEF Stage
<1>. QED  BY <1>1 DEF Replayed

\* While all is calm, a thread inside record() is alone, and where its stage says.
LEMMA Alone ==
    ASSUME Solo, Replayed, Calm, NEW t \in Thread, pc[t] # "idle"
    PROVE  Stage(t) /\ \A u \in Thread \ {t} : pc[u] = "idle"
BY DEF Solo, Replayed, Calm

\* What a thread in flight has counted, and what it will have stored.
LEMMA FlightProps ==
    ASSUME MetricsTypeOK, NEW t \in Thread
    PROVE  /\ ThisRun(t) \in Run /\ ThisRun(t).valid = outcome[t]
           /\ InFlight(t) \in Seq(Run) /\ Len(InFlight(t)) = Len(history) + 1
           /\ RestoredTotal(InFlight(t)) = Len(history) + 1
           /\ RestoredValid(InFlight(t)) = RestoredValid(history) + (IF outcome[t] THEN 1 ELSE 0)
           /\ RestoredRuns(InFlight(t)) =
                Append(RestoredRuns(history), [number |-> Len(history) + 1, valid |-> outcome[t]])
<1>1. ThisRun(t) \in Run /\ ThisRun(t).valid = outcome[t] /\ history \in Seq(Run)
  BY DEF ThisRun, Run, MetricsTypeOK
<1>2. /\ RestoredTotal(InFlight(t)) = RestoredTotal(history) + 1
      /\ RestoredValid(InFlight(t))
           = RestoredValid(history) + (IF ThisRun(t).valid THEN 1 ELSE 0)
      /\ RestoredRuns(InFlight(t)) =
           Append(RestoredRuns(history), [number |-> Len(history) + 1, valid |-> ThisRun(t).valid])
  BY <1>1, RestoredAppend DEF InFlight
<1>3. InFlight(t) \in Seq(Run) /\ Len(InFlight(t)) = Len(history) + 1
  BY <1>1, StoredTypes DEF InFlight
<1>4. RestoredTotal(InFlight(t)) = Len(history) + 1
  BY <1>3 DEF RestoredTotal
<1>. QED  BY <1>1, <1>2, <1>3, <1>4

\* A run that starts alone finds what a restart would restore.
LEMMA StartReplayed ==
    ASSUME MetricsTypeOK, Replayed, NEW t \in Thread, Start(t)
    PROVE  Replayed'
<1>1. SUFFICES ASSUME Calm' PROVE Replayed'
  BY DEF Replayed, Calm
<1>2. /\ Calm /\ \A u \in Thread : pc[u] = "idle"
      /\ UNCHANGED <<total, valid, recent, history>> /\ Goto(t, "count") /\ "count" \in Inside
  BY <1>1 DEF Start, Calm, counters, Inside, Place
<1>3. Counts(history) /\ Keeps(history)
  BY <1>2 DEF Replayed, Calm
<1>4. Counts(history)' /\ Keeps(history)'
  BY <1>2, <1>3 DEF Counts, Keeps
<1>5. pc'[t] = "count"
  BY <1>2, Moved DEF Inside
<1>6. Stage(t)'
  BY <1>4, <1>5 DEF Stage
<1>. QED  BY <1>2, <1>6, StaysInside

\* The counters run ahead of the history by the run that is counted.
LEMMA CountReplayed ==
    ASSUME Sized, Sized', Solo, Replayed, NEW t \in Thread, Count(t)
    PROVE  Replayed'
<1>1. SUFFICES ASSUME Calm' PROVE Replayed'
  BY DEF Replayed, Calm
<1>2. /\ MetricsTypeOK /\ MetricsTypeOK' /\ pc[t] = "count" /\ Goto(t, "number")
      /\ "number" \in Inside /\ total' = total + 1
      /\ UNCHANGED <<recent, history, outcome, complete, overlapped>>
  BY DEF Sized, Count, Counted, recordVars, Inside, Place
<1>3. Calm
  BY <1>1, <1>2, Types DEF Calm
<1>4. Stage(t) /\ \A u \in Thread \ {t} : pc[u] = "idle"
  BY <1>2, <1>3, Alone
<1>5. Counts(history) /\ Keeps(history)
  BY <1>2, <1>4 DEF Stage
<1>6. /\ RestoredTotal(InFlight(t)') = Len(history) + 1
      /\ RestoredValid(InFlight(t)') = RestoredValid(history) + (IF outcome[t] THEN 1 ELSE 0)
  <2>1. ThisRun(t)' \in Run /\ ThisRun(t)'.valid = outcome[t] /\ history \in Seq(Run)
    BY <1>2 DEF ThisRun, Run, MetricsTypeOK
  <2>2. InFlight(t)' = Append(history, ThisRun(t)')
    BY <1>2 DEF InFlight
  <2>3. /\ RestoredTotal(InFlight(t)') = RestoredTotal(history) + 1
        /\ RestoredValid(InFlight(t)')
             = RestoredValid(history) + (IF ThisRun(t)'.valid THEN 1 ELSE 0)
    BY <2>1, <2>2, RestoredAppend
  <2>. QED  BY <2>1, <2>3 DEF RestoredTotal
<1>7. valid' = valid + (IF outcome[t] THEN 1 ELSE 0)
  BY <1>2, Types DEF Count
<1>8. Counts(InFlight(t))'
  BY <1>2, <1>5, <1>6, <1>7 DEF Counts, RestoredTotal
<1>9. Keeps(history)'
  BY <1>2, <1>5 DEF Keeps
<1>10. pc'[t] = "number"
  BY <1>2, Moved DEF Inside
<1>11. Stage(t)'
  BY <1>8, <1>9, <1>10 DEF Stage
<1>. QED  BY <1>2, <1>4, <1>11, StaysInside

\* The run number is read where no other thread counts.
LEMMA NumberReplayed ==
    ASSUME MetricsTypeOK, Solo, Replayed, NEW t \in Thread, Number(t)
    PROVE  Replayed'
<1>1. SUFFICES ASSUME Calm' PROVE Replayed'
  BY DEF Replayed, Calm
<1>2. /\ pc[t] = "number" /\ Goto(t, "push") /\ "push" \in Inside
      /\ UNCHANGED <<total, valid, recent, history, outcome, complete, overlapped>>
  BY DEF Number, counters, Inside, Place
<1>3. number'[t] = total
  BY DEF Number, MetricsTypeOK
<1>4. Stage(t) /\ \A u \in Thread \ {t} : pc[u] = "idle"
  BY <1>1, <1>2, Alone DEF Calm
<1>5. Counts(InFlight(t)) /\ Keeps(history)
  BY <1>2, <1>4 DEF Stage
<1>6. Counts(InFlight(t))' /\ Keeps(history)'
  BY <1>2, <1>5 DEF Counts, Keeps, InFlight, ThisRun
<1>7. pc'[t] = "push"
  BY <1>2, Moved DEF Inside
<1>8. Stage(t)'
  BY <1>2, <1>3, <1>6, <1>7 DEF Stage
<1>. QED  BY <1>2, <1>4, <1>8, StaysInside

\* The run goes behind the recent runs a restart would restore.
LEMMA PushReplayed ==
    ASSUME MetricsTypeOK, Solo, Replayed, NEW t \in Thread, Push(t)
    PROVE  Replayed'
<1>1. SUFFICES ASSUME Calm' PROVE Replayed'
  BY DEF Replayed, Calm
<1>2. /\ pc[t] = "push" /\ Goto(t, "take") /\ "take" \in Inside
      /\ UNCHANGED <<total, valid, history, outcome, complete, overlapped>>
      /\ recent' = Append(recent, [number |-> number[t], valid |-> outcome[t]])
  BY DEF Push, counters, recordVars, Inside, Place
<1>3. Stage(t) /\ \A u \in Thread \ {t} : pc[u] = "idle"
  BY <1>1, <1>2, Alone DEF Calm
<1>4. Counts(InFlight(t)) /\ Keeps(history) /\ number[t] = total
  BY <1>2, <1>3 DEF Stage
<1>5. Counts(InFlight(t))'
  BY <1>2, <1>4 DEF Counts, InFlight, ThisRun
<1>6. (recent = Append(Newest(RestoredRuns(history), MaxRecent), ThisRun(t)))'
  BY <1>2, <1>4 DEF Keeps, ThisRun
<1>7. pc'[t] = "take"
  BY <1>2, Moved DEF Inside
<1>8. Stage(t)'
  BY <1>5, <1>6, <1>7 DEF Stage
<1>. QED  BY <1>2, <1>3, <1>8, StaysInside

\* Cutting leaves the recent runs a restart would restore with the run in flight, and the
\* last of them is that run.
LEMMA TakeReplayed ==
    ASSUME MetricsTypeOK, Solo, Replayed, NEW t \in Thread, Take(t)
    PROVE  Replayed'
<1>1. SUFFICES ASSUME Calm' PROVE Replayed'
  BY DEF Replayed, Calm
<1>2. /\ pc[t] = "take" /\ Goto(t, "persist") /\ "persist" \in Inside
      /\ UNCHANGED <<total, valid, history, outcome, complete, overlapped>>
      /\ recent' = Newest(recent, MaxRecent)
  BY DEF Take, Cut, counters, Inside, Place
<1>3. snapshot'[t] = recent[Len(recent)]
  BY DEF Take, Latest, MetricsTypeOK
<1>4. Stage(t) /\ \A u \in Thread \ {t} : pc[u] = "idle"
  BY <1>1, <1>2, Alone DEF Calm
<1>5. /\ Counts(InFlight(t))
      /\ recent = Append(Newest(RestoredRuns(history), MaxRecent), ThisRun(t))
  BY <1>2, <1>4 DEF Stage
<1>6. ThisRun(t) = [number |-> Len(history) + 1, valid |-> outcome[t]]
  BY <1>5, FlightProps DEF Counts, ThisRun
<1>7. /\ RestoredRuns(history) \in Seq(Entry) /\ ThisRun(t) \in Entry /\ MaxRecent \in Nat
  <2>1. history \in Seq(Run) /\ Len(history) \in Nat /\ MaxRecent \in Nat /\ total \in Nat
    BY Types
  <2>2. RestoredRuns(history) \in Seq(Entry)
    BY <2>1, RestoredTypes
  <2>3. outcome[t] \in BOOLEAN
    BY DEF MetricsTypeOK
  <2>4. ThisRun(t) \in Entry
    BY <2>1, <2>3 DEF ThisRun, Entry
  <2>. QED  BY <2>1, <2>2, <2>4
<1>8. recent' = Newest(RestoredRuns(InFlight(t)), MaxRecent)
  <2>1. RestoredRuns(InFlight(t)) = Append(RestoredRuns(history), ThisRun(t))
    BY <1>6, FlightProps
  <2>. QED  BY <1>2, <1>5, <1>7, <2>1, CutAppend
<1>9. snapshot'[t] = ThisRun(t)
  <2>1. Newest(RestoredRuns(history), MaxRecent) \in Seq(Entry)
    BY <1>7, NewestType
  <2>. QED  BY <1>3, <1>5, <1>7, <2>1, AppendProperties, LenProperties
<1>10. InFlight(t)' = InFlight(t) /\ ThisRun(t)' = ThisRun(t)
  BY <1>2 DEF InFlight, ThisRun
<1>11. Counts(InFlight(t))' /\ Keeps(InFlight(t))' /\ (snapshot[t] = ThisRun(t))'
  BY <1>2, <1>5, <1>8, <1>9, <1>10 DEF Counts, Keeps
<1>12. pc'[t] = "persist"
  BY <1>2, Moved DEF Inside
<1>13. Stage(t)'
  BY <1>11, <1>12 DEF Stage
<1>. QED  BY <1>2, <1>4, <1>13, StaysInside

\* The history gets the run in flight, and memory agrees with it again.
LEMMA PersistReplayed ==
    ASSUME MetricsTypeOK, Solo, Replayed, NEW t \in Thread, Persist(t) \/ PersistFails(t)
    PROVE  Replayed'
<1>1. SUFFICES ASSUME Calm' PROVE Replayed'
  BY DEF Replayed, Calm
<1>2. /\ pc[t] = "persist" /\ Goto(t, "idle") /\ "idle" \in Place
      /\ UNCHANGED <<total, valid, recent, outcome, overlapped>>
  BY DEF Persist, PersistFails, counters, recordVars, Place
<1>3. /\ complete
      /\ \/ history' = Newest(Append(history, snapshot[t]), HistoryLimit)
         \/ history' = Append(history, snapshot[t])
  <2>1. CASE Persist(t)
    <3>1. complete /\ tail = "ended"
      BY <1>1, <2>1 DEF Persist, Calm
    <3>2. AddLine(File, snapshot[t]).recs = Append(history, snapshot[t])
      BY <3>1, FileType DEF AddLine
    <3>. QED  BY <2>1, <3>1, <3>2 DEF Persist, Appended, CleanFile
  <2>2. CASE PersistFails(t)
    BY <1>1, <2>2 DEF PersistFails, Calm
  <2>. QED  BY <2>1, <2>2
<1>4. Stage(t) /\ \A u \in Thread \ {t} : pc[u] = "idle"
  BY <1>1, <1>2, <1>3, Alone DEF Calm
<1>5. Counts(InFlight(t)) /\ Keeps(InFlight(t)) /\ snapshot[t] = ThisRun(t)
  BY <1>2, <1>4 DEF Stage
<1>6. history' = InFlight(t)
  <2>1. InFlight(t) = Append(history, snapshot[t])
    BY <1>5 DEF InFlight
  <2>2. Len(InFlight(t)) <= HistoryLimit
    BY <1>1, <1>2, <1>5 DEF Calm, Counts, RestoredTotal
  <2>3. Newest(InFlight(t), HistoryLimit) = InFlight(t)
    BY <2>2 DEF Newest
  <2>. QED  BY <1>3, <2>1, <2>3
<1>7. Counts(history)' /\ Keeps(history)'
  BY <1>2, <1>5, <1>6 DEF Counts, Keeps
<1>8. \A u \in Thread : pc'[u] = "idle"
  BY <1>2, <1>4, Moved
<1>. QED  BY <1>7, <1>8, AllIdle

\* No history, nothing to restore.
LEMMA NothingRestored ==
    RestoredTotal(<<>>) = 0 /\ RestoredValid(<<>>) = 0 /\ RestoredRuns(<<>>) = <<>>
<1>1. <<>> \in Seq(Run) /\ Len(<<>>) = 0
  BY EmptySeq
<1>2. /\ RestoredTotal(<<>>) = 0 /\ RestoredValid(<<>>) \in Nat /\ RestoredValid(<<>>) <= 0
      /\ RestoredRuns(<<>>) \in Seq(Entry) /\ Len(RestoredRuns(<<>>)) = 0
  BY <1>1, RestoredTypes
<1>. QED  BY <1>2, EmptySeq

\* A restart makes memory what the history restores, and an unread history only agrees
\* with it when it is empty.
LEMMA RestartReplayed ==
    ASSUME Restart \/ RestartUnread
    PROVE  Replayed'
<1>1. SUFFICES ASSUME Calm' PROVE Replayed'
  BY DEF Replayed, Calm
<1>2. \A u \in Thread : pc'[u] = "idle"
  BY DEF Restart, RestartUnread
<1>3. CASE Restart
  BY <1>2, <1>3, AllIdle DEF Restart, Counts, Keeps
<1>4. CASE RestartUnread
  <2>1. /\ history = <<>> /\ history' = <<>>
        /\ total' = 0 /\ valid' = 0 /\ recent' = <<>>
    BY <1>1, <1>4 DEF RestartUnread, Calm
  <2>2. RestoredTotal(<<>>) = 0 /\ RestoredValid(<<>>) = 0 /\ RestoredRuns(<<>>) = <<>>
    BY NothingRestored
  <2>3. Newest(<<>>, MaxRecent) = <<>>
    BY MetricsAssumption DEF MetricsAssumption, Newest
  <2>. QED  BY <1>2, <2>1, <2>2, <2>3, AllIdle DEF Counts, Keeps
<1>. QED  BY <1>3, <1>4

\* One step, whichever it is.
LEMMA ReplayedKept ==
    ASSUME Sized, Sized', Solo, Replayed, [MetricsNext]_metricsVars
    PROVE  Replayed'
<1>1. MetricsTypeOK
  BY DEF Sized
<1>2. CASE \E t \in Thread : Start(t) \/ Record(t) \/ PersistFails(t)
  BY <1>1, <1>2, StartReplayed, CountReplayed, NumberReplayed, PushReplayed, TakeReplayed,
     PersistReplayed DEF Record
<1>3. CASE ReadFails \/ UNCHANGED metricsVars
  <2>1. UNCHANGED <<total, valid, recent, history, pc, outcome, number, snapshot, complete,
                    overlapped>>
    BY <1>3 DEF ReadFails, metricsVars, counters, recordVars
  <2>2. \A t \in Thread : Stage(t) => Stage(t)'
    BY <2>1 DEF Stage, Counts, Keeps, InFlight, ThisRun
  <2>3. Counts(history) /\ Keeps(history) => Counts(history)' /\ Keeps(history)'
    BY <2>1 DEF Counts, Keeps
  <2>. QED  BY <2>1, <2>2, <2>3 DEF Replayed
<1>4. CASE Restart \/ RestartUnread
  BY <1>4, RestartReplayed
<1>. QED  BY <1>2, <1>3, <1>4 DEF MetricsNext

\* The invariant is inductive.
THEOREM MetricsInvariance == MetricsSpec => []MetricsInv
<1>1. MetricsInit => MetricsInv
  <2>1. SUFFICES ASSUME MetricsInit PROVE MetricsInv
    OBVIOUS
  <2>2. /\ \A t \in Thread : pc[t] = "idle" /\ pc[t] \notin Inside
        /\ history = <<>> /\ recent = <<>> /\ total = 0 /\ valid = 0 /\ invalid = 0
        /\ started = 0
        /\ base = 0 /\ failures = 0 /\ tail = "ended"
    BY <2>1 DEF MetricsInit, Inside
  <2>3. /\ Cardinality(At(pc, {"count"})) = 0 /\ Cardinality(At(pc, Inside)) = 0
        /\ Cardinality(At(pc, {"take"})) = 0
    BY <2>2, AtNone
  <2>4. <<>> \in Seq(Run) /\ Len(<<>>) = 0 /\ MaxRecent \in Nat
    BY EmptySeq, MetricsAssumption DEF MetricsAssumption
  <2>5. MetricsTypeOK
    <3>1. 0 \in 0..MaxRuns /\ NoRun \in Run
      BY MetricsAssumption DEF MetricsAssumption, NoRun, Run
    <3>. QED  BY <2>1, <2>4, <3>1 DEF MetricsInit, MetricsTypeOK
  <2>6. Numbers
    BY <2>2, <2>3, <2>4 DEF Numbers
  <2>7. RecentIsBounded
    BY <2>2, <2>3, <2>4, RecentAt
  <2>8. Solo
    BY <2>2 DEF Solo
  <2>9. Replayed
    <3>1. Newest(<<>>, MaxRecent) = <<>>
      BY <2>4 DEF Newest
    <3>2. Counts(history) /\ Keeps(history)
      BY <2>2, <3>1, NothingRestored DEF Counts, Keeps
    <3>3. \A t \in Thread : Stage(t)
      BY <2>2 DEF Stage
    <3>. QED  BY <3>2, <3>3 DEF Replayed
  <2>10. Accounts
    <3>1. \A t \in Thread : pc[t] \notin Storing
      BY <2>1 DEF MetricsInit, Storing
    <3>2. Cardinality(At(pc, Storing)) = 0
      BY <3>1, AtNone
    <3>3. Due = 0
      BY <2>2, <3>2 DEF Due
    <3>4. Weight(File) = 0
      BY <2>2, <2>4 DEF Weight, File
    <3>5. Kept(Due) = 0
      BY <3>3, MetricsAssumption DEF Kept, MetricsAssumption
    <3>. QED  BY <2>2, <2>4, <3>3, <3>4, <3>5 DEF Accounts
  <2>. QED  BY <2>5, <2>6, <2>7, <2>8, <2>9, <2>10 DEF MetricsInv
<1>2. MetricsInv /\ [MetricsNext]_metricsVars => MetricsInv'
  <2>1. SUFFICES ASSUME MetricsInv, [MetricsNext]_metricsVars PROVE MetricsInv'
    OBVIOUS
  <2>2. Sized /\ Solo /\ Replayed /\ MetricsTypeOK /\ Accounts
    BY <2>1 DEF MetricsInv, Sized
  <2>3. Sized'
    BY <2>1, <2>2, StepSized
  <2>4. Solo'
    BY <2>1, <2>2, SoloKept
  <2>5. Replayed'
    BY <2>1, <2>2, <2>3, ReplayedKept
  <2>6. Accounts'
    BY <2>1, <2>2, AccountsKept
  <2>. QED  BY <2>3, <2>4, <2>5, <2>6 DEF MetricsInv, Sized
<1>. QED  BY <1>1, <1>2, PTL DEF MetricsSpec

\* The type invariant of the metrics: no counter and no run number exceeds the number
\* of runs, however the threads interleave.
THEOREM MetricsTypeCorrect == MetricsSpec => []MetricsTypeOK
<1>1. MetricsInv => MetricsTypeOK
  BY DEF MetricsInv
<1>. QED  BY <1>1, MetricsInvariance, PTL

\* recent_runs never outgrows max_recent_runs by more than the threads between the
\* append and the cut, for any number of threads.
THEOREM RecentStaysBounded == MetricsSpec => []RecentIsBounded
<1>1. MetricsInv => RecentIsBounded
  BY DEF MetricsInv
<1>. QED  BY <1>1, MetricsInvariance, PTL

\* A restart between two runs restores the counters and the recent runs that were in
\* memory, for any history and any limits, when the runs came one after the other.
THEOREM RestartShowsNothing == MetricsSpec => []RestartIsInvisible
<1>1. MetricsInv => RestartIsInvisible
  BY DEF MetricsInv, Replayed, Counts, Keeps, RestartIsInvisible
<1>. QED  BY <1>1, MetricsInvariance, PTL

\* No run is stored twice or lost in silence, for any number of threads inside record(),
\* any history limit, and any appends that fail or tear their line.
THEOREM RunsStayAccounted == MetricsSpec => []RunsAreAccounted
<1>1. MetricsInv => RunsAreAccounted
  <2>1. SUFFICES ASSUME MetricsInv PROVE RunsAreAccounted
    OBVIOUS
  <2>2. MetricsTypeOK /\ Accounts
    BY <2>1 DEF MetricsInv
  <2>3. {t \in Thread : pc[t] \notin {"idle", "count"}} = At(pc, Storing)
    <3>1. \A t \in Thread : pc[t] \in Place
      BY <2>2 DEF MetricsTypeOK, Place
    <3>2. \A p \in Place : p \notin {"idle", "count"} <=> p \in Storing
      BY DEF Place, Storing
    <3>. QED  BY <3>1, <3>2 DEF At
  <2>4. /\ Len(history) <= Due
        /\ Weight(File) + 2 * failures >= IF Due <= HistoryLimit THEN Due ELSE HistoryLimit
    BY <2>2 DEF Accounts, Kept
  <2>5. Weight(File) \in Int /\ failures \in Nat /\ Len(history) \in Nat /\ Due \in Int
        /\ HistoryLimit \in Nat
    BY <2>2, AccountTypes
  <2>6. Weight(File) <= Len(history)
    BY <2>2, <2>5 DEF Weight, File
  <2>7. Len(history) + 2 * failures >= IF Due <= HistoryLimit THEN Due ELSE HistoryLimit
    BY <2>4, <2>5, <2>6
  <2>. QED  BY <2>3, <2>4, <2>7 DEF RunsAreAccounted, Due
<1>. QED  BY <1>1, MetricsInvariance, PTL
=============================================================================
