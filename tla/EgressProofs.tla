---------------------------- MODULE EgressProofs ----------------------------
(***************************************************************************)
(* Where a request may go: what PolicyRouting guarantees for every policy, *)
(* filter set, environment and inspection result, and ProviderTransport    *)
(* for every number of retries, every timeout and every set of             *)
(* destinations and answers of the resolver.                               *)
(***************************************************************************)
EXTENDS PolicyRouting, ProviderTransport, TLAPS

----------------------------------------------------------------------------
(* The policy.                                                             *)


(* Every decision of the rules names one of the four actions and a         *)
(* destination, or is the implicit deny.                                   *)
LEMMA FirstMatchType ==
    ASSUME NEW c \in Settings, NEW app, NEW spans
    PROVE  FirstMatch(c, app, spans) \in Decision
<1> DEFINE hits == {r \in Composed(c) : Matches(r, app, spans)}
           first == {r \in hits : \A s \in hits \ {r} : Before(r, s)}
<1>1. first \subseteq Rule
  BY PolicyAssumption DEF Composed, Settings
<1>2. CASE first = {}
  BY <1>2 DEF FirstMatch, Decision
<1>3. CASE first # {}
  <2> DEFINE r == CHOOSE r \in first : TRUE
  <2>1. r \in first
    BY <1>3
  <2>2. r \in Rule
    BY <1>1, <2>1
  <2>3. FirstMatch(c, app, spans) = Decide(c, r)
    BY <1>3 DEF FirstMatch
  <2>4. r.action \in Actions /\ DestinationOf(c, r) \in Destinations
    BY <2>2 DEF Rule, DestinationOf, Settings
  <2> HIDE DEF r
  <2> QED BY <2>3, <2>4 DEF Decide, Decision
<1> QED BY <1>2, <1>3

(* A rule decides only if it is among the composed rules.                  *)
LEMMA FirstMatchSelectable ==
    ASSUME NEW c \in Settings, NEW app, NEW spans,
           FirstMatch(c, app, spans).action # "block"
    PROVE  FirstMatch(c, app, spans).destination \in Selectable(c)
<1> DEFINE hits == {r \in Composed(c) : Matches(r, app, spans)}
           first == {r \in hits : \A s \in hits \ {r} : Before(r, s)}
           r == CHOOSE r \in first : TRUE
<1>1. first # {}
  BY DEF FirstMatch, ImplicitDeny
<1>2. r \in first
  BY <1>1
<1>3. FirstMatch(c, app, spans) = Decide(c, r)
  BY <1>1 DEF FirstMatch
<1>4. r \in Composed(c)
  BY <1>2
<1> HIDE DEF r
<1> QED BY <1>3, <1>4 DEF Decide, Selectable

(* The floor keeps a decision or replaces it by a local one.               *)
LEMMA FloorType ==
    ASSUME NEW d \in Decision, NEW mode, NEW spans
    PROVE  apply_local_routing(mode, d, spans) \in Decision
BY PolicyAssumption DEF apply_local_routing, Decision, Actions, Clients

(* Dispatch ends in one of four ways.                                      *)
LEMMA DispatchType ==
    ASSUME NEW c \in Settings, NEW ch \in Channels, NEW d \in Decision, NEW spans
    PROVE  /\ Dispatch(c, ch, d, spans) \in
                [what : {"blocked", "sent", "unconfigured", "violation"},
                 client : Clients \cup {"none"}]
BY DEF Dispatch, Providers, Clients

(* Startup and every request keep the types and the decision's provenance. *)
LEMMA RoutingInvariant == RoutingSpec => []RoutingInv
<1>1. RoutingInit => RoutingInv
  BY DEF RoutingInit, RoutingInv, RoutingTypeOK, DecidedAsConfigured, NoRequest, Untouched,
         Decision, ImplicitDeny, Channels, Clients
<1>2. RoutingInv /\ [RoutingNext]_routingVars => RoutingInv'
  <2> SUFFICES ASSUME RoutingInv, [RoutingNext]_routingVars PROVE RoutingInv'
    OBVIOUS
  <2> USE DEF RoutingInv
  <2>1. CASE Start
    BY <2>1 DEF Start, RoutingTypeOK, DecidedAsConfigured, ImplicitDeny
  <2>2. CASE Serve
    <3>1. PICK ch \in config.agents \cup {"chat"}, app \in Applications,
               spans \in InspectionResults :
            /\ request' = [channel |-> ch, application |-> app, spans |-> spans]
            /\ base' = FirstMatch(config, app, spans)
            /\ decision' = apply_local_routing(config.local_routing, base', spans)
            /\ outcome' = Dispatch(config, ch, decision', spans)
      BY <2>2 DEF Serve
    <3>2. /\ stage' = stage /\ config' = config /\ stage = "serving"
          /\ config \in Settings /\ ch \in Channels
      BY <2>2, <3>1 DEF Serve, RoutingTypeOK, Settings, Channels
    <3>3. base' \in Decision /\ decision' \in Decision
      BY <3>1, <3>2, FirstMatchType, FloorType
    <3>4. outcome' \in [what : {"blocked", "sent", "unconfigured", "violation"},
                        client : Clients \cup {"none"}]
      BY <3>1, <3>2, <3>3, DispatchType
    <3>5. request'.channel = ch /\ request'.application = app /\ request'.spans = spans
      BY <3>1
    <3>6. RoutingTypeOK'
      BY <3>1, <3>2, <3>3, <3>4 DEF RoutingTypeOK
    <3>7. DecidedAsConfigured'
      BY <3>1, <3>2, <3>4, <3>5 DEF DecidedAsConfigured
    <3> QED BY <3>6, <3>7
  <2>3. CASE UNCHANGED routingVars
    BY <2>3 DEF routingVars, RoutingTypeOK, DecidedAsConfigured
  <2> QED BY <2>1, <2>2, <2>3 DEF RoutingNext
<1> QED BY <1>1, <1>2, PTL DEF RoutingSpec

(* The routing state stays well typed.                                     *)
THEOREM RoutingTypes == RoutingSpec => []RoutingTypeOK
<1>1. RoutingInv => RoutingTypeOK
  BY DEF RoutingInv
<1> QED BY <1>1, RoutingInvariant, PTL

(* After the floor, a request that must stay local is bound for "local".   *)
LEMMA FloorBinds ==
    ASSUME NEW mode, NEW d, NEW spans, RequiresLocal(mode, spans),
           apply_local_routing(mode, d, spans).action # "block"
    PROVE  apply_local_routing(mode, d, spans).destination = "local"
BY DEF apply_local_routing

(* SI-14, for every policy and filter set: under the mode, only the        *)
(* operator's own model receives what the mode covers.                     *)
THEOREM FloorHolds == RoutingSpec => []LocalFloor
<1>1. RoutingInv => LocalFloor
  <2> SUFFICES ASSUME RoutingInv, outcome.what = "sent",
                      RequiresLocal(config.local_routing, request.spans)
               PROVE  outcome.client = "local"
    BY DEF LocalFloor
  <2>1. /\ outcome = Dispatch(config, request.channel, decision, request.spans)
        /\ decision = apply_local_routing(config.local_routing, base, request.spans)
        /\ Accepts(config)
    BY DEF RoutingInv, DecidedAsConfigured
  <2>2. decision.action # "block"
    BY <2>1 DEF Dispatch
  <2>3. decision.destination = "local"
    BY <2>1, <2>2, FloorBinds
  <2>4. config.local_url
    BY <2>1 DEF Accepts, ModeUsable, RequiresLocal
  <2>5. outcome.client = Providers(config, request.channel)["local"]
    BY <2>1, <2>2, <2>3 DEF Dispatch
  <2> QED BY <2>4, <2>5 DEF Providers, Clients
<1> QED BY <1>1, RoutingInvariant, PTL

(* The tripwires of the pipeline and of AgentRuntime stay silent.          *)
THEOREM TripwireNeverFires == RoutingSpec => []TripwireSilent
<1>1. RoutingInv => TripwireSilent
  <2> SUFFICES ASSUME RoutingInv, outcome.what = "violation" PROVE FALSE
    BY DEF TripwireSilent
  <2>1. /\ outcome = Dispatch(config, request.channel, decision, request.spans)
        /\ decision = apply_local_routing(config.local_routing, base, request.spans)
    BY DEF RoutingInv, DecidedAsConfigured
  <2>2. /\ decision.action # "block"
        /\ Tripwire(config, request.channel, decision, request.spans)
    BY <2>1 DEF Dispatch
  <2>3. RequiresLocal(config.local_routing, request.spans)
    BY <2>2 DEF Tripwire, RequiresLocal
  <2>4. decision.destination = "local"
    BY <2>1, <2>2, <2>3, FloorBinds
  <2> QED BY <2>2, <2>4 DEF Tripwire
<1> QED BY <1>1, RoutingInvariant, PTL

(* A serving process has a client for every decision it can take.          *)
THEOREM DestinationsConfigured == RoutingSpec => []NoLateRefusal
<1>1. RoutingInv => NoLateRefusal
  <2> SUFFICES ASSUME RoutingInv, outcome.what = "unconfigured" PROVE FALSE
    BY DEF NoLateRefusal
  <2> DEFINE map == Providers(config, request.channel)
  <2>1. /\ outcome = Dispatch(config, request.channel, decision, request.spans)
        /\ decision = apply_local_routing(config.local_routing, base, request.spans)
        /\ base = FirstMatch(config, request.application, request.spans)
        /\ Accepts(config) /\ config \in Settings
        /\ request.channel \in config.agents \cup {"chat"}
    BY DEF RoutingInv, DecidedAsConfigured, RoutingTypeOK
  <2>2. decision.action # "block" /\ decision.destination \notin DOMAIN map
    BY <2>1 DEF Dispatch
  <2>3. "local" \in DOMAIN map
    BY DEF Providers, Clients
  <2>4. required_destinations(config) \subseteq DOMAIN map
    BY <2>1 DEF Accepts, ChannelUsable
  <2>5. ~RequiresLocal(config.local_routing, request.spans)
    BY <2>1, <2>2, <2>3, FloorBinds
  <2>6. decision = base /\ config.local_routing # "all"
    BY <2>1, <2>5 DEF apply_local_routing, RequiresLocal
  <2>7. decision.destination \in Selectable(config)
    BY <2>1, <2>2, <2>6, FirstMatchSelectable
  <2>8. Selectable(config) \subseteq required_destinations(config)
    BY <2>6 DEF required_destinations
  <2> QED BY <2>2, <2>4, <2>7, <2>8
<1> QED BY <1>1, RoutingInvariant, PTL

(* Deny overrides at equal priority, for every set of rules.               *)
THEOREM BlockStopsRequest == RoutingSpec => []BlockWins
<1>1. RoutingInv => BlockWins
  <2> DEFINE hits == {r \in Composed(config) :
                        Matches(r, request.application, request.spans)}
             first == {r \in hits : \A s \in hits \ {r} : Before(r, s)}
  <2> SUFFICES ASSUME RoutingInv, outcome.what # "none",
                      NEW b \in hits, b.action = "block",
                      \A r \in hits : r.priority <= b.priority
               PROVE  outcome.what = "blocked"
    BY DEF BlockWins
  <2>1. /\ outcome = Dispatch(config, request.channel, decision, request.spans)
        /\ decision = apply_local_routing(config.local_routing, base, request.spans)
        /\ base = FirstMatch(config, request.application, request.spans)
        /\ config \in Settings
    BY DEF RoutingInv, DecidedAsConfigured, RoutingTypeOK
  <2>2. base.action = "block"
    <3>1. CASE first = {}
      BY <2>1, <3>1 DEF FirstMatch, ImplicitDeny
    <3>2. CASE first # {}
      <4> DEFINE r == CHOOSE r \in first : TRUE
      <4>1. r \in first
        BY <3>2
      <4>2. base = Decide(config, r)
        BY <2>1, <3>2 DEF FirstMatch
      <4>3. r \in hits /\ (r = b \/ Before(r, b))
        BY <4>1
      <4>4. r \in Rule /\ b \in Rule
        BY <2>1, <4>1, PolicyAssumption DEF Composed, Settings
      <4> HIDE DEF r, hits, first
      <4>5. r.priority <= b.priority /\ r.priority \in Int /\ b.priority \in Int
        BY <4>3, <4>4 DEF Rule
      <4>6. r.action = "block"
        BY <4>3, <4>5 DEF Before
      <4> QED BY <4>2, <4>6 DEF Decide
    <3> QED BY <3>1, <3>2
  <2> HIDE DEF hits, first
  <2>3. decision.action = "block"
    BY <2>1, <2>2 DEF apply_local_routing
  <2> QED BY <2>1, <2>3 DEF Dispatch
<1> QED BY <1>1, RoutingInvariant, PTL

(* The floor moves requests; it never releases a block or raw text.        *)
THEOREM FloorOnlyTightens == RoutingSpec => []ModeOnlyTightens
<1>1. RoutingInv => ModeOnlyTightens
  <2> SUFFICES ASSUME RoutingInv PROVE ModeOnlyTightens
    OBVIOUS
  <2>1. CASE outcome.what = "none"
    BY <2>1 DEF RoutingInv, DecidedAsConfigured, ModeOnlyTightens, ImplicitDeny
  <2>2. CASE outcome.what # "none"
    <3>1. decision = apply_local_routing(config.local_routing, base, request.spans)
      BY <2>2 DEF RoutingInv, DecidedAsConfigured
    <3> QED BY <3>1 DEF ModeOnlyTightens, apply_local_routing
  <2> QED BY <2>1, <2>2
<1> QED BY <1>1, RoutingInvariant, PTL

(* In production no destination but the mock's own name leads to the mock. *)
THEOREM MockNeedsItsName == RoutingSpec => []MockOnlyByName
<1>1. RoutingInv => MockOnlyByName
  <2> SUFFICES ASSUME RoutingInv, config.production, outcome.client = "mock"
               PROVE  decision.destination = "mock"
    BY DEF MockOnlyByName
  <2> DEFINE map == Providers(config, request.channel)
  <2>1. /\ outcome = Dispatch(config, request.channel, decision, request.spans)
        /\ decision = apply_local_routing(config.local_routing, base, request.spans)
        /\ base = FirstMatch(config, request.application, request.spans)
        /\ Accepts(config) /\ config \in Settings
        /\ request.channel \in config.agents \cup {"chat"}
    BY DEF RoutingInv, DecidedAsConfigured, RoutingTypeOK
  <2>2. decision.action # "block" /\ map[decision.destination] = "mock"
    BY <2>1 DEF Dispatch
  <2>3. \A d \in required_destinations(config) \ {"mock"} : map[d] # "mock"
    BY <2>1 DEF Accepts, ChannelUsable
  <2>4. decision.destination \in required_destinations(config)
    <3>1. CASE RequiresLocal(config.local_routing, request.spans)
      <4>1. decision.destination = "local"
        BY <2>1, <2>2, <3>1, FloorBinds
      <4> QED BY <3>1, <4>1 DEF RequiresLocal, required_destinations
    <3>2. CASE ~RequiresLocal(config.local_routing, request.spans)
      <4>1. decision = base /\ config.local_routing # "all"
        BY <2>1, <3>2 DEF apply_local_routing, RequiresLocal
      <4>2. decision.destination \in Selectable(config)
        BY <2>1, <2>2, <4>1, FirstMatchSelectable
      <4> QED BY <4>1, <4>2 DEF required_destinations
    <3> QED BY <3>1, <3>2
  <2> QED BY <2>2, <2>3, <2>4
<1> QED BY <1>1, RoutingInvariant, PTL

----------------------------------------------------------------------------
(* The call to a provider.                                                 *)


(* Each attempt has had the upstream do the work at most once, and an      *)
(* attempt that has not been sent has not; and has been declined at most   *)
(* once, at its end.                                                       *)
Counted ==
    /\ processed <= attempt + 1
    /\ at \in {"loop", "validating", "connecting", "writing"} => processed <= attempt
    /\ at = "waiting" => upstream \in {"received", "processed"}
    /\ at = "waiting" /\ upstream = "received" => processed <= attempt
    /\ at = "sleeping" => attempt < MaxRetries
    /\ declined <= attempt + 1
    /\ at \notin {"sleeping", "done"} => declined <= attempt

(* A native adapter stands before a new attempt only if what was done was  *)
(* also declined.                                                          *)
AskedOnce ==
    Native =>
        /\ processed <= declined + 1
        /\ at \in {"loop", "validating", "sleeping", "connecting", "writing"}
           => processed <= declined
        /\ at = "waiting" /\ upstream = "received" => processed <= declined

(* When each operation is over by itself, from the start of its attempt on. *)
Timing ==
    /\ began <= now
    /\ at \in InFlight \cup {"sleeping"} => now <= until
    /\ at \in InFlight \cup {"yielded"} => budget = Timeout - began
    /\ at \in InFlight => until = since + budget
    /\ at = "sleeping" /\ Native => until - since <= Timeout - began

Found == addresses # {} => Allowed(target, addresses)

TransportInv == TypeOK /\ Counted /\ AskedOnce /\ Timing /\ Found

(* What validate accepts is where the operator allows the target to be.    *)
LEMMA ValidatedIsAllowed ==
    ASSUME NEW t \in Targets, NEW answer, Permits(t, answer)
    PROVE  /\ _resolve(t.url, answer) # {}
           /\ Allowed(t, _resolve(t.url, answer))
<1> DEFINE found == _resolve(t.url, answer)
<1>1. found # {} /\ validate_addresses(PolicyOf(t), found)
  BY DEF Permits, validate
<1>2. ASSUME t.destination = "local", t.local_routing, NEW a \in found
      PROVE  a.carried \in {"loopback", "private", "shared", "unique local"}
  <2>1. PolicyOf(t).require_private_network
    BY <1>2 DEF PolicyOf, policy_for
  <2> QED BY <1>1, <1>2, <2>1 DEF validate_addresses, _is_private_network, PrivateNetworks
<1>3. ASSUME t.destination # "local", ~t.egress_allow_private, NEW a \in found
      PROVE  a.shown \in {"public", "shared"}
  <2>1. ~PolicyOf(t).allow_private
    BY <1>3 DEF PolicyOf, policy_for
  <2>2. Flags(a.shown) = {}
    BY <1>1, <1>3, <2>1 DEF validate_addresses, _is_globally_routable
  <2> QED BY <2>2 DEF Flags
<1> HIDE DEF found
<1>4. found # {} /\ Allowed(t, found)
  BY <1>1, <1>2, <1>3 DEF Allowed
<1> QED BY <1>4 DEF found

(* A status that is retried: what was done, if it was, is declined.        *)
Declines ==
    /\ at = "waiting" /\ declined' = declined + (IF upstream = "processed" THEN 1 ELSE 0)
    /\ UNCHANGED <<upstream, processed>>

(* A call that ends, whether or not the upstream did the work just before. *)
LEMMA EndKeepsInv ==
    ASSUME TransportInv, NEW r \in {"ok", "failed", "cancelled"}, End(r),
           \/ UNCHANGED work
           \/ Processes /\ at = "writing"
           \/ Declines
    PROVE  TransportInv'
<1> USE TransportAssumption DEF End, Released, Processes, Declines, call, work, timing
<1>1. TypeOK'
  BY DEF TransportInv, TypeOK, Counted, Waits, InFlight
<1>2. Counted'
  BY DEF TransportInv, TypeOK, Counted, Waits, InFlight
<1>3. AskedOnce'
  BY DEF TransportInv, TypeOK, AskedOnce, Native
<1>4. Timing'
  BY DEF TransportInv, TypeOK, Timing, InFlight, Native
<1>5. Found'
  BY DEF TransportInv, Found, Allowed
<1> QED BY <1>1, <1>2, <1>3, <1>4, <1>5 DEF TransportInv

(* The least of a pause and what remains is a time, and not more than that. *)
LEMMA PausesAreTimes ==
    ASSUME NEW remaining, Native => remaining \in Nat
    PROVE  /\ Pauses(remaining) \subseteq Nat
           /\ Native => \A p \in Pauses(remaining) : p <= remaining
BY TransportAssumption DEF Pauses, Least

(* A retry after an attempt that this adapter may repeat, or the end.      *)
LEMMA RetryKeepsInv ==
    ASSUME TransportInv, NEW pauses \in SUBSET Nat, RetryOrFail(pauses),
           Native => \A p \in pauses : p <= Timeout - began,
           \/ UNCHANGED work /\ (Native => processed <= declined)
           \/ Processes /\ at = "writing" /\ ~Native
           \/ Declines
    PROVE  TransportInv'
<1>1. CASE ~(attempt < MaxRetries)
  BY <1>1, EndKeepsInv DEF RetryOrFail
<1>2. CASE attempt < MaxRetries
  <2> USE TransportAssumption DEF RetryOrFail, Released, Processes, Declines, call, work, timing
  <2>1. TypeOK'
    BY <1>2 DEF TransportInv, TypeOK, Counted, Waits, InFlight
  <2>2. Counted'
    BY <1>2 DEF TransportInv, TypeOK, Counted, Waits, InFlight
  <2>3. AskedOnce'
    <3>1. CASE UNCHANGED work /\ (Native => processed <= declined)
      BY <1>2, <3>1 DEF TransportInv, TypeOK, AskedOnce, Native
    <3>2. CASE Processes /\ at = "writing" /\ ~Native
      BY <1>2, <3>2 DEF AskedOnce, Native
    <3>3. CASE Declines
      <4>1. CASE upstream = "processed"
        BY <1>2, <3>3, <4>1 DEF TransportInv, TypeOK, AskedOnce, Native
      <4>2. CASE upstream = "received"
        BY <1>2, <3>3, <4>2 DEF TransportInv, TypeOK, AskedOnce, Native
      <4> QED BY <3>3, <4>1, <4>2 DEF TransportInv, Counted
    <3> QED BY <3>1, <3>2, <3>3
  <2>4. Timing'
    <3>1. PICK p \in pauses : until' = now + p
      BY <1>2
    <3> QED BY <1>2, <3>1 DEF TransportInv, TypeOK, Timing, InFlight, Native
  <2>5. Found'
    BY <1>2 DEF TransportInv, Found, Allowed
  <2> QED BY <2>1, <2>2, <2>3, <2>4, <2>5 DEF TransportInv
<1> QED BY <1>1, <1>2

(* An operation of the attempt is left for the next one.                   *)
LEMMA EnterKeepsInv ==
    ASSUME TransportInv, NEW place \in {"writing", "waiting", "reading", "yielded"},
           Enter(place), at \notin {"done", "loop"}, at # "sleeping",
           response' \in {"none", "open", "closed"}, chunks' \in 0 .. MaxChunks,
           upstream' \in {"none", "received", "processed"},
           UNCHANGED <<processed, declined>>,
           place = "writing" => at = "connecting",
           at \in InFlight \cup {"yielded"},
           place = "waiting" => at = "writing" /\ upstream' = "received"
    PROVE  TransportInv'
<1> USE TransportAssumption DEF Enter, call, work, timing
<1>1. TypeOK'
  BY DEF TransportInv, TypeOK, Waits, InFlight
<1>2. Counted' /\ AskedOnce'
  BY DEF TransportInv, TypeOK, Counted, AskedOnce, Native
<1>3. Timing'
  BY DEF TransportInv, TypeOK, Timing, InFlight, Native
<1>4. Found'
  BY DEF TransportInv, Found, Allowed
<1> QED BY <1>1, <1>2, <1>3, <1>4 DEF TransportInv

(* An attempt is due, with addresses where the target may be.              *)
LEMMA ConnectKeepsInv ==
    ASSUME TransportInv, Connect, InTime, at \in {"loop", "validating"},
           addresses' # {} => Allowed(target, addresses')
    PROVE  TransportInv'
<1> USE TransportAssumption DEF Connect, Remaining, InTime, work, timing
<1>1. TypeOK'
  BY DEF TransportInv, TypeOK, Waits, InFlight
<1>2. Counted' /\ AskedOnce'
  BY DEF TransportInv, TypeOK, Counted, AskedOnce, Native
<1>3. Timing'
  BY DEF TransportInv, TypeOK, Timing, InFlight, Native
<1>4. Found'
  BY DEF TransportInv, Found, Allowed
<1> QED BY <1>1, <1>2, <1>3, <1>4 DEF TransportInv

(* A transport error, retried where the adapter may.                       *)
LEMMA ErrorKeepsInv ==
    ASSUME TransportInv, NEW error, TransportError(error),
           Native /\ error = "ConnectError" => at = "connecting" /\ processed <= declined,
           \/ UNCHANGED work
           \/ Processes /\ at = "writing" /\ error # "ConnectError"
    PROVE  TransportInv'
<1>1. CASE ~Replays(error)
  BY <1>1, EndKeepsInv DEF TransportError
<1>2. CASE Replays(error)
  <2>1. budget \in Nat
    BY DEF TransportInv, TypeOK
  <2>2. Pauses(budget) \in SUBSET Nat
    BY <2>1, PausesAreTimes
  <2>3. Native => at = "connecting" /\ processed <= declined
    BY <1>2 DEF Replays
  <2>4. Native => \A p \in Pauses(budget) : p <= Timeout - began
    <3>1. Native => budget = Timeout - began
      BY <2>3 DEF TransportInv, Timing, InFlight
    <3> QED BY <2>1, <2>2, <3>1, PausesAreTimes
  <2>5. RetryOrFail(Pauses(budget))
    BY <1>2 DEF TransportError
  <2>6. \/ UNCHANGED work /\ (Native => processed <= declined)
        \/ Processes /\ at = "writing" /\ ~Native
    BY <1>2, <2>3 DEF Replays
  <2> QED BY <2>2, <2>4, <2>5, <2>6, RetryKeepsInv
<1> QED BY <1>1, <1>2

(* The call begins.                                                        *)
LEMMA InitInv == Init => TransportInv
BY TransportAssumption
   DEF Init, TransportInv, TypeOK, Counted, AskedOnce, Timing, Found, Waits, InFlight

(* A call that fails with the upstream as it was.                          *)
LEMMA FailKeepsInv ==
    ASSUME TransportInv, Fail
    PROVE  TransportInv'
BY EndKeepsInv DEF Fail

(* The chat adapter validates egress before its loop.                      *)
LEMMA ValidatedOnceKeepsInv ==
    ASSUME TransportInv, ValidatedOnce
    PROVE  TransportInv'
<1>1. PICK answer \in Answers :
        IF EgressValid(answer)
        THEN /\ addresses' = _resolve(target.url, answer)
             /\ UNCHANGED <<adapter, target, now, at, attempt, timing, work,
                            response, chunks, result>>
        ELSE Fail
  BY DEF ValidatedOnce
<1>2. CASE ~EgressValid(answer)
  BY <1>1, <1>2, FailKeepsInv
<1>3. CASE EgressValid(answer)
  <2>1. Allowed(target, addresses')
    BY <1>1, <1>3, ValidatedIsAllowed DEF EgressValid, TransportInv, TypeOK
  <2>2. TypeOK' /\ Counted' /\ AskedOnce' /\ Timing'
    BY <1>1, <1>3 DEF work, timing, InFlight, TransportInv, TypeOK, Counted, AskedOnce, Timing, Native
  <2>3. target' = target
    BY <1>1, <1>3
  <2> QED BY <2>1, <2>2, <2>3 DEF TransportInv, Found, Allowed
<1> QED BY <1>2, <1>3

(* The head of the loop.                                                   *)
LEMMA AttemptKeepsInv ==
    ASSUME TransportInv, Attempt
    PROVE  TransportInv'
<1>1. CASE Fail
  BY <1>1, FailKeepsInv
<1>2. CASE InTime /\ ~Native /\ addresses # {} /\ Connect /\ UNCHANGED addresses
  <2>1. Allowed(target, addresses')
    BY <1>2 DEF TransportInv, Found, Allowed
  <2> QED BY <1>2, <2>1, ConnectKeepsInv DEF Attempt
<1>3. CASE /\ InTime /\ Native
           /\ at' = "validating" /\ until' = now + ResolveTime /\ since' = now
           /\ UNCHANGED <<call, now, attempt, budget, began, work, response, chunks, result>>
  <2> USE <1>3, TransportAssumption DEF Attempt, call, work, timing
  <2>1. TypeOK'
    BY DEF TransportInv, TypeOK, Waits, InFlight
  <2>2. Counted' /\ AskedOnce'
    BY DEF TransportInv, TypeOK, Counted, AskedOnce, Native
  <2>3. Timing'
    BY DEF TransportInv, TypeOK, Timing, InFlight, Native
  <2>4. Found'
    BY DEF TransportInv, Found, Allowed
  <2> QED BY <2>1, <2>2, <2>3, <2>4 DEF TransportInv
<1> QED BY <1>1, <1>2, <1>3 DEF Attempt

(* A native adapter has resolved the name, before every attempt.           *)
LEMMA ValidatedKeepsInv ==
    ASSUME TransportInv, Validated
    PROVE  TransportInv'
<1>1. PICK answer \in Answers :
        IF EgressValid(answer) /\ InTime
        THEN Connect /\ addresses' = _resolve(target.url, answer)
        ELSE Fail
  BY DEF Validated
<1>2. CASE ~(EgressValid(answer) /\ InTime)
  BY <1>1, <1>2, FailKeepsInv
<1>3. CASE EgressValid(answer) /\ InTime
  <2>1. Allowed(target, addresses')
    BY <1>1, <1>3, ValidatedIsAllowed DEF EgressValid, TransportInv, TypeOK
  <2> QED BY <1>1, <1>3, <2>1, ConnectKeepsInv DEF Validated
<1> QED BY <1>2, <1>3

(* The connection stands or fails: nothing has been sent.                  *)
LEMMA ConnectedKeepsInv ==
    ASSUME TransportInv, Connected
    PROVE  TransportInv'
<1>1. CASE Enter("writing") /\ UNCHANGED <<work, response, chunks>>
  BY <1>1, EnterKeepsInv DEF Connected, work, InFlight, TransportInv, TypeOK
<1>2. CASE TransportError("ConnectError") /\ UNCHANGED work
  BY <1>2, ErrorKeepsInv DEF Connected, TransportInv, AskedOnce
<1> QED BY <1>1, <1>2 DEF Connected

(* The request is written, or the connection breaks.                       *)
LEMMA WrittenKeepsInv ==
    ASSUME TransportInv, Written
    PROVE  TransportInv'
<1>1. CASE /\ Enter("waiting") /\ upstream' = "received"
           /\ UNCHANGED <<processed, declined, response, chunks>>
  BY <1>1, EnterKeepsInv DEF Written, InFlight, TransportInv, TypeOK
<1>2. CASE /\ TransportError("WriteError")
           /\ Processes \/ UNCHANGED work
  BY <1>2, ErrorKeepsInv DEF Written
<1> QED BY <1>1, <1>2 DEF Written

(* The upstream works on what it has received, once per attempt.           *)
LEMMA UpstreamProcessesKeepsInv ==
    ASSUME TransportInv, UpstreamProcesses
    PROVE  TransportInv'
<1> USE TransportAssumption DEF UpstreamProcesses, Processes, call, work, timing
<1>1. TypeOK'
  BY DEF TransportInv, TypeOK, Counted
<1>2. Counted' /\ AskedOnce'
  BY DEF TransportInv, TypeOK, Counted, AskedOnce, Native
<1>3. Timing'
  BY DEF TransportInv, TypeOK, Timing, InFlight, Native
<1>4. Found'
  BY DEF TransportInv, Found, Allowed
<1> QED BY <1>1, <1>2, <1>3, <1>4 DEF TransportInv

(* Headers, a status that may be retried, or a broken connection.          *)
LEMMA AnsweredKeepsInv ==
    ASSUME TransportInv, Answered
    PROVE  TransportInv'
<1>1. CASE /\ Enter("reading") /\ response' = "open"
           /\ UNCHANGED <<work, chunks>>
  BY <1>1, EnterKeepsInv DEF Answered, work, InFlight, TransportInv, TypeOK
<1>2. CASE /\ IF Native /\ ~InTime THEN End("failed")
              ELSE RetryOrFail(Pauses(Remaining))
           /\ Declines
  <2>1. CASE Native /\ ~InTime
    BY <1>2, <2>1, EndKeepsInv
  <2>2. CASE ~(Native /\ ~InTime)
    <3>1. Native => Remaining \in Nat
      BY <2>2, TransportAssumption DEF InTime, Remaining, TransportInv, TypeOK
    <3>2. Pauses(Remaining) \in SUBSET Nat
      BY <3>1, PausesAreTimes
    <3>3. Native => \A p \in Pauses(Remaining) : p <= Timeout - began
      <4>1. Native => \A p \in Pauses(Remaining) : p <= Remaining
        BY <3>1, PausesAreTimes
      <4>2. now \in Nat /\ began \in Nat /\ began <= now /\ Timeout \in Nat
        BY TransportAssumption DEF TransportInv, TypeOK, Timing
      <4> QED BY <3>2, <4>1, <4>2 DEF Remaining
    <3> QED BY <1>2, <2>2, <3>2, <3>3, RetryKeepsInv
  <2> QED BY <2>1, <2>2
<1>3. CASE Fail
  BY <1>3, FailKeepsInv
<1>4. CASE TransportError("ReadError") /\ UNCHANGED work
  BY <1>4, ErrorKeepsInv
<1> QED BY <1>1, <1>2, <1>3, <1>4 DEF Answered, Declines

(* A read of the body.                                                     *)
LEMMA BodyReadKeepsInv ==
    ASSUME TransportInv, BodyRead
    PROVE  TransportInv'
<1>1. CASE /\ chunks < MaxChunks
           /\ Enter(IF adapter = "stream" THEN "yielded" ELSE "reading")
           /\ chunks' = chunks + 1 /\ UNCHANGED response
  <2>1. chunks' \in 0 .. MaxChunks
    BY <1>1, TransportAssumption DEF TransportInv, TypeOK
  <2> QED BY <1>1, <2>1, EnterKeepsInv DEF BodyRead, work, InFlight, TransportInv, TypeOK
<1>2. CASE End("ok") \/ End("failed")
  BY <1>2, EndKeepsInv DEF BodyRead
<1>3. CASE adapter = "chat" /\ TransportError("ReadError")
  BY <1>3, ErrorKeepsInv DEF BodyRead
<1> QED BY <1>1, <1>2, <1>3 DEF BodyRead

(* The consumer of a stream comes back.                                    *)
LEMMA ResumeKeepsInv ==
    ASSUME TransportInv, Resume
    PROVE  TransportInv'
BY EnterKeepsInv DEF Resume, work, InFlight, TransportInv, TypeOK

(* A pause is over; there is an attempt left.                              *)
LEMMA WokenKeepsInv ==
    ASSUME TransportInv, Woken
    PROVE  TransportInv'
<1> USE TransportAssumption DEF Woken, call, work, timing
<1>1. TypeOK'
  BY DEF TransportInv, TypeOK, Counted
<1>2. Counted' /\ AskedOnce'
  BY DEF TransportInv, TypeOK, Counted, AskedOnce, Native
<1>3. Timing'
  BY DEF TransportInv, TypeOK, Timing, InFlight, Native
<1>4. Found'
  BY DEF TransportInv, Found, Allowed
<1> QED BY <1>1, <1>2, <1>3, <1>4 DEF TransportInv

(* Time passes only up to the end of the operation in progress.            *)
LEMMA TickKeepsInv ==
    ASSUME TransportInv, Tick
    PROVE  TransportInv'
<1> USE TransportAssumption DEF Tick, call, work, timing
<1>1. TypeOK'
  BY DEF TransportInv, TypeOK
<1>2. Counted' /\ AskedOnce'
  BY DEF TransportInv, TypeOK, Counted, AskedOnce, Native
<1>3. Timing'
  <2>1. at \in InFlight \cup {"sleeping"} => now < until
    BY DEF Timed, Waits, InFlight
  <2>2. now \in Nat /\ until \in Nat /\ began \in Nat
    BY DEF TransportInv, TypeOK
  <2> QED BY <2>1, <2>2 DEF TransportInv, Timing, InFlight, Native
<1>4. Found'
  BY DEF TransportInv, Found, Allowed
<1> QED BY <1>1, <1>2, <1>3, <1>4 DEF TransportInv

(* Every step of a call keeps what its counts, its clock and its addresses *)
(* say of each other.                                                      *)
LEMMA NextKeepsInv == TransportInv /\ [Next]_vars => TransportInv'
<1> SUFFICES ASSUME TransportInv, [Next]_vars
             PROVE  TransportInv'
  OBVIOUS
<1>1. CASE ValidatedOnce      BY <1>1, ValidatedOnceKeepsInv
<1>2. CASE Attempt            BY <1>2, AttemptKeepsInv
<1>3. CASE Validated          BY <1>3, ValidatedKeepsInv
<1>4. CASE Connected          BY <1>4, ConnectedKeepsInv
<1>5. CASE Written            BY <1>5, WrittenKeepsInv
<1>6. CASE UpstreamProcesses  BY <1>6, UpstreamProcessesKeepsInv
<1>7. CASE Answered           BY <1>7, AnsweredKeepsInv
<1>8. CASE BodyRead           BY <1>8, BodyReadKeepsInv
<1>9. CASE Resume             BY <1>9, ResumeKeepsInv
<1>10. CASE Woken             BY <1>10, WokenKeepsInv
<1>11. CASE TimedOut          BY <1>11, FailKeepsInv DEF TimedOut
<1>12. CASE TotalElapsed      BY <1>12, FailKeepsInv DEF TotalElapsed
<1>13. CASE Cancel            BY <1>13, EndKeepsInv DEF Cancel
<1>14. CASE Tick              BY <1>14, TickKeepsInv
<1>15. CASE UNCHANGED vars
  <2>1. TypeOK' /\ Counted' /\ AskedOnce' /\ Timing'
    BY <1>15 DEF vars, call, work, timing, TransportInv, TypeOK, Counted, AskedOnce, Timing, Native
  <2>2. Found'
    BY <1>15 DEF vars, call, work, timing, TransportInv, Found, Allowed
  <2> QED BY <2>1, <2>2 DEF TransportInv
<1> QED BY <1>1, <1>2, <1>3, <1>4, <1>5, <1>6, <1>7, <1>8, <1>9, <1>10, <1>11, <1>12,
           <1>13, <1>14, <1>15 DEF Next

(* The inductive invariant of a call, its types among it.                  *)
THEOREM Invariance == Spec => []TransportInv
BY InitInv, NextKeepsInv, PTL DEF Spec

(* However many retries are configured and wherever the connection breaks, *)
(* a native adapter has the work done again only if the upstream answered  *)
(* the work that it had done with a status that is retried.                *)
THEOREM NativeSendsWhenAsked == Spec => []NativeRepeatsWhenAsked
<1>1. TransportInv => NativeRepeatsWhenAsked
  BY DEF TransportInv, AskedOnce, NativeRepeatsWhenAsked, RepeatsWhenAsked
<1> QED BY <1>1, Invariance, PTL

(* For every timeout and every number of attempts, an upstream that falls  *)
(* silent holds a call no longer than what was left when its attempt began. *)
THEOREM SilenceEnds == Spec => []SilenceIsBounded
<1>1. TransportInv => SilenceIsBounded
  BY TransportAssumption DEF TransportInv, TypeOK, Timing, SilenceIsBounded, InFlight
<1> QED BY <1>1, Invariance, PTL

(* Where an attempt can start: at the head of the loop (chat) or when the  *)
(* name has just been resolved (native).                                   *)
LEMMA AttemptIsDue ==
    ASSUME TransportInv, Next, at' = "connecting", at # "connecting"
    PROVE  /\ now < Timeout
           /\ addresses' # {} /\ Allowed(target, addresses')
           /\ Native => at = "validating"
<1>1. Attempt \/ Validated
  BY DEF Next, ValidatedOnce, Connected, Written, UpstreamProcesses, Answered, BodyRead,
         Resume, Woken, TimedOut, TotalElapsed, Cancel, Tick, Enter, End, Fail,
         TransportError, RetryOrFail
<1>2. CASE Attempt
  <2>1. InTime /\ ~Native /\ addresses # {} /\ UNCHANGED addresses
    BY <1>2 DEF Attempt, Fail, End
  <2> QED BY <2>1 DEF InTime, TransportInv, Found, Allowed
<1>3. CASE Validated
  <2>1. PICK answer \in Answers :
          EgressValid(answer) /\ InTime /\ addresses' = _resolve(target.url, answer)
    BY <1>3 DEF Validated, Fail, End
  <2>2. addresses' # {} /\ Allowed(target, addresses')
    BY <2>1, ValidatedIsAllowed DEF EgressValid, TransportInv, TypeOK
  <2> QED BY <1>3, <2>1, <2>2 DEF InTime, Validated
<1> QED BY <1>1, <1>2, <1>3

(* Every attempt of every call starts before the deadline, and with        *)
(* addresses that were all found where the destination may be.             *)
THEOREM AttemptsStayAllowed == Spec => AttemptsAreDue
<1>1. /\ TransportInv /\ [Next]_vars
      => [at' = "connecting" /\ at # "connecting" =>
            /\ now < Timeout
            /\ addresses' # {} /\ Allowed(target, addresses')
            /\ Native => at = "validating"]_vars
  BY AttemptIsDue
<1> QED BY <1>1, Invariance, PTL DEF Spec, AttemptsAreDue
=============================================================================
