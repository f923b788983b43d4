--------------------------- MODULE PolicyRouting ---------------------------
(***************************************************************************)
(* Where a request may go: gateway/policy/ (rules, their order, the local- *)
(* routing floor), its composition and checks at startup (gateway/config.py*)
(* and AgentRuntime.__init__), and the dispatch of each request with its   *)
(* tripwire (inspection/pipeline.py for chat, api/agent_runtime.py for the *)
(* two agent protocols).                                                   *)
(*                                                                         *)
(* A rule's name is its rank in alphabetical order.  A detected span is    *)
(* its entity type and score.  A provider is the client object behind a    *)
(* destination: two destinations may share the mock.                       *)
(***************************************************************************)
EXTENDS Integers, FiniteSets

CONSTANTS
    Entities, Applications, Scores,
    Destinations,       \* names a policy may use, known or not
    YamlRules,          \* rules the policy file may hold
    FilterRules,        \* rules the operator's filters may add
    InspectionResults   \* sets of spans that inspection may report

Actions == {"allow", "transform", "route_local", "block"}
Modes == {"off", "detected", "all"}
Channels == {"chat", "responses", "messages"}
Clients == {"mock", "external", "local"}
NoDestination == ""

Rule == [name : Nat, priority : Int, action : Actions,
         destination : Destinations \cup {NoDestination},
         entities : SUBSET Entities, applications : SUBSET Applications,
         min_score : Scores]

Span == [type : Entities, score : Scores]

ASSUME PolicyAssumption ==
    /\ YamlRules \subseteq Rule /\ FilterRules \subseteq Rule
    /\ Clients \subseteq Destinations /\ NoDestination \notin Destinations
    /\ Scores \subseteq Nat
    /\ InspectionResults \subseteq SUBSET Span

(* What the environment and the files configure.                           *)
Settings ==
    [yaml : SUBSET YamlRules, filters : SUBSET FilterRules,
     default_destination : Destinations, local_routing : Modes,
     external_url : BOOLEAN, messages_url : BOOLEAN, local_url : BOOLEAN,
     ner : BOOLEAN, production : BOOLEAN, agents : SUBSET (Channels \ {"chat"})]

VARIABLES
    stage,      \* starting, refused or serving
    config,     \* the settings of this process
    request,    \* the last request: its channel, application and spans
    base,       \* PolicyEngine._first_match's decision for it
    decision,   \* the decision after the routing floor
    outcome     \* blocked, sent, unconfigured or violation; and by whom served

routingVars == <<stage, config, request, base, decision, outcome>>

-----------------------------------------------------------------------------
(* gateway/policy/engine.py                                                *)

Matches(r, app, spans) ==
    /\ r.applications # {} => app \in r.applications
    /\ r.entities # {} =>
         \E s \in spans : s.type \in r.entities /\ s.score >= r.min_score

\* mutant: the tie goes to the name alone
BeforeByName(r, s) ==
    \/ r.priority > s.priority
    \/ r.priority = s.priority /\ r.name < s.name

(* The sort key (-priority, action is not BLOCK, name).                    *)
Before(r, s) ==
    \/ r.priority > s.priority
    \/ /\ r.priority = s.priority
       /\ \/ r.action = "block" /\ s.action # "block"
          \/ /\ (r.action = "block") <=> (s.action = "block")
             /\ r.name < s.name

Composed(c) == c.yaml \cup c.filters

DestinationOf(c, r) ==
    IF r.destination = NoDestination THEN c.default_destination ELSE r.destination

ImplicitDeny == [action |-> "block", destination |-> NoDestination, by |-> "implicit"]

Decide(c, r) ==
    [action |-> r.action, destination |-> DestinationOf(c, r), by |-> "rule"]

(* The first of the matching rules decides.                                *)
FirstMatch(c, app, spans) ==
    LET hits == {r \in Composed(c) : Matches(r, app, spans)}
        first == {r \in hits : \A s \in hits \ {r} : Before(r, s)}
    IN IF first = {} THEN ImplicitDeny ELSE Decide(c, CHOOSE r \in first : TRUE)

RequiresLocal(mode, spans) == mode = "all" \/ (mode = "detected" /\ spans # {})

apply_local_routing(mode, d, spans) ==
    IF d.action = "block" \/ d.destination = "local" \/ ~RequiresLocal(mode, spans)
    THEN d
    ELSE [action |-> "route_local", destination |-> "local", by |-> "local-routing"]

-----------------------------------------------------------------------------
(* Startup                                                                 *)

Selectable(c) == {DestinationOf(c, r) : r \in {q \in Composed(c) : q.action # "block"}}

required_destinations(c) ==
    IF c.local_routing = "all" THEN {"local"}
    ELSE IF c.local_routing = "detected" THEN Selectable(c) \cup {"local"}
    ELSE Selectable(c)

HasUrl(c, ch) == IF ch = "messages" THEN c.messages_url ELSE c.external_url

(* The clients behind the destinations of a channel.                       *)
Providers(c, ch) ==
    [d \in IF c.local_routing = "all" THEN {"mock", "local"} ELSE Clients |->
        IF \/ d = "external" /\ HasUrl(c, ch)
           \/ d = "local" /\ c.local_url
        THEN d ELSE "mock"]

(* from_dict and with_rules: a catch-all in the file, no name twice.       *)
PolicyLoads(c) ==
    /\ \E r \in c.yaml : r.entities = {} /\ r.applications = {}
    /\ \A r, s \in Composed(c) : r.name = s.name => r = s
    /\ \A r \in c.yaml, s \in c.filters : r.name # s.name

\* mutant: the mode runs with the mock as its local model
ModeUsableWithoutUrl(c) == c.local_routing = "detected" => c.ner

(* The mode needs a local model of its own, and "detected" needs NER.      *)
ModeUsable(c) ==
    /\ c.local_routing = "detected" => c.ner
    /\ c.local_routing # "off" => c.local_url

\* mutant: an agent protocol is checked against the clients of the chat route
ChannelUsableAsChat(c, ch) ==
    LET map == Providers(c, "chat") IN
    /\ required_destinations(c) \subseteq DOMAIN map
    /\ c.production => \A d \in required_destinations(c) \ {"mock"} : map[d] # "mock"

(* build_providers and AgentRuntime: every destination the policy can      *)
(* select exists and, in production, is not an alias of the mock.          *)
ChannelUsable(c, ch) ==
    LET map == Providers(c, ch) IN
    /\ required_destinations(c) \subseteq DOMAIN map
    /\ c.production => \A d \in required_destinations(c) \ {"mock"} : map[d] # "mock"

Accepts(c) ==
    /\ PolicyLoads(c) /\ ModeUsable(c)
    /\ \A ch \in c.agents \cup {"chat"} : ChannelUsable(c, ch)

NoRequest == [channel |-> "chat", application |-> "none", spans |-> {}]
Untouched == [what |-> "none", client |-> "none"]

RoutingInit ==
    /\ stage = "starting"
    /\ config \in Settings
    /\ request = NoRequest
    /\ base = ImplicitDeny /\ decision = ImplicitDeny
    /\ outcome = Untouched

(* build_pipeline and, with an agent protocol enabled, AgentRuntime.       *)
Start ==
    /\ stage = "starting"
    /\ stage' = IF Accepts(config) THEN "serving" ELSE "refused"
    /\ UNCHANGED <<config, request, base, decision, outcome>>

-----------------------------------------------------------------------------
(* A request                                                               *)

(* The tripwire decides on its own whether the mode requires local, and    *)
(* compares clients, not names.                                            *)
Tripwire(c, ch, d, spans) ==
    /\ c.local_routing = "all" \/ (c.local_routing = "detected" /\ spans # {})
    /\ Providers(c, ch)[d.destination] # Providers(c, ch)["local"]

Dispatch(c, ch, d, spans) ==
    IF d.action = "block" THEN [what |-> "blocked", client |-> "none"]
    ELSE IF d.destination \notin DOMAIN Providers(c, ch)
         THEN [what |-> "unconfigured", client |-> "none"]
    ELSE IF Tripwire(c, ch, d, spans) THEN [what |-> "violation", client |-> "none"]
    ELSE [what |-> "sent", client |-> Providers(c, ch)[d.destination]]

(* A request is inspected, decided and handed to its destination's client. *)
Serve ==
    /\ stage = "serving"
    /\ \E ch \in config.agents \cup {"chat"}, app \in Applications,
          spans \in InspectionResults :
         /\ request' = [channel |-> ch, application |-> app, spans |-> spans]
         /\ base' = FirstMatch(config, app, spans)
         /\ decision' = apply_local_routing(config.local_routing, base', spans)
         /\ outcome' = Dispatch(config, ch, decision', spans)
    /\ UNCHANGED <<stage, config>>

RoutingNext == Start \/ Serve

RoutingSpec == RoutingInit /\ [][RoutingNext]_routingVars

-----------------------------------------------------------------------------
(* Properties                                                              *)

Decision ==
    [action : Actions, destination : Destinations, by : {"rule", "local-routing"}]
        \cup {ImplicitDeny}

RoutingTypeOK ==
    /\ stage \in {"starting", "refused", "serving"}
    /\ config \in Settings
    /\ request \in [channel : Channels, application : Applications \cup {"none"},
                    spans : InspectionResults \cup {{}}]
    /\ base \in Decision /\ decision \in Decision
    /\ outcome \in [what : {"none", "blocked", "sent", "unconfigured", "violation"},
                    client : Clients \cup {"none"}]

(* SI-14.  With the mode on, a request it covers is received by the        *)
(* operator's own model and by nothing else: not through a rule's order,   *)
(* a score, a default destination, or a "local" that is really the mock.   *)
LocalFloor ==
    (outcome.what = "sent" /\ RequiresLocal(config.local_routing, request.spans))
        => outcome.client = "local"

(* The tripwire of SecurityPipeline.process and AgentRuntime.provider is   *)
(* a second line: the engine's own floor never lets it fire.               *)
TripwireSilent == outcome.what # "violation"

(* A policy that names a destination this process lacks is refused at      *)
(* startup, never when a request with sensitive text has been accepted.    *)
NoLateRefusal == outcome.what # "unconfigured"

(* Deny overrides: a matching BLOCK rule that no matching rule outranks in *)
(* priority stops the request, whatever the names, modes and filters.      *)
BlockWins ==
    LET hits == {r \in Composed(config) :
                    Matches(r, request.application, request.spans)}
    IN (outcome.what # "none" /\ \E b \in hits :
            b.action = "block" /\ \A r \in hits : r.priority <= b.priority)
         => outcome.what = "blocked"

(* SI-10.  The mode may move a request, never release one or withdraw      *)
(* pseudonymisation: text the rules would tokenise leaves as tokens.       *)
ModeOnlyTightens ==
    /\ base.action = "block" => decision = base
    /\ base.action \in {"transform", "route_local"} =>
         decision.action \in {"transform", "route_local"}

(* In production a request reaches the offline mock only if the policy     *)
(* names the mock itself, on the agent routes as on the chat route.        *)
MockOnlyByName ==
    (config.production /\ outcome.client = "mock") => decision.destination = "mock"

-----------------------------------------------------------------------------
(* The inductive invariant behind the theorems of PolicyProofs             *)

(* A served request was decided as the engine decides, by a policy that    *)
(* passed the checks of startup.                                           *)
DecidedAsConfigured ==
    /\ stage = "serving" => Accepts(config)
    /\ outcome.what # "none" =>
         /\ stage = "serving"
         /\ request.channel \in config.agents \cup {"chat"}
         /\ base = FirstMatch(config, request.application, request.spans)
         /\ decision = apply_local_routing(config.local_routing, base, request.spans)
         /\ outcome = Dispatch(config, request.channel, decision, request.spans)
    /\ outcome.what = "none" =>
         outcome.client = "none" /\ base = ImplicitDeny /\ decision = ImplicitDeny

RoutingInv == RoutingTypeOK /\ DecidedAsConfigured
=============================================================================
