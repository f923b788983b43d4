-------------------------- MODULE RequestContracts --------------------------
(***************************************************************************)
(* What an agent's request may be, and what of it reaches the provider:    *)
(* parse_responses_request (gateway/protocols/responses.py),               *)
(* parse_messages_request (gateway/protocols/messages.py) and              *)
(* AgentPreparation.prepare (gateway/inspection/agent.py).                 *)
(*                                                                         *)
(* A parser rebuilds the body field by field: here, a body either has the  *)
(* shape of its protocol or is refused.  Then the history is read item by  *)
(* item, the tools are checked, and the locations are inspected and        *)
(* replaced one by one.                                                    *)
(***************************************************************************)
EXTENDS JsonShapes, CallHistory

CONSTANTS
    Bodies,         \* the bodies clients send, per protocol
    Private,        \* the leaves in which the detectors find a value
    Canonical,      \* the canonical form of each private string
    MaxLocations    \* max_input_chars

LOCAL INSTANCE SequencesExt

(* A value that the detectors find is a text or a number.                  *)
ASSUME PrivateAssumption == \A leaf \in Private : Kind(leaf) \in {"str", "num"}

VARIABLES
    protocol,   \* "responses" or "messages"
    payload,    \* the rebuilt body
    decision,   \* the action of the policy
    todo,       \* the locations still to be replaced
    outbound,   \* what will be sent to the provider
    minted      \* TokenProvenance: each placeholder's value, as spelled here

requestVars == <<protocol, payload, decision, todo, outbound, minted>>
contractVars == <<historyVars, requestVars>>

----------------------------------------------------------------------------
(* The Responses contract.                                                 *)

Status == Choice({"completed", "incomplete"})
Efforts == Choice({"none", "low", "high"})
EmptyArray == Exactly(Arr(<<>>))

(* _text_block: text, and only an assistant's own kinds of it.             *)
InputText == Record([type |-> Choice({"input_text"}), text |-> Text], {"type", "text"})
AssistantText == OneOf(<<
    InputText,
    Record([type |-> Choice({"output_text"}), text |-> Text, annotations |-> EmptyArray],
           {"type", "text"}),
    Record([type |-> Choice({"refusal"}), refusal |-> Text], {"type", "refusal"})>>)

(* _item: messages, empty reasoning, calls and their outputs.              *)
Message(roles, block, more) == Record(
    more @@ [type |-> Choice({"message"}), role |-> Choice(roles), id |-> Identifier,
             content |-> OneOf(<<Text, NonEmpty(block)>>), status |-> Status],
    {"role", "content"})
Reasoning == Record(
    [type |-> Choice({"reasoning"}), id |-> Identifier, summary |-> EmptyArray,
     content |-> Nullable(EmptyArray), encrypted_content |-> Exactly(Null),
     status |-> Nullable(Status)],
    {"type", "summary"})
CallFields == [call_id |-> Identifier, name |-> Identifier, id |-> Identifier, status |-> Status]
FunctionCall == Record(
    CallFields @@ [type |-> Choice({"function_call"}),
                   arguments |-> Encoded(Anything(FALSE), FALSE, {})],
    {"type", "call_id", "name", "arguments"})
CustomCall == Record(CallFields @@ [type |-> Choice({"custom_tool_call"}), input |-> Text],
                     {"type", "call_id", "name", "input"})
CallOutput == Record(
    [type |-> Choice({"function_call_output", "custom_tool_call_output"}), id |-> Identifier,
     call_id |-> Identifier, status |-> Status, output |-> OneOf(<<Text, NonEmpty(InputText)>>)],
    {"type", "call_id", "output"})
Item == OneOf(<<
    Message({"developer", "system", "user"}, InputText, <<>>),
    Message({"assistant"}, AssistantText,
            [phase |-> Nullable(Choice({"commentary", "final_answer"}))]),
    Reasoning, FunctionCall, CustomCall, CallOutput>>)

(* _tool: functions with a schema, and text tools of a reviewed format.    *)
PatchGrammar == Obj([type |-> Str("grammar"), syntax |-> Str("lark"), definition |-> Str("lark")])
ToolFields == [name |-> Identifier, description |-> Text, defer_loading |-> MustBeFalse]
ResponsesTool == OneOf(<<
    Record(ToolFields @@ [type |-> Choice({"function"}), parameters |-> Schema, strict |-> Boolean],
           {"type", "name", "parameters"}),
    Record(ToolFields @@ [type |-> Choice({"custom"}),
                          format |-> Record([type |-> Choice({"text"})], {"type"})],
           {"type", "name"}),
    Record(ToolFields @@ [type |-> Choice({"custom"}), name |-> Choice({"apply_patch"}),
                          format |-> Exactly(PatchGrammar)],
           {"type", "name"})>>)

(* _tool_choice.                                                           *)
ResponsesToolChoice == OneOf(<<
    Choice({"none", "auto", "required"}),
    Record([type |-> Choice({"function", "custom"}), name |-> Identifier], {"type", "name"})>>)

(* _text: structured output.                                               *)
TextOptions == Record(
    [verbosity |-> Choice({"low", "medium", "high"}),
     format |-> OneOf(<<
        Record([type |-> Choice({"text", "json_object"})], {"type"}),
        Record([type |-> Choice({"json_schema"}), name |-> Identifier, schema |-> Schema,
                strict |-> Boolean, description |-> Text], {"type", "name", "schema"})>>)],
    {})

(* _turn_metadata: the attribution snapshot of the Codex client; none of   *)
(* it may be replaced, and its counters are not inspected.  Of the fields  *)
(* that are read alike, two or three stand for all.                        *)
TurnCounts == {"window_number", "turn_started_at_unix_ms"}
TurnMetadata == Record(
    [n \in TurnCounts |-> Integer(0, 1000)]
    @@ [n \in {"session_id", "turn_id"} |-> Identifier]
    @@ [n \in {"agent_name", "sandbox"} |-> AnyString]
    @@ [n \in {"history_ingest_requested"} |-> Boolean]
    @@ [model |-> Identifier, reasoning_effort |-> Efforts,
        request_kind |-> Choice({"turn", "prewarm", "compaction", "memory"}),
        compaction |-> Record(
            [trigger |-> Choice({"manual", "auto"}), implementation |-> Choice({"responses"}),
             reason |-> Choice({"user_requested", "context_limit"}),
             phase |-> Choice({"standalone_turn", "pre_turn", "mid_turn"}),
             strategy |-> Choice({"memento", "prefix_compaction"})],
            {"trigger", "implementation", "reason", "phase", "strategy"}),
        workspaces |-> MapOf(Record([associated_remote_urls |-> MapOf(AnyString),
                                     has_changes |-> Boolean], {})),
        tool_namespaces_info |-> MapOf(Record([name |-> Identifier,
            functions |-> MapOf(Record(
                [name |-> Identifier, direct |-> Boolean, deferred |-> Boolean,
                 code_mode_name |-> Nullable(Identifier),
                 source |-> OneOf(<<
                    Record([kind |-> Choice({"harness"})], {"kind"}),
                    Record([kind |-> Choice({"mcp"}), server_name |-> Identifier],
                           {"kind", "server_name"})>>)],
                {"name", "direct", "deferred", "code_mode_name", "source"}))],
            {"name", "functions"}))],
    {})

(* _client_metadata.                                                       *)
ClientMetadata == Record(
    [n \in {"session_id", "thread_id"} |-> Identifier]
    @@ [n \in {"x-codex-turn-metadata"} |->
            Encoded(TurnMetadata, TRUE, {<<c>> : c \in TurnCounts})],
    {})

(* parse_responses_request: the fields of a request; opaque ones are not   *)
(* among them, and nothing may be kept or continued at the provider.       *)
ResponsesRequest == Record(
    [n \in {"stream", "parallel_tool_calls"} |-> Boolean]
    @@ [n \in {"store", "background"} |-> MustBeFalse]
    @@ [n \in {"max_output_tokens", "max_tool_calls"} |-> Integer(1, 1000)]
    @@ [temperature |-> Integer(0, 2), top_p |-> Integer(0, 1)]
    @@ [model |-> Identifier, input |-> OneOf(<<Text, NonEmpty(Item)>>),
        instructions |-> Text, prompt_cache_key |-> Identifier,
        client_metadata |-> ClientMetadata, tools |-> List(ResponsesTool),
        tool_choice |-> ResponsesToolChoice, truncation |-> Choice({"auto", "disabled"}),
        service_tier |-> Choice({"auto", "default", "priority"}), text |-> TextOptions,
        reasoning |-> Record([effort |-> Efforts, summary |-> Choice({"auto", "concise"})], {}),
        include |-> List(Choice({"reasoning.encrypted_content"}))],
    {"model", "input"})

----------------------------------------------------------------------------
(* The Messages contract.                                                  *)

(* cache_control.                                                          *)
CacheControl == Record([type |-> Choice({"ephemeral"}), ttl |-> Choice({"5m", "1h"})], {"type"})
Cached(fields) == fields @@ [cache_control |-> CacheControl]

(* _text.                                                                  *)
MessagesText == Record(Cached([type |-> Choice({"text"}), text |-> Text, citations |-> EmptyArray]),
                       {"type", "text"})

(* _block: only an assistant calls tools, only a user returns results.     *)
ToolUse == Record(
    Cached([type |-> Choice({"tool_use"}), id |-> Identifier, name |-> Identifier,
            input |-> MapOf(Anything(FALSE))]),
    {"type", "id", "name", "input"})
ToolResult == Record(
    Cached([type |-> Choice({"tool_result"}), tool_use_id |-> Identifier, is_error |-> Boolean,
            content |-> OneOf(<<Text, List(MessagesText)>>)]),
    {"type", "tool_use_id", "content"})
Turn(role, block) == Record(
    [role |-> Choice({role}), content |-> OneOf(<<Text, NonEmpty(OneOf(<<MessagesText, block>>))>>)],
    {"role", "content"})

(* _tool.                                                                  *)
MessagesTool == Record(
    Cached([type |-> Choice({"custom"}), name |-> Identifier, description |-> Text,
            input_schema |-> ObjectSchema]),
    {"name", "input_schema"})

(* _tool_choice: a name exactly with "tool".                               *)
MessagesToolChoice == OneOf(<<
    Record([type |-> Choice({"auto", "any", "none"}), disable_parallel_tool_use |-> Boolean], {"type"}),
    Record([type |-> Choice({"tool"}), name |-> Identifier, disable_parallel_tool_use |-> Boolean],
           {"type", "name"})>>)

(* _metadata: an opaque ID, or the three IDs of Claude Code in one string. *)
Metadata == Record(
    [user_id |-> OneOf(<<
        Opaque(Record([n \in {"device_id", "account_uuid", "session_id"} |-> Identifier],
                      {"device_id", "account_uuid", "session_id"})),
        Identifier>>)],
    {})

(* parse_messages_request.                                                 *)
MessagesRequest == Record(
    Cached([n \in {"temperature", "top_p"} |-> Integer(0, 1)] @@ [top_k |-> Integer(0, 1000)])
    @@ [model |-> Identifier, max_tokens |-> Integer(1, 1000), stream |-> Boolean,
        messages |-> NonEmpty(OneOf(<<Turn("assistant", ToolUse), Turn("user", ToolResult)>>)),
        system |-> OneOf(<<Text, List(MessagesText)>>), stop_sequences |-> List(Text),
        service_tier |-> Choice({"auto", "standard_only"}),
        thinking |-> Record([type |-> Choice({"disabled"})], {"type"}), metadata |-> Metadata,
        output_config |-> Record([effort |-> Efforts], {}),
        tools |-> List(MessagesTool), tool_choice |-> MessagesToolChoice],
    {"model", "messages", "max_tokens"})

----------------------------------------------------------------------------
(* Reading the body.                                                       *)

Grammar == [responses |-> ResponsesRequest, messages |-> MessagesRequest]

(* What parse_responses_request adds: the provider is told not to store.   *)
Rebuilt(p, body) ==
    IF p = "responses" THEN Obj([store |-> Flag(FALSE)] @@ Of(body)) ELSE body

Has(j, k) == k \in DOMAIN Of(j)
At(j, k) == Of(j)[k]
Name(j, k) == Of(At(j, k))
Kinds == [function_call_output |-> "function_call", custom_tool_call_output |-> "custom_tool_call"]

(* What the history check reads of an item or a block.                     *)
Entry(item) ==
    LET kind == IF Has(item, "type") THEN Name(item, "type") ELSE "message" IN
    [id |-> IF kind # "tool_use" /\ Has(item, "id") THEN {Name(item, "id")} ELSE {},
     call |-> CASE kind \in {"function_call", "custom_tool_call"} -> {<<Name(item, "call_id"), kind>>}
                [] kind = "tool_use" -> {<<Name(item, "id"), kind>>}
                [] OTHER -> {},
     output |-> CASE kind \in DOMAIN Kinds -> {<<Name(item, "call_id"), Kinds[kind]>>}
                  [] kind = "tool_result" -> {<<Name(item, "tool_use_id"), "tool_use">>}
                  [] OTHER -> {}]

(* The items of an input, or the blocks of all messages, in order.         *)
Entries(p, body) ==
    LET top == Of(At(body, IF p = "responses" THEN "input" ELSE "messages"))
        blocks(m) == IF Kind(At(m, "content")) = "arr" THEN Of(At(m, "content")) ELSE <<>>
        items == IF p = "responses" THEN IF Kind(At(body, "input")) = "arr" THEN top ELSE <<>>
                 ELSE FlattenSeq([i \in DOMAIN top |-> blocks(top[i])])
    IN [i \in DOMAIN items |-> Entry(items[i])]

(* The history of a body that is read is a sequence, and MaxNesting is     *)
(* large enough for it.                                                    *)
ASSUME RequestAssumption ==
    /\ DOMAIN Bodies \subseteq DOMAIN Grammar
    /\ \A p \in DOMAIN Bodies : \A body \in Bodies[p] :
        Reads(body, Grammar[p]) =>
            /\ LET q == Entries(p, body) IN q \in Seq({q[i] : i \in DOMAIN q})
            /\ NestsWithin(Rebuilt(p, body))

ContractInit ==
    /\ HistoryInit /\ protocol = "responses" /\ payload = Null
    /\ decision = "none" /\ todo = {} /\ outbound = Null /\ minted = <<>>

Refuse(why) == Becomes(why) /\ UNCHANGED requestVars

(* request_body, object_fields and the rest of the parser: a body of its   *)
(* protocol's shape is rebuilt, any other is refused.                      *)
ReadBody ==
    /\ intake = "idle"
    /\ \E p \in DOMAIN Bodies : \E body \in Bodies[p] :
        IF WithinLimits(body) /\ Reads(body, Grammar[p])
        THEN /\ protocol' = p /\ payload' = Rebuilt(p, body) /\ BeginHistory(Entries(p, body))
             /\ UNCHANGED <<decision, todo, outbound, minted>>
        ELSE Refuse("malformed")

Declared == IF Has(payload, "tools") THEN Of(At(payload, "tools")) ELSE <<>>

(* The names of the tools are unique, and a selected one is declared.      *)
ToolsAgree ==
    /\ IsInjective([i \in DOMAIN Declared |-> Name(Declared[i], "name")])
    /\ Has(payload, "tool_choice") =>
        LET choice == At(payload, "tool_choice") IN
        Kind(choice) = "obj" /\ Has(choice, "name") =>
            \E i \in DOMAIN Declared :
                /\ Name(Declared[i], "name") = Name(choice, "name")
                /\ protocol = "responses" => Name(Declared[i], "type") = Name(choice, "type")

Locations == Places(payload, Grammar[protocol])

(* The cache breakpoints among the locations.                              *)
Breakpoints ==
    {l \in Locations : /\ l.leaf = Str("ephemeral") /\ Len(l.path) >= 2
                       /\ SubSeq(l.path, Len(l.path) - 1, Len(l.path)) = <<"cache_control", "type">>}

(* The end of the parser.                                                  *)
CheckRequest ==
    /\ intake = "history" /\ history = <<>>
    /\ IF ToolsAgree /\ (protocol = "messages" => Cardinality(Breakpoints) <= 4)
       THEN EndHistory /\ UNCHANGED requestVars
       ELSE Refuse("invalid_tools")

----------------------------------------------------------------------------
(* Preparing the request.                                                  *)

Spans(locations) == {l \in locations : l.leaf \in Private}

\* mutant: two spellings of one value are told apart
AmbiguousNever(spans) == FALSE

(* An exact edit needs the spelling its text has, and a placeholder stands *)
(* for all of them.                                                        *)
Ambiguous(spans) ==
    \E l, m \in spans : Canonical[l.leaf] = Canonical[m.leaf] /\ l.leaf # m.leaf

(* prepare: the size, the spellings, the policy, the structure.            *)
Prepare ==
    /\ intake = "parsed"
    /\ \E action \in {"allow", "transform", "route_local", "block"} :
        LET spans == Spans(Locations) IN
        IF \/ Cardinality(Locations) > MaxLocations
           \/ Declared # <<>> /\ Ambiguous(spans)
           \/ \E l \in spans : l.structural
           \/ action = "block"
        THEN Refuse("refused")
        ELSE /\ Becomes("replacing") /\ decision' = action /\ outbound' = payload
             /\ todo' = IF action = "allow" THEN {} ELSE spans
             /\ UNCHANGED <<protocol, payload, minted>>

(* TokenMinter.mint: the placeholder of a value's canonical form, which    *)
(* stands for its first spelling in this request.                          *)
MintedFor(l) == [c \in DOMAIN minted \cup {Canonical[l.leaf]} |->
                    IF c \in DOMAIN minted THEN minted[c] ELSE l.leaf]

(* TransformationEngine.transform on one location, and replace_location.   *)
Replaced(l) == Put(outbound, l.path, Tok(Canonical[l.leaf]))

ReplaceLocation ==
    /\ intake = "replacing"
    /\ \E l \in todo :
        /\ todo' = todo \ {l}
        /\ minted' = MintedFor(l)
        /\ outbound' = Replaced(l)
    /\ UNCHANGED <<historyVars, protocol, payload, decision>>

Send == intake = "replacing" /\ todo = {} /\ Becomes("sent") /\ UNCHANGED requestVars

ContractNext ==
    \/ ReadBody
    \/ ReadEntry /\ UNCHANGED requestVars
    \/ CheckRequest
    \/ Prepare
    \/ ReplaceLocation
    \/ Send

----------------------------------------------------------------------------
(* Properties.                                                             *)

(* The numbers that are settings of the request, not values of the client. *)
IsSetting(path) ==
    path[Len(path)] \in {"max_tokens", "max_output_tokens", "temperature", "top_p"} \cup TurnCounts

(* Where a path leads, told from the names on it: a place with text, free  *)
(* JSON that a tool wrote or a schema gives as an example, a schema, the   *)
(* name of a part of it, or something that is fixed by its meaning.        *)
TextFields == {"text", "content", "output", "instructions", "system", "refusal", "description"}
InSchema(k) ==
    CASE k \in {"title", "description", "$comment"} -> "text"
      [] k = "examples" -> "free"
      [] k \in {"properties", "patternProperties", "$defs", "allOf", "anyOf", "oneOf"} -> "names"
      [] k \in {"items", "additionalProperties", "not", "if"} -> "schema"
      [] OTHER -> "fixed"
InBody(k) ==
    CASE k \in {"parameters", "input_schema", "schema"} -> "schema"
      [] k \in {"client_metadata", "metadata", "tool_choice"} -> "fixed"
      [] k \in {"arguments", "stop_sequences"} -> "free"
      [] k = "input" -> "input"
      [] k \in TextFields -> "text"
      [] OTHER -> "body"
Enters(place, j, k) ==
    CASE place \in {"free", "fixed"} -> place
      [] place = "names" -> "schema"
      [] Kind(j) # "obj" -> "body"
      [] place = "input" -> "free"
      [] place = "schema" -> InSchema(k)
      [] OTHER -> InBody(k)
WhereLeads(j, path) ==
    LET place[n \in 0 .. Len(path)] ==
            IF n = 0 THEN "body" ELSE Enters(place[n - 1], Along(j, path)[n - 1], path[n])
    IN place[Len(path)]

(* What is sent under a policy that replaces values holds no private value *)
(* in any string, key or number outside of the settings, however deep and  *)
(* however encoded.  Under one that allows them they stand in texts, in    *)
(* the JSON of a tool and in the examples of a schema: never in a key, nor *)
(* in a number, an identifier, an attribution or any other part of a       *)
(* schema ("Keys, enum/default values, patterns, types and references      *)
(* affect validation and must remain identical", protocols/base.py).       *)
NothingPrivateLeaves ==
    intake = "sent" =>
        \A l \in Leaves(outbound) : l[2] \in Private =>
            \/ Kind(l[2]) = "num" /\ IsSetting(l[1])
            \/ /\ decision = "allow" /\ Kind(l[2]) = "str" /\ l \in ScalarsOf(outbound)
               /\ WhereLeads(outbound, l[1]) \in {"text", "input", "free"}

(* What is sent differs from what was parsed only where a private text was *)
(* replaced by the placeholder of its value, and in a request with tools   *)
(* that placeholder restores to the very spelling that stood there, so an  *)
(* edit of the restored text still matches the file.                       *)
OnlyContentChanges ==
    intake = "sent" =>
        LET before == Leaves(payload)
            after == Leaves(outbound)
            stands(l) == <<l[1], Tok(Canonical[l[2]])>> IN
        /\ \A l \in before \ after : l[2] \in Private /\ stands(l) \in after
        /\ \A l \in after \ before : \E m \in before :
            /\ m[2] \in Private /\ l = stands(m)
            /\ Declared # <<>> => minted[Canonical[m[2]]] = m[2]
=============================================================================
