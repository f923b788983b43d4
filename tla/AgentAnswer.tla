---------------------------- MODULE AgentAnswer ----------------------------
(***************************************************************************)
(* A buffered answer of a native provider: its shape, its agreement with   *)
(* the request and its restoration, prose and calls one after the other    *)
(* (gateway/streaming/protocols.py, _usage to restore_response; the        *)
(* registry is ToolCalls).                                                 *)
(*                                                                         *)
(* In an answer an identifier is a string and a text a sequence of atoms.  *)
(***************************************************************************)
EXTENDS RequestContracts, ToolCalls
LOCAL INSTANCE SequencesExt
LOCAL INSTANCE FiniteSetsExt
LOCAL INSTANCE Functions

CONSTANTS
    Answers,        \* the answers providers give, per protocol
    MaxItems,       \* MAX_ITEMS
    MaxAnswerBytes  \* agent_max_output_bytes

VARIABLES
    exchange,       \* how far the answer is
    dialect,        \* "responses" or "messages"
    asked,          \* expected_request: what was sent
    bound,          \* the BoundToolRegistry of the request
    values,         \* TokenProvenance: what each placeholder stands for
    written,        \* the provider's answer
    answer,         \* the same, restored as far as part
    part,           \* the place of the last part restored
    contentBytes    \* content_bytes

answerVars == <<exchange, dialect, asked, bound, values, written, answer, part, contentBytes>>

----------------------------------------------------------------------------
(* The shape of an answer.                                                 *)

Count == Integer(0, 1000)
Counts(names) == Nullable(Record([n \in names |-> Count], {}))
Absent == Exactly(Null)
NothingIn == OneOf(<<Absent, EmptyArray>>)

(* _usage.                                                                 *)
Usage == [
    responses |-> Record(
        [n \in {"input_tokens", "output_tokens", "total_tokens"} |-> Count]
        @@ [codex_rollout_budget_units |-> Nullable(Count),
            input_tokens_details |-> Counts({"cached_tokens", "cache_write_tokens"}),
            output_tokens_details |-> Counts({"reasoning_tokens"})], {}),
    messages |-> Record(
        [n \in {"input_tokens", "output_tokens"} |-> Count]
        @@ [cache_read_input_tokens |-> Nullable(Count),
            cache_creation |-> Counts({"ephemeral_5m_input_tokens", "ephemeral_1h_input_tokens"}),
            server_tool_use |-> Counts({"web_search_requests", "web_fetch_requests"}),
            service_tier |-> Nullable(Choice({"standard", "priority", "batch"})),
            inference_geo |-> Nullable(Choice({"us", "global", "not_available"}))], {})]

(* _part.                                                                  *)
Part == OneOf(<<
    Record([type |-> Choice({"output_text"}), text |-> Text, annotations |-> EmptyArray,
            logprobs |-> NothingIn], {"type", "text"}),
    Record([type |-> Choice({"refusal"}), refusal |-> Text], {"type", "refusal"})>>)

(* _item, of an answer that is complete.                                   *)
ItemFields == [id |-> Identifier, internal_chat_message_metadata_passthrough |-> Absent]
Caller == Exactly(Obj([type |-> Str("direct")]))
CallItem(kind, field) == Record(
    ItemFields @@ field
    @@ [type |-> Choice({kind}), call_id |-> Identifier, name |-> Identifier,
        status |-> Nullable(Choice({"completed"})), namespace |-> Absent, caller |-> Nullable(Caller),
        async |-> Nullable(MustBeFalse), encrypted_function_args |-> NothingIn],
    {"id", "type", "call_id", "name"} \cup DOMAIN field)
OutputItem == OneOf(<<
    Record(ItemFields
           @@ [type |-> Choice({"message"}), role |-> Choice({"assistant"}), content |-> List(Part),
               phase |-> Nullable(Choice({"commentary", "final_answer"})), status |-> Choice({"completed"})],
           {"id", "type", "role", "content"}),
    CallItem("function_call", [arguments |-> Text]),
    CallItem("custom_tool_call", [input |-> Text]),
    Record(ItemFields
           @@ [type |-> Choice({"reasoning"}), summary |-> EmptyArray, content |-> NothingIn,
               encrypted_content |-> Absent, status |-> Nullable(Choice({"completed"}))],
           {"id", "type", "summary"})>>)

(* _response: the echoes of the request are read by its own parser.        *)
Echoes == {"instructions", "tools", "tool_choice", "text"}
ResponseAnswer == Record(
    [n \in {"error", "incomplete_details", "previous_response_id", "conversation", "prompt",
            "moderation", "usage_metadata"} |-> Absent]
    @@ [n \in {"user", "safety_identifier", "prompt_cache_key"} |-> Nullable(AnyString)]
    @@ [n \in Echoes |-> Nullable(ResponsesRequest.of[n])]
    @@ [n \in {"max_output_tokens", "max_tool_calls"} |-> Nullable(Integer(1, 1000))]
    @@ [id |-> Identifier, object |-> Choice({"response"}), status |-> Choice({"completed"}),
        created_at |-> Count, completed_at |-> Nullable(Count), model |-> Identifier,
        usage |-> Nullable(Usage["responses"]), output |-> List(OutputItem),
        end_turn |-> Nullable(Boolean), parallel_tool_calls |-> Boolean,
        store |-> MustBeFalse, background |-> Nullable(MustBeFalse),
        temperature |-> Nullable(Integer(0, 2)), top_p |-> Nullable(Integer(0, 1)),
        service_tier |-> Nullable(Choice({"auto", "default", "flex"})),
        truncation |-> Nullable(Choice({"disabled", "auto"})),
        metadata |-> Nullable(MapOf(AnyString)), top_logprobs |-> Nullable(Integer(0, 20)),
        reasoning |-> Nullable(Record([effort |-> Nullable(Efforts),
                                       summary |-> Nullable(Choice({"auto", "concise"}))], {}))],
    {"id", "output", "status"})

(* _block, _stop and _message.                                             *)
Block == OneOf(<<
    Record([type |-> Choice({"text"}), text |-> Text, citations |-> NothingIn], {"type", "text"}),
    Record([type |-> Choice({"tool_use"}), id |-> Identifier, name |-> Identifier,
            input |-> MapOf(Anything(FALSE)), caller |-> Nullable(Caller), toolset_name |-> Absent],
           {"type", "id", "name", "input"})>>)
MessageAnswer == Record(
    [id |-> Identifier, type |-> Choice({"message"}), role |-> Choice({"assistant"}),
     model |-> Identifier, content |-> List(Block), usage |-> Usage["messages"],
     stop_reason |-> Choice({"end_turn", "tool_use", "max_tokens", "refusal", "stop_sequence"}),
     stop_sequence |-> Nullable(AnyString), container |-> Absent, diagnostics |-> Absent,
     stop_details |-> Nullable(Record(
        [type |-> Choice({"refusal"}), category |-> Nullable(Choice({"cyber", "bio"})),
         explanation |-> Nullable(Text)], {"type"}))],
    {"id", "type", "role", "content", "stop_reason"})

----------------------------------------------------------------------------
(* Agreement with the request.                                             *)

Given(j, k) == Has(j, k) /\ At(j, k) # Null

(* An echo that could carry content is what was sent.                      *)
IsEcho(a, request, k) == Given(a, k) => Has(request, k) /\ At(request, k) = At(a, k)
BearsContent(a, k) ==
    CASE k = "instructions" -> TRUE
      [] k = "tools" -> At(a, k) # Arr(<<>>)
      [] k = "tool_choice" -> Kind(At(a, k)) = "obj"
      [] k = "text" -> Get(At(a, k), "format", Obj([type |-> Str("text")])) # Obj([type |-> Str("text")])

OutputField(p) == IF p = "responses" THEN "output" ELSE "content"
OutputOf(p, a) == Of(At(a, OutputField(p)))
IsCall(item) == Name(item, "type") \in {"function_call", "custom_tool_call", "tool_use"}
CallPlaces(items) == {i \in DOMAIN items : IsCall(items[i])}

ResponseAgrees(a, request) ==
    LET items == OutputOf("responses", a)
        messages == {i \in DOMAIN items : Name(items[i], "type") = "message"} IN
    /\ \A k \in {"user", "safety_identifier", "prompt_cache_key"} : IsEcho(a, request, k)
    /\ \A k \in Echoes : Given(a, k) /\ BearsContent(a, k) => IsEcho(a, request, k)
    /\ Given(a, "metadata") /\ At(a, "metadata") # Obj(<<>>) => IsEcho(a, request, "metadata")
    /\ Len(items) + MapThenSumSet(LAMBDA i : Len(Of(At(items[i], "content"))), messages) <= MaxItems
    /\ IsInjective([i \in DOMAIN items |-> Name(items[i], "id")])
    /\ IsInjective([i \in CallPlaces(items) |-> Name(items[i], "call_id")])

MessageAgrees(a, request) ==
    LET blocks == OutputOf("messages", a)
        reason == Name(a, "stop_reason") IN
    /\ Given(a, "stop_sequence") <=> reason = "stop_sequence"
    /\ reason = "stop_sequence" =>
        \E i \in DOMAIN Of(Get(request, "stop_sequences", Arr(<<>>))) :
            At(request, "stop_sequences")[2][i] = At(a, "stop_sequence")
    /\ Given(a, "stop_details") => reason = "refusal"
    /\ CallPlaces(blocks) # {} => reason = "tool_use"
    /\ Len(blocks) <= MaxItems
    /\ IsInjective([i \in CallPlaces(blocks) |-> Name(blocks[i], "id")])

AnswerShape == [responses |-> ResponseAnswer, messages |-> MessageAnswer]
AnswerIsValid(p, a, request) ==
    /\ Reads(a, AnswerShape[p])
    /\ p = "responses" => ResponseAgrees(a, request)
    /\ p = "messages" => MessageAgrees(a, request)

----------------------------------------------------------------------------
(* Its calls and its parts.                                                *)

(* The call of an item: a block's input is the document itself.            *)
CallOf(item) ==
    CASE Name(item, "type") = "function_call" ->
            [name |-> Name(item, "name"), arguments |-> At(item, "arguments"), custom |-> FALSE]
      [] Name(item, "type") = "custom_tool_call" ->
            [name |-> Name(item, "name"), arguments |-> At(item, "input"), custom |-> TRUE]
      [] OTHER -> [name |-> Name(item, "name"), arguments |-> Enc(At(item, "input")), custom |-> FALSE]
CallsOf(p, a) == [i \in CallPlaces(OutputOf(p, a)) |-> CallOf(OutputOf(p, a)[i])]
CallField(item) == IF Name(item, "type") = "function_call" THEN "arguments" ELSE "input"

(* A part is at a place: that of its item and its own in the item.  The    *)
(* explanation of a refusal comes after all items.                         *)
PartsOfItem(item) ==
    CASE Name(item, "type") = "message" -> DOMAIN Of(At(item, "content"))
      [] Name(item, "type") = "reasoning" -> {}
      [] OTHER -> {1}
IsExplained(a) == Given(a, "stop_details") /\ Given(At(a, "stop_details"), "explanation")
PartsOf(p, a) ==
    LET items == OutputOf(p, a) IN
    UNION {{<<i, k>> : k \in PartsOfItem(items[i])} : i \in DOMAIN items}
    \cup (IF IsExplained(a) THEN {<<Len(items) + 1, 1>>} ELSE {})
Earlier(q, r) == q[1] < r[1] \/ (q[1] = r[1] /\ q[2] < r[2])

(* What is restored of an answer that is read lies where it is looked for. *)
IsAnswer(p, a) ==
    /\ NestsWithin(a) /\ Kind(a) = "obj" /\ OutputField(p) \in DOMAIN Of(a)
    /\ Kind(At(a, OutputField(p))) = "arr"
    /\ LET items == OutputOf(p, a) IN
       /\ items \in Seq({items[i] : i \in DOMAIN items})
       /\ \A i \in DOMAIN items : Kind(items[i]) = "obj" /\ Has(items[i], "type")
       /\ \A i \in CallPlaces(items) :
            /\ Has(items[i], "name") /\ Has(items[i], CallField(items[i]))
            /\ p = "messages" <=> Name(items[i], "type") = "tool_use"
ASSUME AnswerAssumption ==
    \A p \in DOMAIN AnswerShape : \A a \in Answers[p] : Reads(a, AnswerShape[p]) => IsAnswer(p, a)

----------------------------------------------------------------------------

AnswerInit ==
    /\ exchange = "none" /\ dialect = "responses" /\ asked = Null /\ bound = Null
    /\ values = <<>> /\ written = Null /\ answer = Null /\ part = <<0, 0>> /\ contentBytes = 0

(* prepare: the BoundToolRegistry is made of what will be sent.            *)
Ask(p, request, provenance) ==
    /\ exchange = "none"
    /\ exchange' = "asked" /\ dialect' = p /\ asked' = request
    /\ bound' = Binding(p, request) /\ values' = provenance
    /\ UNCHANGED <<written, answer, part, contentBytes>>

(* Tools that cannot be bound refuse the request.                          *)
RefuseTools ==
    /\ exchange = "none" /\ exchange' = "refused"
    /\ UNCHANGED <<dialect, asked, bound, values, written, answer, part, contentBytes>>

Fail ==
    /\ exchange' = "failed"
    /\ UNCHANGED <<dialect, asked, bound, values, written, answer, part, contentBytes>>

(* restore_response up to validate_batch.                                  *)
ReadAnswer ==
    /\ exchange = "asked"
    /\ \E a \in Answers[dialect] :
        IF /\ WithinLimits(a) /\ AnswerIsValid(dialect, a, asked) /\ BytesOf(a) <= MaxAnswerBytes
           /\ BatchIsValid(bound, CallsOf(dialect, a))
        THEN /\ exchange' = "restoring" /\ written' = a /\ answer' = a
             /\ UNCHANGED <<dialect, asked, bound, values, part, contentBytes>>
        ELSE Fail

(* The parts still to be restored, and the next of them.                   *)
Pending == {q \in PartsOf(dialect, written) : Earlier(part, q)}
NextParts == {q \in Pending : \A r \in Pending : r = q \/ Earlier(q, r)}
Items == OutputOf(dialect, answer)
PartsAre(kinds) == {q \in NextParts : q[1] \in DOMAIN Items /\ Name(Items[q[1]], "type") \in kinds}

(* A part takes its place in the answer.                                   *)
PutInPlace(q, changed, size) ==
    IF contentBytes + size > MaxAnswerBytes THEN Fail
    ELSE /\ answer' = changed /\ part' = q /\ contentBytes' = contentBytes + size
         /\ UNCHANGED <<exchange, dialect, asked, bound, values, written>>
WithItem(i, item) == With(answer, OutputField(dialect), With(At(answer, OutputField(dialect)), i, item))

(* Prose: a placeholder that is not known stays as it is.                  *)
Prose(j, k) == Restored(Name(j, k), values)
WithProse(j, k) == With(j, k, Str(Prose(j, k)))

RestoreMessage ==
    /\ exchange = "restoring"
    /\ \E q \in PartsAre({"message"}) :
           LET item == Items[q[1]]
               block == Of(At(item, "content"))[q[2]]
               field == IF Name(block, "type") = "refusal" THEN "refusal" ELSE "text"
           IN PutInPlace(q, WithItem(q[1], With(item, "content",
                               With(At(item, "content"), q[2], WithProse(block, field)))),
                         Len(Prose(block, field)))

RestoreText ==
    /\ exchange = "restoring"
    /\ \E q \in PartsAre({"text"}) :
           PutInPlace(q, WithItem(q[1], WithProse(Items[q[1]], "text")), Len(Prose(Items[q[1]], "text")))

RestoreExplanation ==
    /\ exchange = "restoring"
    /\ \E q \in NextParts :
           /\ q[1] \notin DOMAIN Items
           /\ LET details == At(answer, "stop_details") IN
              PutInPlace(q, With(answer, "stop_details", WithProse(details, "explanation")),
                         Len(Prose(details, "explanation")))

(* _restore_tool: one call that cannot be restored fails the answer.       *)
RestoreCall ==
    /\ exchange = "restoring"
    /\ \E q \in PartsAre({"function_call", "custom_tool_call", "tool_use"}) :
       \E call \in {CallOf(Items[q[1]])} : \E plan \in {PlanOf(call)} :
           \/ ~plan.ok /\ Fail
           \/ plan.ok /\ \E restored \in {RestoredArguments(call, plan, values)} :
               IF CallRestores(bound, call, plan, restored, values)
               THEN PutInPlace(q, WithItem(q[1], With(Items[q[1]], CallField(Items[q[1]]),
                                       IF dialect = "messages" THEN Of(restored) ELSE restored)),
                               BytesOf(restored))
               ELSE Fail

Deliver ==
    /\ exchange = "restoring" /\ Pending = {}
    /\ IF BytesOf(answer) <= MaxAnswerBytes
       THEN /\ exchange' = "delivered"
            /\ UNCHANGED <<dialect, asked, bound, values, written, answer, part, contentBytes>>
       ELSE Fail

AnswerNext ==
    ReadAnswer \/ RestoreMessage \/ RestoreText \/ RestoreExplanation \/ RestoreCall \/ Deliver
=============================================================================
