--------------------------- MODULE AgentExchange ---------------------------
(***************************************************************************)
(* One exchange of an agent with its provider, from the request's body to  *)
(* what the agent receives (AgentRuntime.prepare, complete and stream in   *)
(* gateway/api/agent_runtime.py).                                          *)
(*                                                                         *)
(* The request goes through RequestContracts.  What is sent decides how    *)
(* the answer comes: as one document (AgentAnswer) or as a stream of       *)
(* frames (SseFrames, whose events StreamRestoration restores).            *)
(***************************************************************************)
EXTENDS AgentAnswer, SseFrames
LOCAL INSTANCE SequencesExt
LOCAL INSTANCE Functions

CONSTANT ValueTexts     \* the texts that a private value may be

exchangeVars == <<contractVars, answerVars, sseVars>>

ExchangeInit == ContractInit /\ AnswerInit /\ SseInit

(* prepare, after inspection: the client's attribution stays here.         *)
Dispatched ==
    Obj([k \in DOMAIN Of(outbound) \ {"client_metadata", "metadata"} |->
            IF k = "prompt_cache_key" THEN Str("scoped") ELSE At(outbound, k)])

Streams == Get(outbound, "stream", Flag(FALSE)) = Flag(TRUE)

(* The request is over for this module's purposes.                         *)
RequestIsSent ==
    /\ Forget /\ protocol' = "responses" /\ payload' = Null
    /\ decision' = "none" /\ todo' = {} /\ outbound' = Null /\ minted' = <<>>

(* complete.                                                               *)
Complete ==
    /\ RequestIsSent /\ ~Streams /\ Binds(protocol, Dispatched)
    /\ \E provenance \in [DOMAIN minted -> ValueTexts] : Ask(protocol, Dispatched, provenance)
    /\ UNCHANGED sseVars

(* stream.                                                                 *)
Stream ==
    /\ RequestIsSent /\ Streams /\ Binds(protocol, Dispatched)
    /\ SseOpen /\ UNCHANGED answerVars

(* unsupported_tool_schema and its like.                                   *)
RefuseRequest ==
    /\ RequestIsSent /\ ~Binds(protocol, Dispatched)
    /\ RefuseTools /\ UNCHANGED sseVars

ExchangeNext ==
    \/ exchange = "none" /\ parser = "idle" /\ ContractNext /\ UNCHANGED <<answerVars, sseVars>>
    \/ Complete
    \/ Stream
    \/ RefuseRequest
    \/ AnswerNext /\ UNCHANGED <<contractVars, sseVars>>
    \/ SseNext /\ UNCHANGED <<contractVars, answerVars>>

ExchangeSpec == ExchangeInit /\ [][ExchangeNext]_exchangeVars

----------------------------------------------------------------------------
(* Properties of what the agent receives.                                  *)

DeliveredCalls == CallsOf(dialect, answer)
WrittenCalls == CallsOf(dialect, written)

(* The texts of a call; some fields hold a control word instead.           *)
ControlWords == {"status", "sandbox_permissions", "shell", "output_mode", "type", "chars"}
ControlPaths(j) ==
    UNION {{Append(n[1], k) : k \in ControlWords \cap DOMAIN Of(n[2])} : n \in {n \in Nodes(j) : Kind(n[2]) = "obj"}}
TextNodes(j) == {n \in Nodes(j) : Kind(n[2]) = "str" /\ n[1] \notin ControlPaths(j)}
TextsOf(call) == {Of(n[2]) : n \in TextNodes(call.arguments)}
FieldOf(call, k) == Of(Of(Of(call.arguments))[k])
HasField(call, k) == Kind(call.arguments) = "enc" /\ k \in DOMAIN Of(Of(call.arguments))

IsPatch(call) == call.name = "apply_patch"
PatchText(call) == IF call.custom THEN Of(call.arguments) ELSE FieldOf(call, "patch")
IsCommand(call) == call.name \in DOMAIN CommandField
CommandText(call) == FieldOf(call, CommandField[call.name])
RolesOf(call) == CommandPlan(CommandText(call)).slots

(* The text that is made of restored values and of a search pattern around *)
(* them: "<E" before a value that begins like a version is no placeholder. *)
PatternOf(call) ==
    IF call.name = "Grep" THEN {FieldOf(call, "pattern")}
    ELSE IF IsCommand(call) /\ Range(Head(WordsOf(CommandText(call)))) \subseteq Searches
    THEN {CommandText(call)} ELSE {}

(* A call that is delivered is complete and within its limits: every value *)
(* it names is in its place and no placeholder is left in any of its       *)
(* texts, nor what looks like one outside of the pattern of a search,      *)
(* though the values of all calls and of the prose share one budget and    *)
(* the JSON around them counts too.                                        *)
CallsAreBounded ==
    /\ DOMAIN DeliveredCalls = DOMAIN WrittenCalls /\ BytesOf(answer) <= MaxAnswerBytes
    /\ \A i \in DOMAIN DeliveredCalls : BytesOf(DeliveredCalls[i].arguments) <= MaxToolBytes
EachCallIsWhole ==
    exchange = "delivered" =>
        /\ CallsAreBounded
        /\ \A i \in DOMAIN DeliveredCalls : \A text \in TextsOf(DeliveredCalls[i]) :
            /\ ~Holds(text, Placeholders)
            /\ text \in PatternOf(DeliveredCalls[i]) \/ ~Lookalike(text)

(* An answer is delivered only with calls that the request asked for: of   *)
(* tools it declared, as many as it admits, the one it selected, and with  *)
(* arguments that satisfy the declared schema after their values have been *)
(* restored.                                                               *)
BatchAsDeclared ==
    exchange = "delivered" =>
        LET calls == DeliveredCalls
            tools == ToolsOf(asked)
            choice == Get(asked, "tool_choice", Str("auto"))
            word == IF Kind(choice) = "str" THEN Of(choice)
                    ELSE IF dialect = "messages" THEN Name(choice, "type") ELSE "tool"
            atMost(n) == Cardinality(DOMAIN calls) <= n IN
        /\ \A c \in DOMAIN calls : \E t \in DOMAIN tools :
            /\ Name(tools[t], "name") = calls[c].name
            /\ calls[c].custom <=> dialect = "responses" /\ Name(tools[t], "type") = "custom"
            /\ calls[c].custom \/ SchemaMatches(At(tools[t], SchemaKey[dialect]), Of(calls[c].arguments))
            /\ word = "tool" /\ Kind(choice) # "str" => calls[c].name = Name(choice, "name")
        /\ word = "none" => DOMAIN calls = {}
        /\ word \in {"required", "any", "tool"} => DOMAIN calls # {}
        /\ dialect = "responses" =>
            /\ Get(asked, "parallel_tool_calls", Flag(TRUE)) = Flag(FALSE) => atMost(1)
            /\ Has(asked, "max_tool_calls") => atMost(Name(asked, "max_tool_calls"))
        /\ dialect = "messages" /\ Kind(choice) = "obj" =>
            (Get(choice, "disable_parallel_tool_use", Flag(FALSE)) = Flag(TRUE) => atMost(1))

(* The operators of a regular expression that are not escaped, in order.   *)
OperatorsOf(text) ==
    FoldLeft(LAMBDA s, c :
                IF s.escaped THEN [s EXCEPT !.escaped = FALSE]
                ELSE IF c = "\\" THEN [s EXCEPT !.escaped = TRUE]
                ELSE [s EXCEPT !.found = IF c \in {"*", ".", "{", "}"} THEN Append(@, c) ELSE @],
             [escaped |-> FALSE, found |-> <<>>], text).found
WildcardsOf(text) == SelectSeq(text, LAMBDA c : c \in {"*", "{", "}", "!"})

SameCommand(w, d) ==
    LET before == WordsOf(CommandText(w))
        after == WordsOf(CommandText(d))
        roles == RolesOf(w) IN
    /\ Len(before) = Len(after)
    /\ \A i \in DOMAIN before :
        /\ ~Holds(before[i], Placeholders) => after[i] = before[i]
        /\ Begins(after[i], Dashes) /\ Holds(before[i], Placeholders) =>
                roles[i].role \in {"content", "regex", "fixed", "glob"}
        /\ roles[i].role \in {"regex", "pattern"} => OperatorsOf(after[i]) = OperatorsOf(before[i])
        /\ roles[i].role = "glob" => WildcardsOf(after[i]) = WildcardsOf(before[i])

(* What a delivered call does is what the provider wrote: the same files,  *)
(* hunks and lines of a patch, the same program with the same flags and    *)
(* arguments, the same operators of a pattern.  A restored value fills its *)
(* place and cannot become a header, an option, a command or a wildcard.   *)
(* (A comma between the braces of a glob is the exception: see README.)    *)
StructureIsAuthored ==
    exchange = "delivered" => \A i \in DOMAIN DeliveredCalls :
        LET w == WrittenCalls[i]
            d == DeliveredCalls[i]
            heads(lines) == [k \in DOMAIN lines |-> Head(lines[k])]
            shape(c) == {<<n[1], IF n \in TextNodes(c.arguments) THEN "text" ELSE Kind(n[2])>> :
                            n \in Nodes(c.arguments)}
        IN /\ shape(w) = shape(d)
           /\ IsPatch(w) => heads(Lines(PatchText(d))) = heads(Lines(PatchText(w)))
           /\ IsCommand(w) => SameCommand(w, d)
           /\ w.name = "Grep" => OperatorsOf(FieldOf(d, "pattern")) = OperatorsOf(FieldOf(w, "pattern"))
           /\ w.name = "Glob" => WildcardsOf(FieldOf(d, "pattern")) = WildcardsOf(FieldOf(w, "pattern"))
           /\ HasField(w, "glob") => WildcardsOf(FieldOf(d, "glob")) = WildcardsOf(FieldOf(w, "glob"))

(* The paths that a delivered call names, resolved where they are used.    *)
PathsNamed(w, d) ==
    LET cwd == IF IsCommand(d) THEN DirectoryOf(Of(d.arguments), <<>>) ELSE Workspace
        words == WordsOf(CommandText(d))
        headers == SelectSeq(Lines(PatchText(d)), LAMBDA l : Head(l) \in FileHeaders \cup {"*** Move to: "}) IN
    IF IsPatch(d) THEN [k \in DOMAIN headers |-> Resolved(Workspace, Tail(headers[k]))]
    ELSE IF IsCommand(d)
    THEN LET places == SetToSeq({k \in DOMAIN words : RolesOf(w)[k].role = "path"})
         IN [k \in DOMAIN places |-> Resolved(cwd, words[places[k]])]
    ELSE IF \E k \in {"path", "file_path"} : HasField(d, k)
    THEN <<Resolved(Workspace, FieldOf(d, IF HasField(d, "path") THEN "path" ELSE "file_path"))>>
    ELSE <<>>

(* Every file that a delivered call names lies in the workspace, through   *)
(* links and from the directory of the call, and a patch names none twice, *)
(* in whatever spelling.                                                   *)
CallsStayLocal ==
    exchange = "delivered" => \A i \in DOMAIN DeliveredCalls :
        LET paths == PathsNamed(WrittenCalls[i], DeliveredCalls[i]) IN
        /\ \A k \in DOMAIN paths : IsPrefix(Workspace, paths[k])
        /\ IsPatch(DeliveredCalls[i]) => IsInjective(paths)
=============================================================================
