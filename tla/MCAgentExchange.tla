-------------------------- MODULE MCAgentExchange --------------------------
EXTENDS AgentExchange, JsonReaders, ToolSchemas
LOCAL INSTANCE SequencesExt
LOCAL INSTANCE FiniteSetsExt

----------------------------------------------------------------------------
(* Requests.  "Bob" and "BOB" are two spellings of one private value, 555  *)
(* is a private number.                                                    *)

MCPrivate == {Str("Bob"), Str("BOB"), Num(555)}
MCCanonical == [l \in MCPrivate |-> IF l = Num(555) THEN "555" ELSE "bob"]
MCFreeText == {"two words", "Bob B"}
MCRemote == {"http:x"}

Upto(S, n) == UNION {[1 .. k -> S] : k \in 1 .. n}

Say(text) == Obj([role |-> Str("user"), content |-> text])
Call(kind, c) == Obj(
    IF kind = "function_call"
    THEN [type |-> Str(kind), call_id |-> Str(c), name |-> Str("Edit"), arguments |-> Enc(Obj(<<>>))]
    ELSE [type |-> Str(kind), call_id |-> Str(c), name |-> Str("apply_patch"), input |-> Str("p")])
Output(kind, c) == Obj([type |-> Str(kind), call_id |-> Str(c), output |-> Str("done")])
ItemChoices ==
    {Call("function_call", "c1"), Call("custom_tool_call", "c1"), Call("custom_tool_call", "c2"),
     Output("function_call_output", "c1"), Output("custom_tool_call_output", "c1"),
     Obj([role |-> Str("user"), content |-> Str("plain"), id |-> Str("i1")])}
ResponsesHistories ==
    {Obj([model |-> Str("m"), input |-> Arr(q)]) : q \in Upto(ItemChoices, 4)}

Use(c) == Obj([type |-> Str("tool_use"), id |-> Str(c), name |-> Str("Edit"), input |-> Obj(<<>>)])
Result(c) == Obj([type |-> Str("tool_result"), tool_use_id |-> Str(c), content |-> Str("done")])
By(role, blocks) == Obj([role |-> Str(role), content |-> Arr(blocks)])
TurnChoices ==
    {By("assistant", <<Use("c1")>>), By("assistant", <<Use("c1"), Use("c2")>>),
     By("user", <<Result("c1")>>), By("user", <<Result("c2"), Result("c1")>>),
     By("user", <<Use("c1")>>)}
MessagesHistories ==
    {Obj([model |-> Str("m"), max_tokens |-> Num(7), messages |-> Arr(q)]) : q \in Upto(TurnChoices, 4)}

(* Every kind of place, with a value of its own.                           *)
Holes == {"instructions", "said", "argument", "nested", "output", "described", "listed", "titled", "attribution"}
NumberHoles == {"amount", "window", "limit"}
Fillings ==
    {f \in [Holes -> {Str("plain"), Str("Bob"), Str("BOB")}] :
        Cardinality({h \in Holes : f[h] # Str("plain")}) <= 2}
ResponsesDocument(tools, f, n, key) == Obj(
    [model |-> Str("m"), instructions |-> f["instructions"], max_output_tokens |-> n["limit"],
     input |-> Arr(<<
        Say(Arr(<<Obj([type |-> Str("input_text"), text |-> f["said"]])>>)),
        Obj([type |-> Str("function_call"), call_id |-> Str("c1"), name |-> Str("Edit"),
             arguments |-> Enc(Obj([old |-> f["argument"], amount |-> n["amount"],
                                    more |-> Arr(<<Obj(key :> f["nested"])>>)]))]),
        Obj([type |-> Str("function_call_output"), call_id |-> Str("c1"), output |-> f["output"]])>>),
     client_metadata |-> Obj("x-codex-turn-metadata" :>
        Enc(Obj([agent_name |-> f["attribution"], window_number |-> n["window"]])))]
    @@ IF tools
       THEN [tools |-> Arr(<<Obj(
        [type |-> Str("function"), name |-> Str("Edit"), description |-> f["described"],
         parameters |-> Obj([type |-> Str("object"), properties |-> Obj(
            [old |-> Obj([enum |-> Arr(<<f["listed"], Obj([title |-> f["titled"]])>>),
                          examples |-> Arr(<<Obj([enum |-> f["described"]])>>)])])])])>>)]
       ELSE <<>>)
PlainNumbers == [h \in NumberHoles |-> Num(7)]
ResponsesDocuments ==
    {ResponsesDocument(t, f, PlainNumbers, "k") : t \in BOOLEAN, f \in Fillings}
    \cup {ResponsesDocument(TRUE, [h \in Holes |-> Str("plain")], n, k) :
            n \in [NumberHoles -> {Num(7), Num(555)}], k \in {"k", "Bob"}}

MessagesDocument(said, used, result) == Obj(
    [model |-> Str("m"), max_tokens |-> Num(555), stream |-> Flag(TRUE),
     system |-> Arr(<<Obj([type |-> Str("text"), text |-> said])>>),
     messages |-> Arr(<<
        By("assistant", <<Obj([type |-> Str("tool_use"), id |-> Str("c1"), name |-> Str("Edit"),
                               input |-> Obj([old |-> used, few |-> Num(7)])])>>),
        By("user", <<Obj([type |-> Str("tool_result"), tool_use_id |-> Str("c1"),
                          content |-> result])>>)>>),
     tools |-> Arr(<<Obj([name |-> Str("Edit"), input_schema |-> Obj(<<>>)])>>)])
MessagesDocuments ==
    {MessagesDocument(a, b, c) : a, b, c \in {Str("plain"), Str("Bob"), Str("BOB")}}

(* Bodies that are refused, each for a reason of its own.                  *)
Basic == [model |-> Str("m"), input |-> Str("plain")]
Tool(kind, n) == Obj([type |-> Str(kind), name |-> Str(n)] @@
                     IF kind = "function" THEN [parameters |-> Flag(TRUE)] ELSE <<>>)
CachedBlock == Obj([type |-> Str("text"), text |-> Str("plain"),
                    cache_control |-> Obj([type |-> Str("ephemeral")])])
OddResponses ==
    {Obj(more @@ Basic) : more \in
        {[previous_response_id |-> Str("r")], [store |-> Flag(TRUE)], [store |-> Flag(FALSE)],
         [top_p |-> Num(2)], [input |-> Arr(<<>>)],
         [input |-> Arr(<<Obj([type |-> Str("reasoning"), summary |-> Arr(<<>>),
                               encrypted_content |-> Str("sealed")])>>)],
         [input |-> Arr(<<Say(Arr(<<Obj([type |-> Str("input_image")])>>))>>)],
         [input |-> Arr(<<Obj([Of(Call("function_call", "c1")) EXCEPT !.arguments = Enc(Str("x"))])>>)],
         [input |-> Arr([i \in 1 .. 11 |-> Say(Str("plain"))])],
         [tools |-> Arr(<<Tool("function", "Edit"), Tool("custom", "Edit")>>)],
         [tools |-> Arr(<<Tool("custom", "Edit")>>),
          tool_choice |-> Obj([type |-> Str("function"), name |-> Str("Edit")])],
         [tools |-> Arr(<<Tool("custom", "apply_patch")>>),
          tool_choice |-> Obj([type |-> Str("custom"), name |-> Str("apply_patch")])]}}
OddMessages ==
    {Obj([model |-> Str("m"), max_tokens |-> Num(7),
          messages |-> Arr(<<By("user", [i \in 1 .. n |-> CachedBlock])>>)]) : n \in {4, 5}}
    \cup {Obj([model |-> Str("m"), max_tokens |-> Num(7), container |-> Str("x"),
               messages |-> Arr(<<Say(Str("plain"))>>)])}

(* Requests that declare tools, and one private value.                     *)
Offer(tools, more) ==
    Obj(more @@ [model |-> Str("m"), input |-> Str("plain"), instructions |-> Str("Bob"), tools |-> Arr(tools)])
Function(n, schema) == Obj([type |-> Str("function"), name |-> Str(n), parameters |-> schema])
Custom(n) == Obj([type |-> Str("custom"), name |-> Str(n)])
ObjectWith(more) == Obj([type |-> Str("object")] @@ more)
Properties(f) == ObjectWith([properties |-> Obj(f)])
Typed(t) == Obj([type |-> Str(t)])
EditSchema == Obj(
    [type |-> Str("object"), additionalProperties |-> Flag(FALSE),
     required |-> Arr(<<Str("old_string")>>),
     properties |-> Obj([file_path |-> Typed("string"), replace_all |-> Typed("boolean"),
                         old_string |-> Obj([enum |-> Arr(<<Str("a"), Str("f")>>)]),
                         new_string |-> Obj([type |-> Str("string"), minLength |-> Num(1), maxLength |-> Num(2)])])])
ReadSchema == Obj(
    [properties |-> Obj([offset |-> Obj([type |-> Arr(<<Str("integer"), Str("number")>>), exclusiveMinimum |-> Num(0),
                                         maximum |-> Num(9)])]),
     oneOf |-> Arr(<<ObjectWith([required |-> Arr(<<Str("offset")>>)]), ObjectWith([maxProperties |-> Num(1)])>>)])
TodoSchema == Properties([todos |-> Obj([type |-> Str("array"), minItems |-> Num(1), uniqueItems |-> Flag(TRUE),
                                         items |-> Typed("object")])])
Everything ==
    <<Function("Read", ReadSchema), Function("Edit", Flag(TRUE)), Function("Write", Typed("object")),
      Function("exec_command", Flag(TRUE)), Function("Grep", Flag(TRUE)), Function("Glob", Flag(TRUE)),
      Function("write_stdin", Flag(TRUE)), Function("TodoWrite", TodoSchema),
      Function("Bash", Properties([command |-> Typed("string"), timeout |-> Typed("integer")]))>>
Nested(n) == LET a[k \in 0 .. n] == IF k = 0 THEN Str("a") ELSE Arr(<<a[k - 1]>>) IN a[n]
Names(n) == Arr([i \in 1 .. n |-> Str("n" \o ToString(i))])
ChooseTool(kind, n) == Obj([type |-> Str(kind), name |-> Str(n)])
ToolOffers ==
    {Offer(Everything, <<>>), Offer(<<Custom("apply_patch")>>, [tool_choice |-> Str("required")]),
     Offer(<<Function("apply_patch", Flag(TRUE))>>, [parallel_tool_calls |-> Flag(FALSE)]),
     Offer(<<Function("Edit", EditSchema), Custom("apply_patch")>>,
           [tool_choice |-> ChooseTool("function", "Edit"), max_tool_calls |-> Num(1)]),
     Offer(<<Function("Read", Flag(TRUE))>>, [tool_choice |-> Str("none")]),
     Offer(<<Function("Read", Flag(TRUE))>>, [max_tool_calls |-> Num(3)]),
     Offer(Append(Everything, Custom("apply_patch")), <<>>)}
    \cup {Offer(<<Function("Read", s)>>, <<>>) : s \in
        {Properties([mode |-> Flag(TRUE)]), Properties([offset |-> Obj([type |-> Arr(<<Str("integer"), Str("null")>>)])]), Typed("array"),
         Properties([offset |-> Obj([pattern |-> Str("x")])]), ObjectWith([required |-> Arr(<<Str("mode")>>)]),
         ObjectWith([anyOf |-> Arr(<<Properties([offset |-> Obj([minimum |-> Num(0)])]), Flag(FALSE)>>)]),
         Properties([offset |-> Properties([offset |-> Properties([offset |-> Flag(TRUE)])])]),
         Obj([type |-> Arr(<<Str("object"), Str("object")>>)]), Obj([type |-> Arr(<<>>)]), Typed("function"),
         Obj("$schema" :> Str(Draft)), Obj("$schema" :> Str("other")),
         Obj([dependentRequired |-> Obj([offset |-> Arr(<<Str("limit")>>)])]),
         ObjectWith([required |-> Arr(<<Str("offset"), Str("offset")>>)]), ObjectWith([required |-> Str("offset")]),
         Properties([file_path |-> Obj([enum |-> Names(10)])]), Properties([file_path |-> Obj([const |-> Nested(5)])])}}
    \cup {Offer(<<Function("Browse", Flag(TRUE))>>, <<>>), Offer(<<Custom("Edit")>>, <<>>),
          Offer(<<>>, [tool_choice |-> Str("required")]),
          Offer(<<Function("exec_command", Properties([additional_permissions |->
                    Properties([network |-> Properties([enabled |-> Typed("string")])])]))>>, <<>>)}

MessagesOffer(tools, more) ==
    Obj(more @@ [model |-> Str("m"), max_tokens |-> Num(7), messages |-> Arr(<<Say(Str("Bob"))>>),
                 stop_sequences |-> Arr(<<Str("halt")>>), tools |-> Arr(tools)])
MessagesTools(n) == Obj([name |-> Str(n), input_schema |-> Obj(<<>>)])
Pick(kind) == [tool_choice |-> Obj([type |-> Str(kind)])]
MessagesOffers ==
    {MessagesOffer(<<MessagesTools("Read"), MessagesTools("apply_patch")>>, more) : more \in
        {<<>>, Pick("any"), Pick("none"), [tool_choice |-> ChooseTool("tool", "Read")],
         [tool_choice |-> Obj([type |-> Str("auto"), disable_parallel_tool_use |-> Flag(TRUE)])]}}

(* Many locations in a small body.                                         *)
LargeBody == Obj([model |-> Str("m"), input |-> Arr([i \in 1 .. 10 |->
    Say(Arr([j \in 1 .. 2 |-> Obj([type |-> Str("input_text"), text |-> Str("plain")])]))])])

----------------------------------------------------------------------------
(* Answers.  "bob" and "old" are placeholders: the first may be minted by  *)
(* the request, the second never is.                                       *)

MCPlaceholders == {"bob", "555", "old"}
MCValueTexts ==
    {<<"a">>, <<"a", " ", "b">>, <<"a", ",", "b">>, <<"-n">>, <<".">>, <<".", "/", "f">>, <<"alias">>,
     <<"link">>, <<"/", "etc">>, <<"*">>, <<"a", "NL", "*** Delete File: ", "f">>, <<"'", ";", "x">>,
     <<"<E">>, <<":v1">>, <<"a", "a", "a", "a", "a", "a">>}
MCWorkspace == << <<"ws">> >>
MCLinks == (<< <<"ws">>, <<"link">> >> :> << <<"etc">> >>)
           @@ (<< <<"ws">>, <<"alias">> >> :> << <<"ws">>, <<"f">> >>)

T(text) == Str(text)
Json(f) == Enc(Obj(f))
Invocation(n, f) == [name |-> n, arguments |-> Json(f), custom |-> FALSE]
FileCalls ==
    {Invocation("Read", [file_path |-> T(p)]) : p \in
        {<<"bob">>, <<"f", "/", "bob">>, <<".", "bob">>, <<"old">>, <<"<E", ":v1">>, <<"link", "/", "f">>,
         <<"/", "ws", "/", "bob">>, <<>>}}
    \cup {Invocation("Read", [file_path |-> T(<<"f">>), offset |-> Num(n)]) : n \in {0, 5}}
    \cup {Invocation("Read", [file_path |-> T(<<"f">>), limit |-> Num(0)]),
          Invocation("Read", [file_path |-> T(<<"f">>), mode |-> Num(1)]),
          Invocation("Read", "old" :> T(<<"f">>)), Invocation("Browse", <<>>),
          [name |-> "Read", arguments |-> T(<<"a">>), custom |-> FALSE],
          Invocation("Write", [file_path |-> T(<<"bob">>), content |-> T(<<"bob", "NL", "bob">>)]),
          Invocation("Write", [file_path |-> T(<<"f">>), content |-> T(<<"bob", ":v1">>)]),
          Invocation("Write", [file_path |-> T(<<"f">>), content |-> T(<<"<E", "bob", ":v1">>)])}
    \cup {Invocation("Edit", [file_path |-> T(<<"f">>), old_string |-> T(o), new_string |-> T(n)]) :
            o \in {<<"bob">>, <<"f">>}, n \in {<<"a">>, <<"bob">>, [i \in 1 .. 6 |-> "bob"]}}

Patch(lines) == <<"*** Begin Patch", "NL">>
                \o FlattenSeq([i \in DOMAIN lines |-> Append(lines[i], "NL")]) \o <<"*** End Patch">>
AddFile(p) == <<"*** Add File: ">> \o p
UpdateFile(p) == <<"*** Update File: ">> \o p
DeleteFile(p) == <<"*** Delete File: ">> \o p
PatchTexts ==
    {Patch(q) : q \in
        {<<UpdateFile(<<"bob">>), <<"@@">>, <<" ", "bob">>, <<"+", "b">>, <<"*** End of File">> >>,
         <<UpdateFile(<<"f">>), <<"*** Move to: ", "bob">>, <<"-", "a">> >>,
         <<AddFile(<<"bob">>), <<"+", "bob">>, DeleteFile(<<"f">>)>>,
         <<UpdateFile(<<"f">>), <<"@@", " ", "bob">>, <<"+", "b">> >>,
         <<AddFile(<<"f">>)>>, <<DeleteFile(<<"f">>), <<"+", "a">> >>, <<UpdateFile(<<"f">>), <<"@@">> >>,
         <<UpdateFile(<<"f">>), <<"@@">>, <<"@@">>, <<"+", "a">> >>, << <<"+", "a">> >>,
         <<UpdateFile(<<"f">>), <<"*** End of File">>, <<"+", "a">> >>, <<DeleteFile(<<".", ".", "/", "f">>)>>}}
    \cup {Patch(<<DeleteFile(<<"bob">>)>>) \o <<"NL">>, <<"a">>, <<"*** Begin Patch", "NL", "*** End Patch">>}

Run(words, more) ==
    Invocation("exec_command", more @@ [cmd |-> T(Front(FlattenSeq([i \in DOMAIN words |-> Append(words[i], " ")])))])
B == <<"bob">>
W(atom) == <<atom>>
Commands ==
    {<<W("cat"), B>>, <<W("cat"), W("-n"), W("f"), <<"'", "b", " ", "'", "bob">> >>, <<W("cat"), W("--"), B>>,
     <<W("cat"), W("-q"), W("f")>>, <<W("cat")>>, <<W("cp"), W("f"), B>>, <<W("cp"), W("f")>>,
     <<W("head"), W("-n"), W("1"), B>>, <<W("head"), W("-n"), B, W("f")>>, <<W("ls")>>, <<W("pwd")>>, <<W("pwd"), B>>,
     <<W("test"), W("-f"), B>>, <<W("test"), B>>, <<W("printf"), W("%s"), B, <<"'", "'">> >>, <<W("printf"), B>>,
     <<W("pytest"), W("-q"), B>>, <<W("rg"), W("-n"), B, B>>, <<W("rg"), <<"'", "<E", "bob", "a", "'">> >>, <<W("rg"), W("-e"), B, W("-g"), <<"'", "*", "'", "bob">> >>,
     <<W("rg"), W("-F"), B, W("f")>>, <<W("rg"), W("-F"), W("-e"), B>>, <<W("rg"), W("--files"), B>>,
     <<W("rg"), W("--files"), W("-e"), B>>, <<W("grep"), W("-m"), W("1"), <<"'", ".", "*", "'", "bob">>, W("f")>>,
     <<W("grep"), W("-g"), B>>, <<W("rg"), W("-n")>>, <<W("rg"), W("-e")>>,
     <<W("find"), W("f"), W("-name"), B, W("-maxdepth"), W("1"), W("-print")>>, <<W("find"), W("-name"), B>>,
     <<W("find"), W("f"), W("-print"), W("f")>>, <<B, W("f")>>, <<W("cat"), W(";")>>, <<W("cat"), W("'")>>,
     <<W("rm"), W("f")>>, <<W("python"), W("-m"), W("pytest"), W("-q"), B>>, <<W("python"), W("-m"), B>>, <<W("python"), B>>,
     << <<"cat", "a">>, B>>, <<W("printf"), W("%s"), <<"\"", "\\", "\"", "bob", "\\", "a", "\"">> >>,
     <<W("printf"), W("%s"), <<"\"", "\\", "$", "\"">> >>, <<W("printf"), W("%s"), <<"\"", "$", "bob", "\"">> >>,
     <<W("printf"), W("%s"), <<"'", "tick", "'", "bob">> >>, <<W("cat"), <<"\"", "f", "\\", "\"">> >>,
     <<W("rg"), <<"'", "<E", "'", "'", ":v1", "'", "bob">>, W("f")>>, <<W("cat"), <<"'", "<E", "'", "'", ":v1", "'", "bob">> >>}
Escalated == [sandbox_permissions |-> Str("require_escalated")]
Granted(p) == [sandbox_permissions |-> Str("with_additional_permissions"), additional_permissions |-> Obj(p)]
CatBob == <<W("cat"), B>>
CommandCalls ==
    {Run(c, <<>>) : c \in Commands}
    \cup {Run(CatBob, more) : more \in
        {[cwd |-> T(B)], [workdir |-> T(<<"f">>)], [cwd |-> T(B), workdir |-> T(B)], [shell |-> Str("zsh")],
         [shell |-> Str("bash"), login |-> Flag(TRUE), max_output_tokens |-> Num(1)], [max_output_tokens |-> Num(0)],
         [environment_id |-> T(<<"a">>)], [justification |-> T(<<"a">>)], Escalated,
         [justification |-> T(<<"a">>)] @@ Escalated, [justification |-> T(B)] @@ Escalated,
         [prefix_rule |-> Arr(<<T(<<"cat">>), T(<<"a">>)>>)] @@ Escalated,
         [prefix_rule |-> Arr(<<T(<<"cat">>), T(B)>>)] @@ Escalated, [prefix_rule |-> Arr(<<>>)] @@ Escalated,
         Granted([network |-> Obj([enabled |-> Flag(FALSE)])]), Granted([network |-> Obj([enabled |-> Flag(TRUE)])]),
         Granted([file_system |-> Obj([read |-> Arr(<<T(<<"/", "ws", "/", "f">>)>>)])]),
         Granted([file_system |-> Obj([write |-> Arr(<<T(<<"/", "etc">>)>>)])]),
         [sandbox_permissions |-> Str("with_additional_permissions")]}}
Shell(words, more) == Invocation("Bash", more @@ [command |-> Of(Of(Run(words, <<>>).arguments))["cmd"]])
BashCalls ==
    {Shell(c, <<>>) : c \in {CatBob, <<W("cp"), W("f"), B>>, <<W("rg"), W("-n"), B, B>>, <<W("rm"), W("f")>>}}
    \cup {Shell(CatBob, more) : more \in
        {[description |-> T(B)], [description |-> T(<<"old">>)], [cwd |-> T(B), timeout |-> Num(1)], [timeout |-> Num(0)],
         [dangerouslyDisableSandbox |-> Flag(TRUE)], [dangerouslyDisableSandbox |-> Flag(FALSE)],
         [run_in_background |-> Flag(TRUE), shell |-> Str("sh")], [workdir |-> T(<<"f">>)], [cmd |-> T(B)], Escalated}}
    \cup {Run(CatBob, [description |-> T(B)])}
OtherCalls ==
    {Invocation("Grep", [pattern |-> T(p)]) : p \in {B, <<"a", "*", "bob">>, <<"a">>, <<"<E", "bob", "a">>}}
    \cup {Invocation("Grep", [pattern |-> T(B), path |-> T(B), glob |-> T(<<"*", "bob">>), output_mode |-> Str("count"),
                              head_limit |-> Num(0), multiline |-> Flag(TRUE), type |-> Str("py")]),
          Invocation("Grep", [path |-> T(B)])}
    \cup {Invocation("Glob", [pattern |-> T(p)]) : p \in
            {B, <<"*", ".", "bob">>, <<"{", "bob", ",", "b", "}">>, <<".", "bob", "/", "*">>, <<"{", "a", "}">>, <<"/", "a">>}}
    \cup {Invocation("write_stdin", [session_id |-> Num(1)] @@ more) : more \in
            {<<>>, [chars |-> Str("interrupt")], [chars |-> Str("text")], [max_output_tokens |-> Num(0)]}}
    \cup {Invocation("TodoWrite", [todos |-> Arr(q)]) : q \in Upto(
            {Obj([content |-> T(c), activeForm |-> T(<<"a">>), status |-> Str("pending")]) : c \in {B, <<"a">>}}, 2)}
    \cup {Invocation("TodoWrite", [todos |-> Arr(<<>>)]),
          Invocation("TodoWrite", [todos |-> Arr(<<Obj([content |-> T(B)])>>)])}

Answered(items, more) ==
    Obj(more @@ [id |-> Str("r"), status |-> Str("completed"), output |-> Arr(items)])
CallIn(call, n) ==
    Obj([id |-> Str("i" \o n), call_id |-> Str("c" \o n), name |-> Str(call.name)]
        @@ IF call.custom THEN [type |-> Str("custom_tool_call"), input |-> call.arguments]
           ELSE [type |-> Str("function_call"), arguments |-> call.arguments])
Told(text) == Obj([id |-> Str("i0"), type |-> Str("message"), role |-> Str("assistant"),
                    content |-> Arr(<<Obj([type |-> Str("output_text"), text |-> T(text)]),
                                      Obj([type |-> Str("refusal"), refusal |-> T(text)])>>)])
CustomPatch(text) == [name |-> "apply_patch", arguments |-> T(text), custom |-> TRUE]
ReadCall == Invocation("Read", [file_path |-> T(B)])
SomePatch == CustomPatch(Patch(<<DeleteFile(B)>>))
WithText(more) == Answered(<<Told(<<"a">>)>>, more)
ResponsesAnswers ==
    {Answered(<<CallIn(c, "1")>>, <<>>) : c \in FileCalls \cup CommandCalls \cup BashCalls \cup OtherCalls
        \cup {CustomPatch(t) : t \in PatchTexts} \cup {Invocation("apply_patch", [patch |-> T(t)]) : t \in PatchTexts}
        \cup {Invocation("apply_patch", [text |-> T(B)])}}
    \cup {Answered(q, <<>>) : q \in
        {<<>>, <<Told(<<"bob", "old">>), CallIn(ReadCall, "1")>>, <<CallIn(ReadCall, "1"), CallIn(ReadCall, "2")>>,
         <<CallIn(ReadCall, "1"), CallIn(ReadCall, "1")>>, [i \in 1 .. 4 |-> CallIn(ReadCall, ToString(i))],
         <<CallIn(ReadCall, "1"), CallIn(SomePatch, "2")>>, <<CallIn(SomePatch, "1"), CallIn(SomePatch, "2")>>,
         <<Told([i \in 1 .. 8 |-> "bob"])>>, <<Told([i \in 1 .. 11 |-> "bob"])>>,
         <<CallIn(ReadCall, "1"), CallIn(Invocation("Read", [file_path |-> T(<<"old">>)]), "2")>>,
         <<Obj([id |-> Str("i0"), type |-> Str("reasoning"), summary |-> Arr(<<>>)])>>}}
    \cup {WithText(more) : more \in
        {[error |-> Null], [error |-> Str("x")], [store |-> Flag(TRUE)], [background |-> Null],
         [previous_response_id |-> Str("r")], [status |-> Str("incomplete")],
         [usage |-> Obj([input_tokens |-> Num(1), output_tokens_details |-> Null])],
         [usage |-> Obj([cost |-> Num(1)])], [instructions |-> Tok("bob")], [instructions |-> Str("other")],
         [tools |-> Arr(<<>>)], [tools |-> Arr(Everything)], [tool_choice |-> Str("auto")],
         [tool_choice |-> ChooseTool("function", "Edit")], [text |-> Obj([verbosity |-> Str("low")])],
         [text |-> Obj([format |-> Obj([type |-> Str("json_object")])])], [metadata |-> Obj(<<>>)],
         [metadata |-> Obj([a |-> Str("x")])], [prompt_cache_key |-> Str("scoped")], [user |-> Null]}}

Said(blocks, reason, more) ==
    Obj(more @@ [id |-> Str("r"), type |-> Str("message"), role |-> Str("assistant"), content |-> Arr(blocks),
                 stop_reason |-> Str(reason)])
UseOf(n, call) == Obj([type |-> Str("tool_use"), id |-> Str(n), name |-> Str(call.name), input |-> Of(call.arguments)])
Words(text) == Obj([type |-> Str("text"), text |-> T(text)])
MessagesAnswers ==
    {Said(<<UseOf("u", c)>>, "tool_use", <<>>) : c \in
        {c \in FileCalls : c.name = "Read" /\ Kind(c.arguments) = "enc"}
        \cup {Invocation("apply_patch", [patch |-> T(t)]) : t \in PatchTexts}}
    \cup {Said(<<>>, "end_turn", <<>>), Said(<<Words(B), UseOf("u", ReadCall)>>, "tool_use", <<>>),
          Said(<<UseOf("u", ReadCall)>>, "end_turn", <<>>), Said(<<UseOf("u", ReadCall), UseOf("v", ReadCall)>>, "tool_use", <<>>),
          Said(<<UseOf("u", ReadCall), UseOf("u", ReadCall)>>, "tool_use", <<>>),
          Said(<<Words(B)>>, "stop_sequence", [stop_sequence |-> Str("halt")]),
          Said(<<Words(B)>>, "stop_sequence", [stop_sequence |-> Str("other")]),
          Said(<<Words(B)>>, "stop_sequence", <<>>), Said(<<Words(B)>>, "end_turn", [stop_sequence |-> Str("halt")]),
          Said(<<>>, "refusal", [stop_details |-> Obj([type |-> Str("refusal"), explanation |-> T(<<"bob", "bob">>)])]),
          Said(<<>>, "end_turn", [stop_details |-> Obj([type |-> Str("refusal")])]),
          Said(<<Words(<<"old">>)>>, "max_tokens", [container |-> Str("x")]),
          Said(<<Words(<<"old">>)>>, "end_turn", [usage |-> Obj([input_tokens |-> Num(1), service_tier |-> Null])])}

MCAnswers == [responses |-> ResponsesAnswers, messages |-> MessagesAnswers]

MCBodies == [responses |-> ResponsesHistories \cup ResponsesDocuments \cup OddResponses \cup ToolOffers \cup {LargeBody},
             messages  |-> MessagesHistories \cup MessagesDocuments \cup OddMessages \cup MessagesOffers]
=============================================================================
