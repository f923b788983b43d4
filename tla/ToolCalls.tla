----------------------------- MODULE ToolCalls -----------------------------
(***************************************************************************)
(* The calls of a provider's answer: which ones a request admits, and what *)
(* becomes of one when its values are restored                             *)
(* (gateway/tools/registry.py and BoundToolRegistry of bound.py).          *)
(*                                                                         *)
(* A call is a record of the tool's name, its arguments and whether it is  *)
(* a custom call.  The arguments are a text, or the JSON of a document     *)
(* whose strings are texts (ToolText); a control word is a string.         *)
(***************************************************************************)
EXTENDS JsonShapes, ToolText
LOCAL INSTANCE SequencesExt
LOCAL INSTANCE FiniteSetsExt
LOCAL INSTANCE Functions

CONSTANTS
    SchemaCompiles(_),  \* the schema is of the executable subset
    SchemaIsFlat(_, _), \* SchemaIsFlat(schema, fields): it asks for no other fields
    SchemaMatches(_, _),\* SchemaMatches(schema, value): the value satisfies it
    MaxCalls,           \* max_calls of a request that sets no limit
    MaxDefinitions,     \* MAX_SCHEMA_COLLECTION, for the tools of a request
    MaxArgumentDepth,   \* the limits of _decode_arguments
    MaxArgumentNodes,
    MaxArgumentItems,
    MaxToolBytes        \* max_output_bytes of the restorer

----------------------------------------------------------------------------
(* The registered tools.                                                   *)

(* _fields_for and _field_types: the arguments of each tool and the kind   *)
(* of each.  One tool stands for each family that only differs in the      *)
(* names of its fields, one field for those of one kind.                   *)
IsA(kind) == <<kind>>
ListOf(field) == <<"array", field>>
ObjectOf(fields) == <<"object", fields>>
Strings(names) == [n \in names |-> IsA("string")]
Numbers(names) == [n \in names |-> IsA("integer")]
Booleans(names) == [n \in names |-> IsA("boolean")]
Fields == [
    Read  |-> Strings({"file_path"}) @@ Numbers({"offset", "limit"}),
    Write |-> Strings({"file_path", "content"}),
    Edit  |-> Strings({"file_path", "old_string", "new_string"}) @@ Booleans({"replace_all"}),
    apply_patch |-> Strings({"patch"}),
    exec_command |->
        Strings({"cmd", "shell", "cwd", "workdir", "sandbox_permissions", "justification", "environment_id"})
        @@ Booleans({"login"}) @@ Numbers({"max_output_tokens"})
        @@ [prefix_rule |-> ListOf(IsA("string")),
            additional_permissions |-> ObjectOf(
                [network |-> ObjectOf(Booleans({"enabled"})),
                 file_system |-> ObjectOf([f \in {"read", "write"} |-> ListOf(IsA("string"))])])],
    Bash |-> Strings({"command", "shell", "cwd", "description"}) @@ Numbers({"timeout"})
             @@ Booleans({"run_in_background", "dangerouslyDisableSandbox"}),
    Grep  |-> Strings({"pattern", "path", "glob", "type", "output_mode"})
              @@ Numbers({"head_limit"}) @@ Booleans({"multiline"}),
    Glob  |-> Strings({"pattern", "path"}),
    write_stdin |-> Strings({"chars"}) @@ Numbers({"session_id", "max_output_tokens"}),
    TodoWrite   |-> [todos |-> ListOf(ObjectOf(Strings({"content", "activeForm", "status"})))]]
Supported == DOMAIN Fields

(* The tools that execute a command, and the field that holds it.          *)
CommandField == [exec_command |-> "cmd", Bash |-> "command"]

----------------------------------------------------------------------------
(* What a request admits: BoundToolRegistry.__init__.                      *)

Get(j, k, otherwise) == IF k \in DOMAIN Of(j) THEN Of(j)[k] ELSE otherwise
ToolsOf(request) == Of(Get(request, "tools", Arr(<<>>)))
SchemaKey == [responses |-> "parameters", messages |-> "input_schema"]

(* One declaration.                                                        *)
ToolBinds(p, tool) ==
    LET kind == Of(Get(tool, "type", Str("custom")))
        custom == p = "responses" /\ kind = "custom" IN
    /\ Of(Of(tool)["name"]) \in Supported
    /\ p = "messages" => kind = "custom"
    /\ custom => Of(Of(tool)["name"]) = "apply_patch"
    /\ ~custom => LET schema == Of(tool)[SchemaKey[p]] IN
                  SchemaCompiles(schema) /\ SchemaIsFlat(schema, Fields[Of(Of(tool)["name"])])

(* The choice of a request: its word, and the tool it may name.            *)
ChoiceOf(p, request) ==
    LET choice == Get(request, "tool_choice", Str("auto")) IN
    IF Kind(choice) = "str" THEN [word |-> Of(choice), tool |-> {}]
    ELSE IF p = "messages" /\ Of(Of(choice)["type"]) # "tool"
         THEN [word |-> Of(Of(choice)["type"]), tool |-> {}]
         ELSE [word |-> "tool",
               tool |-> {<<Of(Of(choice)["name"]), p = "responses" /\ Of(Of(choice)["type"]) = "custom">>}]

(* parallel_tool_calls, disable_parallel_tool_use and max_tool_calls.      *)
CallLimits(p, request) ==
    LET choice == Get(request, "tool_choice", Str("auto"))
        alone == IF p = "responses" THEN Get(request, "parallel_tool_calls", Flag(TRUE)) = Flag(FALSE)
                 ELSE Kind(choice) = "obj" /\ Get(choice, "disable_parallel_tool_use", Flag(FALSE)) = Flag(TRUE)
    IN {IF alone THEN 1 ELSE MaxCalls}
       \cup {Of(Of(request)[k]) : k \in {"max_tool_calls"} \cap (IF p = "responses" THEN DOMAIN Of(request) ELSE {})}

Binding(p, request) ==
    LET tools == ToolsOf(request)
        choice == ChoiceOf(p, request) IN
    [declared |-> [n \in {Of(Of(tools[i])["name"]) : i \in DOMAIN tools} |->
                    LET tool == tools[CHOOSE i \in DOMAIN tools : Of(Of(tools[i])["name"]) = n]
                        custom == p = "responses" /\ Of(Of(tool)["type"]) = "custom"
                    IN [custom |-> custom,
                        schema |-> IF custom THEN Flag(TRUE) ELSE Of(tool)[SchemaKey[p]]]],
     selected |-> choice.tool,
     forbidden |-> choice.word = "none",
     required |-> choice.word \in {"required", "any", "tool"},
     limits |-> CallLimits(p, request)]

Binds(p, request) ==
    LET bound == Binding(p, request) IN
    /\ Len(ToolsOf(request)) <= MaxDefinitions
    /\ \A i \in DOMAIN ToolsOf(request) : ToolBinds(p, ToolsOf(request)[i])
    /\ bound.required => DOMAIN bound.declared # {}
    /\ \A s \in bound.selected : s[1] \in DOMAIN bound.declared /\ bound.declared[s[1]].custom = s[2]

(* _call_allowed.                                                          *)
CallAllowed(bound, name, custom) ==
    /\ ~bound.forbidden
    /\ name \in DOMAIN bound.declared
    /\ bound.declared[name].custom = custom
    /\ bound.selected \subseteq {<<name, custom>>}

\* mutant: an empty batch passes although a call is required
BatchMayBeEmpty(bound, calls) ==
    /\ \A most \in bound.limits : Cardinality(DOMAIN calls) <= most
    /\ \A i \in DOMAIN calls : CallAllowed(bound, calls[i].name, calls[i].custom)

(* validate_batch.                                                         *)
BatchIsValid(bound, calls) ==
    /\ \A most \in bound.limits : Cardinality(DOMAIN calls) <= most
    /\ bound.required => DOMAIN calls # {}
    /\ \A i \in DOMAIN calls : CallAllowed(bound, calls[i].name, calls[i].custom)

----------------------------------------------------------------------------
(* The arguments of each tool.                                             *)

AtLeast(number) == Integer(number, 1000)

(* _decode_arguments: an object within the limits, no placeholder as key.  *)
Decodes(arguments) ==
    /\ Kind(arguments) = "enc" /\ Kind(Of(arguments)) = "obj"
    /\ LET nodes == Nodes(Of(arguments)) IN
       /\ Cardinality(nodes) <= MaxArgumentNodes
       /\ \A n \in nodes :
            /\ Len(n[1]) <= MaxArgumentDepth
            /\ Kind(n[2]) \in {"arr", "obj"} => Cardinality(DOMAIN Of(n[2])) <= MaxArgumentItems
            /\ Kind(n[2]) = "obj" => DOMAIN Of(n[2]) \cap Placeholders = {}

(* The fields that each handler permits, their kinds and ranges, and which *)
(* ones it requires.                                                       *)
Arguments == [
    Read  |-> Record([file_path |-> Text, offset |-> AtLeast(0), limit |-> AtLeast(1)], {"file_path"}),
    Write |-> Record([file_path |-> Text, content |-> Text], {"file_path", "content"}),
    Edit  |-> Record([file_path |-> Text, old_string |-> Text, new_string |-> Text, replace_all |-> Boolean],
                     {"file_path", "old_string", "new_string"}),
    apply_patch  |-> Record([patch |-> Text], {"patch"}),
    exec_command |-> Record(
        [cmd |-> Text, shell |-> Choice({"sh", "bash"}), cwd |-> Text, workdir |-> Text, login |-> Boolean,
         max_output_tokens |-> AtLeast(1), justification |-> Text, prefix_rule |-> NonEmpty(Text),
         sandbox_permissions |->
            Choice({"use_default", "require_escalated", "with_additional_permissions"}),
         additional_permissions |-> Record(
            [network |-> Record([enabled |-> MustBeFalse], {}),
             file_system |-> Record([f \in {"read", "write"} |-> List(Text)], {})], {})], {"cmd"}),
    Bash |-> Record(
        [command |-> Text, shell |-> Choice({"sh", "bash"}), cwd |-> Text, timeout |-> AtLeast(1),
         description |-> Text, run_in_background |-> Boolean,
         dangerouslyDisableSandbox |-> MustBeFalse], {"command"}),
    Grep  |-> Record([pattern |-> Text, path |-> Text, glob |-> Text, type |-> Choice({"py"}),
                      output_mode |-> Choice({"content", "count"}), head_limit |-> AtLeast(0),
                      multiline |-> Boolean], {"pattern"}),
    Glob  |-> Record([pattern |-> Text, path |-> Text], {"pattern"}),
    write_stdin |-> Record([session_id |-> AtLeast(0), chars |-> Choice({"", "interrupt"}),
                            max_output_tokens |-> AtLeast(0)], {"session_id"}),
    TodoWrite   |-> Record([todos |-> List(Record(
        [content |-> Text, activeForm |-> Text, status |-> Choice({"pending", "completed"})],
        {"content", "activeForm", "status"}))], {"todos"})]

(* The role of each field that is restored.                                *)
Roles == [
    Read  |-> [file_path |-> "path"],
    Write |-> [file_path |-> "path", content |-> "content"],
    Edit  |-> [file_path |-> "path", old_string |-> "content", new_string |-> "content"],
    exec_command |-> [cwd |-> "path", workdir |-> "path"],
    Bash  |-> [cwd |-> "path", description |-> "content"],
    Grep  |-> [pattern |-> "regex", path |-> "path", glob |-> "glob"],
    Glob  |-> [pattern |-> "glob", path |-> "path"]]

(* The directory that the paths of a command are relative to.              *)
DirectoryOf(args, values) ==
    LET named == {"cwd", "workdir"} \cap DOMAIN Of(args) IN
    IF named = {} THEN Workspace
    ELSE Resolved(Workspace, Restored(Of(Of(args)[CHOOSE k \in named : TRUE]), values))

(* _validate_exec_controls, and one directory at most.                     *)
ControlsAreSafe(args) ==
    LET permission == Of(Get(args, "sandbox_permissions", Str("use_default")))
        given == DOMAIN Of(args) IN
    /\ ~({"cwd", "workdir"} \subseteq given)
    /\ {"justification", "prefix_rule"} \cap given # {} => permission = "require_escalated"
    /\ "justification" \in given => ~HasPlaceholder(Of(Of(args)["justification"]))
    /\ "prefix_rule" \in given =>
        \A i \in DOMAIN Of(Of(args)["prefix_rule"]) :
            LET word == Of(Of(Of(args)["prefix_rule"])[i]) IN word # <<>> /\ ~HasPlaceholder(word)
    /\ "additional_permissions" \in given <=> permission = "with_additional_permissions"
    /\ "additional_permissions" \in given =>
        LET files == Get(Of(args)["additional_permissions"], "file_system", Obj(<<>>)) IN
        \A k \in DOMAIN Of(files) : \A i \in DOMAIN Of(Of(files)[k]) :
            LET path == Of(Of(Of(files)[k])[i]) IN Begins(path, {"/"}) /\ PathIsLocal(path, Workspace)

(* The prefix that a rule approves is the beginning of what is executed.   *)
PrefixHolds(args, command) ==
    "prefix_rule" \in DOMAIN Of(args) =>
        LET rule == Of(Of(args)["prefix_rule"]) IN
        IsPrefix([i \in DOMAIN rule |-> Of(rule[i])], WordsOf(command))

(* The texts of a list of todos.                                           *)
TodoSlots(todos) ==
    FlattenSeq([i \in DOMAIN todos |->
        <<Slot("content", <<>>, Of(Of(todos[i])["content"])),
          Slot("content", <<>>, Of(Of(todos[i])["activeForm"]))>>])

(* The plan of a call: the slots of its fields, and those of the lines of  *)
(* its patch, the words of its command or its todos.                       *)
Plan(ok, fields, list) == [ok |-> ok, fields |-> fields, list |-> list]
PlanOfArguments(name, args) ==
    LET fields == IF name \notin DOMAIN Roles THEN <<>>
                  ELSE [k \in DOMAIN Roles[name] \cap DOMAIN args |->
                            Slot(Roles[name][k], <<>>, Of(args[k]))]
        with(plan) == Plan(plan.ok, fields, plan.slots) IN
    CASE name = "apply_patch" -> with(PatchPlan(Of(args["patch"])))
      [] name \in DOMAIN CommandField -> with(CommandPlan(Of(args[CommandField[name]])))
      [] name = "TodoWrite" -> Plan(TRUE, fields, TodoSlots(Of(args["todos"])))
      [] OTHER -> Plan(TRUE, fields, <<>>)
NoPlan == Plan(FALSE, <<>>, <<>>)
PlanOf(call) ==
    IF call.custom
    THEN IF Kind(call.arguments) = "str"
         THEN PlanOfArguments("apply_patch", [patch |-> call.arguments]) ELSE NoPlan
    ELSE IF Decodes(call.arguments) /\ Reads(Of(call.arguments), Arguments[call.name])
         THEN PlanOfArguments(call.name, Of(Of(call.arguments))) ELSE NoPlan

(* restored_bytes: what the restorer returned for this call.               *)
BytesOfPieces(pieces, values) ==
    FoldLeft(LAMBDA sum, piece : sum + Len(Restored(piece, values)), 0, pieces)
BytesOfSlot(slot, values) == BytesOfPieces(Pieces(slot, values), values)
BytesRestored(plan, values) ==
    MapThenSumSet(LAMBDA k : BytesOfSlot(plan.fields[k], values), DOMAIN plan.fields)
    + MapThenSumSet(LAMBDA i : BytesOfSlot(plan.list[i], values), DOMAIN plan.list)

(* The length of the JSON of a document: its texts, and one for each value. *)
BytesOf(j) ==
    MapThenSumSet(LAMBDA n : IF Kind(n[2]) = "str" THEN Len(Of(n[2])) + 1 ELSE 1, Nodes(j))

----------------------------------------------------------------------------
(* Restoring a call: ToolRegistry.restore and BoundToolRegistry.restore.   *)

RestoredTodo(todo, values) ==
    Obj([k \in DOMAIN Of(todo) |-> IF k = "status" THEN Of(todo)[k]
                                   ELSE Str(Restored(Of(Of(todo)[k]), values))])

RestoredField(name, plan, k, field, values) ==
    CASE name = "apply_patch" -> Str(PatchOf(plan.list, values, Of(field)))
      [] name \in DOMAIN CommandField /\ k = CommandField[name] -> Str(CommandOf(plan.list, values))
      [] name = "TodoWrite" -> Arr([i \in DOMAIN Of(field) |-> RestoredTodo(Of(field)[i], values)])
      [] k \in DOMAIN plan.fields -> Str(Filled(plan.fields[k], values))
      [] OTHER -> field

RestoredArguments(call, plan, values) ==
    IF call.custom THEN RestoredField("apply_patch", plan, "patch", call.arguments, values)
    ELSE LET args == Of(Of(call.arguments)) IN
         Enc(Obj([k \in DOMAIN args |-> RestoredField(call.name, plan, k, args[k], values)]))

(* The handler of the call's tool accepts it.                              *)
HandlerAccepts(call, plan, restored, values) ==
    LET cwd == IF call.name \in DOMAIN CommandField
               THEN DirectoryOf(Of(call.arguments), values) ELSE Workspace IN
    /\ \A k \in DOMAIN plan.fields : SlotIsSafe(plan.fields[k], values, Workspace)
    /\ \A i \in DOMAIN plan.list : SlotIsSafe(plan.list[i], values, cwd)
    /\ call.name = "apply_patch" =>
        PatchIsSafe(plan.list, Of(IF call.custom THEN restored ELSE Of(Of(restored))["patch"]), values)
    /\ call.name = "Grep" => ~Malformed(Of(Of(Of(call.arguments))["pattern"]))
    /\ call.name \in DOMAIN CommandField =>
        ~Malformed(Of(Of(Of(call.arguments))[CommandField[call.name]]))
    /\ call.name = "exec_command" =>
        /\ ControlsAreSafe(Of(call.arguments))
        /\ PrefixHolds(Of(call.arguments), Of(Of(Of(restored))["cmd"]))

\* mutant: only what the restorer returns is counted, not the JSON around it
SizesHoldInside(call, plan, restored, values) == BytesRestored(plan, values) <= MaxToolBytes

(* The three limits of a call's size: as written, restored, as a whole.    *)
SizesHold(call, plan, restored, values) ==
    /\ BytesOf(call.arguments) <= MaxToolBytes
    /\ BytesRestored(plan, values) <= MaxToolBytes
    /\ BytesOf(restored) <= MaxToolBytes

(* The slots of a plan are restored in their places, or the call is        *)
(* refused as a whole.                                                     *)
CallRestores(to, call, plan, restored, provenance) ==
    /\ CallAllowed(to, call.name, call.custom)
    /\ HandlerAccepts(call, plan, restored, provenance)
    /\ SizesHold(call, plan, restored, provenance)
    /\ call.custom \/ SchemaMatches(to.declared[call.name].schema, Of(restored))
=============================================================================
