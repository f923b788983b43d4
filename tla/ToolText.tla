------------------------------ MODULE ToolText ------------------------------
(***************************************************************************)
(* The texts that a tool executes, and what a restored value may do to     *)
(* them: paths, globs, regular expressions, patches and commands           *)
(* (gateway/tools/patches.py, search.py, shell.py and the path and content *)
(* helpers of registry.py).                                                *)
(*                                                                         *)
(* A text is a sequence of atoms: a character, a word, a flag, a patch     *)
(* header or a placeholder.  The code classifies the text that the         *)
(* provider wrote, then restores each piece in its place; "plans" below    *)
(* are those classifications.                                              *)
(***************************************************************************)
EXTENDS Integers, Sequences, FiniteSets, TLC
LOCAL INSTANCE SequencesExt
LOCAL INSTANCE FiniteSetsExt
LOCAL INSTANCE Functions

CONSTANTS
    Placeholders,   \* the texts that TOKEN_PATTERN matches
    Links,          \* the symbolic links of the file system: canonical paths to canonical paths
    Workspace,      \* workspace_root, as a canonical path
    MaxWords        \* the limit on argv

(* A text cut at each separator, as str.split does.                        *)
Cut(text, separator) ==
    FoldLeft(LAMBDA parts, c : IF c = separator THEN Append(parts, <<>>)
                               ELSE [parts EXCEPT ![Len(parts)] = Append(@, c)],
             << <<>> >>, text)

(* Texts put together with a separator between them.                       *)
Joined(parts, separator) ==
    FoldLeft(LAMBDA text, part : text \o <<separator>> \o part, parts[1], Tail(parts))

Holds(text, atoms) == \E i \in DOMAIN text : text[i] \in atoms
Begins(text, atoms) == text # <<>> /\ Head(text) \in atoms

(* The atoms that begin with a dash: a flag is one atom.                   *)
Dashes == {"-", "--", "-n", "-e", "-F", "-g", "-m", "-q", "-f", "--files", "-name", "-maxdepth", "-print"}

----------------------------------------------------------------------------
(* Placeholders.                                                           *)

(* _TOKEN_LOOKALIKE: "<E" is the start of a placeholder; it is one when    *)
(* the text ends there or goes on with a version.                          *)
Lookalike(text) ==
    \E i \in DOMAIN text : text[i] = "<E" /\ (i = Len(text) \/ text[i + 1] = ":v1")
HasPlaceholder(text) == Holds(text, Placeholders) \/ Lookalike(text)
Malformed(text) == Lookalike(SelectSeq(text, LAMBDA c : c \notin Placeholders))

(* The restorer's text, for the values that the request minted.            *)
Restored(text, values) ==
    FlattenSeq([i \in DOMAIN text |-> IF text[i] \in DOMAIN values THEN values[text[i]] ELSE <<text[i]>>])

(* content: every placeholder is known and none is left.                   *)
ContentIsSafe(text, values) == ~Malformed(text) /\ ~HasPlaceholder(Restored(text, values))

----------------------------------------------------------------------------
(* Paths.                                                                  *)

(* Path.resolve: where a path leads, links followed.                       *)
Resolved(cwd, text) ==
    FoldLeft(LAMBDA at, part : IF part \in {<<>>, <<".">>} THEN at
                               ELSE IF Append(at, part) \in DOMAIN Links THEN Links[Append(at, part)]
                               ELSE Append(at, part),
             IF Begins(text, {"/"}) THEN <<>> ELSE cwd, Cut(text, "/"))

Inside(at) == IsPrefix(Workspace, at)

(* _validate_path.                                                         *)
PathIsLocal(text, cwd) ==
    /\ text # <<>> /\ ~Holds(text, {"NL", "\\", ":", ":v1"})
    /\ ~Begins(text, {"~"} \cup Dashes) /\ ~IsPrefix(<<"/", "/">>, text)
    /\ ~HasPlaceholder(text)
    /\ \A i \in DOMAIN Cut(text, "/") : Cut(text, "/")[i] # <<".", ".">>
    /\ Inside(Resolved(cwd, text))

----------------------------------------------------------------------------
(* Search patterns.                                                        *)

RegexOperators == {"*", ".", "-", "~", "{", "}", "\\", " ", "NL"} \cup (Dashes \ {"-"})

\* mutant: a restored value is not escaped
EscapedNot(value) == value

(* re.escape, with the line break written as \n.                           *)
Escaped(value) ==
    FlattenSeq([i \in DOMAIN value |->
        IF value[i] = "NL" THEN <<"\\", "n">>
        ELSE IF value[i] \in RegexOperators THEN <<"\\", value[i]>> ELSE <<value[i]>>])

(* restore_regex.                                                          *)
RestoredRegex(text, values, fixed) ==
    FlattenSeq([i \in DOMAIN text |->
        IF text[i] \notin DOMAIN values THEN <<text[i]>>
        ELSE IF fixed THEN values[text[i]] ELSE Escaped(values[text[i]])])

GlobOperators == {"*", "{", "}", "!", "\\"}

(* The alternatives of simple braces.                                      *)
BracesAreSimple(text) ==
    LET opens == SelectInSeq(text, LAMBDA c : c = "{")
        closes == SelectInSeq(text, LAMBDA c : c = "}")
        alternatives == Cut(SubSeq(text, opens + 1, closes - 1), ",") IN
    \/ opens = 0 /\ closes = 0
    \/ /\ 0 < opens /\ opens < closes
       /\ Len(SelectSeq(text, LAMBDA c : c \in {"{", "}"})) = 2
       /\ Len(alternatives) >= 2
       /\ \A i \in DOMAIN alternatives :
            alternatives[i] \notin {<<>>, <<".">>, <<".", ".">>} /\ ~Holds(alternatives[i], {"/"})

(* validate_glob.                                                          *)
GlobIsLocal(text) ==
    /\ text # <<>> /\ ~Holds(text, {"NL", "\\", ":", ":v1"}) /\ ~Begins(text, {"/", "~", "!"})
    /\ \A i \in DOMAIN Cut(text, "/") : Cut(text, "/")[i] # <<".", ".">>
    /\ BracesAreSimple(text)

(* restore_glob: a placeholder stands for no operator.                     *)
GlobIsSafe(text, values) ==
    /\ \A i \in DOMAIN text : text[i] \in DOMAIN values => ~Holds(values[text[i]], GlobOperators)
    /\ GlobIsLocal(Restored(text, values))

----------------------------------------------------------------------------
(* Slots: a piece of the provider's text, with what stands before it and   *)
(* the role in which its restored form is used.                            *)

Slot(role, head, text) == [role |-> role, head |-> head, text |-> text]

(* The texts that a slot hands to the restorer, one after the other.       *)
Pieces(slot, values) ==
    CASE slot.role = "kept" -> <<>>
      [] /\ slot.role \in {"regex", "pattern", "fixed", "fixed pattern", "glob"}
         /\ Holds(slot.text, Placeholders) ->
            LET found == SelectSeq(slot.text, LAMBDA c : c \in Placeholders)
            IN [i \in DOMAIN found |-> <<found[i]>>]
      [] OTHER -> <<slot.text>>

(* What the slot becomes.                                                  *)
Filled(slot, values) ==
    CASE slot.role = "kept" -> slot.text
      [] slot.role \in {"regex", "pattern"} -> RestoredRegex(slot.text, values, FALSE)
      [] OTHER -> Restored(slot.text, values)

(* Each role has its own refusals.                                         *)
SlotIsSafe(slot, values, cwd) ==
    LET text == Filled(slot, values)
        pieces == Pieces(slot, values) IN
    /\ \A i \in DOMAIN pieces : ContentIsSafe(pieces[i], values)
    /\ slot.role = "path" => PathIsLocal(text, cwd)
    /\ slot.role = "glob" => ~Malformed(slot.text) /\ GlobIsSafe(slot.text, values)
    /\ slot.role \in {"pattern", "fixed pattern"} => ~Begins(text, Dashes)
    /\ slot.role = "line" => ~Holds(text, {"NL"})

----------------------------------------------------------------------------
(* Patches.                                                                *)

FileHeaders == {"*** Add File: ", "*** Update File: ", "*** Delete File: "}

(* The last line break ends the text, it begins no line.                   *)
Lines(patch) ==
    LET cut == Cut(patch, "NL") IN
    IF cut[Len(cut)] = <<>> THEN Front(cut) ELSE cut

(* The hunks of a file are complete.                                       *)
HunksEnd(s) ==
    /\ s.op = "*** Add File: " => s.lines > 0
    /\ s.op = "*** Update File: " /\ s.hunks > 0 => s.lines > 0

(* The body of restore_patch's loops, one line at a time.                  *)
ReadLine(s, line) ==
    LET head == IF line = <<>> THEN "" ELSE Head(line)
        slot(role) == Append(s.slots, Slot(role, <<head>>, Tail(line)))
        body == \/ s.op = "*** Add File: " /\ head = "+"
                \/ s.op = "*** Update File: " /\ head \in {"+", "-", " "}
    IN CASE ~s.ok -> s
         [] (head \in FileHeaders /\ HunksEnd(s)) ->
                [ok |-> TRUE, op |-> head, hunks |-> 0, lines |-> 0, moves |-> head = "*** Update File: ",
                 slots |-> slot("path")]
         [] head = "*** Move to: " /\ s.moves -> [s EXCEPT !.moves = FALSE, !.slots = slot("path")]
         [] line = <<"*** End of File">> /\ s.op = "*** Update File: " /\ HunksEnd(s) ->
                [s EXCEPT !.op = "closed", !.moves = FALSE, !.slots = slot("kept")]
         [] /\ s.op = "*** Update File: " /\ head = "@@" /\ (Len(line) = 1 \/ line[2] = " ")
            /\ s.hunks > 0 => s.lines > 0 ->
                [s EXCEPT !.hunks = @ + 1, !.lines = 0, !.moves = FALSE, !.slots = slot("line")]
         [] body ->
                [s EXCEPT !.hunks = IF @ = 0 THEN 1 ELSE @, !.lines = @ + 1, !.moves = FALSE,
                          !.slots = slot("line")]
         [] OTHER -> [s EXCEPT !.ok = FALSE]

(* restore_patch: the envelope, then the files.                            *)
Beginning == [ok |-> TRUE, op |-> "none", hunks |-> 0, lines |-> 0, moves |-> FALSE, slots |-> <<>>]
Ending(s) == [s EXCEPT !.ok = @ /\ HunksEnd(s)]
PlanOfLines(lines, last) ==
    IF last < 3 \/ lines[1] # <<"*** Begin Patch">> \/ lines[last] # <<"*** End Patch">>
    THEN [Beginning EXCEPT !.ok = FALSE]
    ELSE Ending(FoldLeft(ReadLine, Beginning, SubSeq(lines, 2, last - 1)))
PatchPlan(patch) == PlanOfLines(Lines(patch), Len(Lines(patch)))

PatchOf(slots, values, patch) ==
    Joined(<< <<"*** Begin Patch">> >>
           \o [i \in DOMAIN slots |-> slots[i].head \o Filled(slots[i], values)]
           \o << <<"*** End Patch">> >>, "NL")
    \o (IF patch[Len(patch)] = "NL" THEN <<"NL">> ELSE <<>>)

PathsOf(slots, values) ==
    LET paths == SelectSeq(slots, LAMBDA s : s.role = "path")
    IN [i \in DOMAIN paths |-> Filled(paths[i], values)]

\* mutant: two spellings of one path are two files
FilesDifferAsText(paths) == IsInjective(paths)

(* Each file is named once, also under another spelling.                   *)
FilesDiffer(paths) == IsInjective([i \in DOMAIN paths |-> Resolved(Workspace, paths[i])])

(* The patch closure of registry.restore: each file once, and the restored *)
(* patch is read again from its text.                                      *)
PatchIsSafe(slots, restored, values) ==
    /\ FilesDiffer(PathsOf(slots, values))
    /\ \E again \in {PatchPlan(restored)} :
        /\ again.ok
        /\ \A slot \in Range(again.slots) : slot.role = "path" => PathIsLocal(slot.text, Workspace)

----------------------------------------------------------------------------
(* Commands.                                                               *)

ShellOperators == {";", "*", "$", "tick", "\\", "~", "{", "}", "!", "<E"}

(* One character of _validate_source and of shlex.split.  The quotes are ' *)
(* and "; between the latter a backslash stands for itself unless it       *)
(* escapes a " or another backslash, and no expansion is accepted.         *)
ReadCommand(s, c) ==
    LET add(text) == [s EXCEPT !.words[Len(s.words)] = @ \o text] IN
    IF s.escaped
    THEN [add(IF c \in {"\"", "\\"} THEN <<c>> ELSE <<"\\", c>>) EXCEPT !.escaped = FALSE]
    ELSE IF s.quote # "none"
    THEN IF c = s.quote THEN [s EXCEPT !.quote = "none"]
         ELSE IF s.quote = "\"" /\ c = "\\" THEN [s EXCEPT !.escaped = TRUE]
         ELSE [add(<<c>>) EXCEPT !.plain = @ /\ ~(s.quote = "\"" /\ c \in {"$", "tick"})]
    ELSE IF c = " " THEN [s EXCEPT !.within = FALSE]
    ELSE LET t == IF s.within THEN s ELSE [s EXCEPT !.within = TRUE, !.words = Append(@, <<>>)]
         IN IF c \in {"'", "\""} THEN [t EXCEPT !.quote = c]
            ELSE [t EXCEPT !.words[Len(t.words)] = Append(@, c),
                           !.plain = @ /\ c \notin ShellOperators]
ReadWords(command) ==
    FoldLeft(ReadCommand,
             [words |-> <<>>, within |-> FALSE, quote |-> "none", escaped |-> FALSE, plain |-> TRUE],
             command)

(* No line break, no operator outside of quotes, and every quote closed.   *)
CommandReads(command) ==
    LET read == ReadWords(command) IN
    /\ ~Holds(command, {"NL"}) /\ read.plain /\ read.quote = "none" /\ ~read.escaped
    /\ Len(read.words) \in 1 .. MaxWords /\ Head(read.words) # <<>>
WordsOf(command) == ReadWords(command).words

(* shlex.quote.                                                            *)
Quoted(word) ==
    IF word # <<>> /\ ~Holds(word, ShellOperators \cup {" ", "'", "\"", "NL"})
    THEN word
    ELSE <<"'">> \o FlattenSeq([i \in DOMAIN word |->
                        IF word[i] = "'" THEN <<"'", "\"", "'", "\"", "'">> ELSE <<word[i]>>])
         \o <<"'">>

(* What a program of the closed list takes: its flags, its flags with an   *)
(* argument and that argument's role, the roles of the first and of the    *)
(* other arguments, and how many paths it needs.                           *)
Program(flags, takes, first, others, paths) ==
    [flags |-> flags, takes |-> takes, first |-> first, others |-> others, paths |-> paths]
AnyNumber == 0 .. MaxWords
AtLeastOne == 1 .. MaxWords
Programs == [
    pwd    |-> Program({}, <<>>, "none", "none", {0}),
    test   |-> Program({}, [f \in {"-f", "-e"} |-> "path"], "none", "none", AnyNumber),
    printf |-> Program({}, <<>>, "format", "content", AnyNumber),
    pytest |-> Program({"-q"}, <<>>, "path", "path", AnyNumber),
    rg     |-> Program({"-n", "-F", "--files", "--"},
                       [f \in {"-e"} |-> "regex"] @@ [f \in {"-g"} |-> "glob"] @@ [f \in {"-m"} |-> "number"],
                       "pattern", "path", AnyNumber),
    grep   |-> Program({"-n", "-F", "--"}, [f \in {"-e"} |-> "regex"] @@ [f \in {"-m"} |-> "number"],
                       "pattern", "path", AnyNumber),
    find   |-> Program({"-print"}, [f \in {"-name"} |-> "glob"] @@ [f \in {"-maxdepth"} |-> "number"],
                       "path", "path", AtLeastOne),
    cat    |-> Program({"-n", "--"}, <<>>, "path", "path", AtLeastOne),
    head   |-> Program({"--"}, [f \in {"-n"} |-> "number"], "path", "path", AtLeastOne),
    ls     |-> Program({"--"}, <<>>, "path", "path", AnyNumber),
    cp     |-> Program({"--"}, <<>>, "path", "path", {2})]
Searches == {"rg", "grep"}
Module == << <<"python">>, <<"-m">>, <<"pytest">> >>
ProgramOf(word) == IF Len(word) = 1 THEN Head(word) ELSE ""

(* A word in a role; -F makes every pattern of a search a literal.         *)
Fill(s, role, fixed, word) ==
    [s EXCEPT !.slots = Append(@, Slot(CASE fixed /\ role = "regex" -> "fixed"
                                         [] fixed /\ role = "pattern" -> "fixed pattern"
                                         [] role = "format" -> "kept"
                                         [] OTHER -> role, <<>>, word))]

(* The argument of a flag.                                                 *)
TakeArgument(s, fixed, listing, word) ==
    [Fill(s, IF s.needs = "number" THEN "kept" ELSE s.needs, fixed, word)
        EXCEPT !.needs = "none", !.first = @ /\ s.needs # "regex",
               !.ok = (s.needs = "number" => word = <<"1">>) /\ ~(listing /\ s.needs = "regex")]

(* One word of the arguments.                                              *)
ReadWord(p, program, fixed, listing, s, word) ==
    LET flag == IF Len(word) = 1 /\ ~s.ended THEN Head(word) ELSE ""
        role == IF s.first /\ ~listing THEN p.first ELSE p.others
    IN CASE ~s.ok -> s
         [] s.needs # "none" -> TakeArgument(s, fixed, listing, word)
         [] flag \in DOMAIN p.takes ->
                [Fill(s, "kept", fixed, word) EXCEPT !.needs = p.takes[flag], !.expression = program = "find"]
         [] flag \in p.flags ->
                [Fill(s, "kept", fixed, word) EXCEPT !.ended = flag = "--", !.expression = program = "find"]
         [] /\ ~Begins(word, Dashes) \/ program = "printf"
            /\ role # "none" /\ ~s.expression /\ (role = "format" => word = <<"%s">>) ->
                [Fill(s, role, fixed, word) EXCEPT !.first = FALSE, !.paths = IF role = "path" THEN @ + 1 ELSE @]
         [] OTHER -> [s EXCEPT !.ok = FALSE]

(* restore_shell: which argument of the provider's argv plays which role.  *)
Starting(program, call) ==
    [ok |-> program \in DOMAIN Programs, needs |-> "none", ended |-> FALSE, first |-> TRUE,
     expression |-> FALSE, paths |-> 0,
     slots |-> [i \in DOMAIN call |-> Slot("kept", <<>>, call[i])]]
Stopping(program, listing, s) ==
    [s EXCEPT !.ok = /\ @ /\ s.needs = "none" /\ s.paths \in Programs[program].paths
                     /\ program = "printf" => ~s.first
                     /\ program \in Searches => listing \/ ~s.first
                     /\ program = "test" => Len(s.slots) = 3]
PlanOfWords(program, call, rest, fixed, listing) ==
    IF program \notin DOMAIN Programs THEN Starting(program, call)
    ELSE Stopping(program, listing,
            FoldLeft(LAMBDA s, word : ReadWord(Programs[program], program, fixed, listing, s, word),
                     Starting(program, call), rest))
PlanOfArgv(argv) ==
    IF IsPrefix(Module, argv)
    THEN PlanOfWords("pytest", Module, SubSeq(argv, Len(Module) + 1, Len(argv)), FALSE, FALSE)
    ELSE PlanOfWords(ProgramOf(Head(argv)), <<Head(argv)>>, Tail(argv), <<"-F">> \in Range(Tail(argv)),
                     <<"rg">> = Head(argv) /\ <<"--files">> \in Range(Tail(argv)))
CommandPlan(command) ==
    IF CommandReads(command) THEN PlanOfArgv(WordsOf(command)) ELSE Starting("", <<>>)

CommandOf(slots, values) ==
    Joined([i \in DOMAIN slots |-> Quoted(Filled(slots[i], values))], " ")
=============================================================================
