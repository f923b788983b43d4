------------------------- MODULE StreamRestoration -------------------------
(***************************************************************************)
(* restore_stream (gateway/streaming/protocols.py): a provider's stream of *)
(* events is validated, restored and re-emitted, one event at a time, by   *)
(* the state machine of its protocol ("responses" or "messages").          *)
(*                                                                         *)
(* Prose is handed on as it comes, but for a suffix that may become a      *)
(* token.  Tool calls are held until the whole response has succeeded.     *)
(* The provider sends any event it likes: one that the machine does not    *)
(* accept ends the stream.  The client is an observer that keeps what it   *)
(* was told.                                                               *)
(***************************************************************************)
EXTENDS TokenText, SequencesExt

CONSTANTS
    Protocols,
    Chunks,       \* what one delta may carry
    MaxItems,     \* max_items: items, and the parts of messages
    MaxOutput,    \* max_output_bytes, of what was read and of what is sent
    ValueSize,    \* bytes of an original value; a character has one
    MaxHeld       \* pending_bytes: how many events may be held

ASSUME StreamAssumption ==
    /\ Protocols \subseteq {"responses", "messages"}
    /\ Chunks \subseteq Seq(Characters)
    /\ {MaxItems, MaxOutput, ValueSize, MaxHeld} \subseteq Nat

VARIABLES
    protocol,
    phase,      \* where restore_stream and its machine stand
    kind,       \* of each item: "prose" or "tool"
    parts,      \* how many parts an item has
    stage,      \* of each part, or tool's arguments
    raw,        \* IncrementalRestorer._raw, or argument_chunks
    suffix,     \* IncrementalRestorer.suffix
    text,       \* IncrementalRestorer._text, or the restored arguments
    finished,   \* state["done"]
    held,       \* pending; once terminal, terminal_events
    outbox,     \* events yielded and not yet taken
    session, seen, heard, end   \* the client: what it was told

machineVars == <<protocol, phase, kind, parts, stage, raw, suffix, text, finished, held>>
clientVars == <<session, seen, heard, end>>
vars == <<machineVars, outbox, clientVars>>

Items == 1 .. MaxItems
Slots == Items \X Items

\* what an event says: its item, its part, its text or its snapshot
Say(type, i, p, what) == [type |-> type, item |-> i, part |-> p, text |-> what]

Stages == {"none", "open", "closed", "done"}

TypeOK ==
    /\ protocol \in Protocols
    /\ phase \in {"idle", "open", "stopping", "terminal", "ended", "failed"}
    /\ kind \in [Items -> {"none", "prose", "tool"}]
    /\ parts \in [Items -> 0 .. MaxItems]
    /\ stage \in [Slots -> Stages]
    /\ raw \in [Slots -> Seq(Characters)]
    /\ suffix \in [Slots -> Seq(Characters)]
    /\ text \in [Slots -> Seq(Outputs)]
    /\ finished \in [Items -> BOOLEAN]
    /\ \A s \in Slots : Len(suffix[s]) < MaxTokenLength
    /\ session \in {"waiting", "greeted", "complete"}
    /\ seen \in [Items -> {"hidden", "open", "done"}]
    /\ heard \in [Slots -> Seq(Outputs)]
    /\ end \in [Slots -> Stages]

Init ==
    /\ protocol \in Protocols
    /\ phase = "idle"
    /\ kind = [i \in Items |-> "none"] /\ parts = [i \in Items |-> 0]
    /\ stage = [s \in Slots |-> "none"] /\ raw = [s \in Slots |-> <<>>]
    /\ suffix = [s \in Slots |-> <<>>] /\ text = [s \in Slots |-> <<>>]
    /\ finished = [i \in Items |-> FALSE]
    /\ held = <<>> /\ outbox = <<>>
    /\ session = "waiting" /\ seen = [i \in Items |-> "hidden"]
    /\ heard = [s \in Slots |-> <<>>] /\ end = [s \in Slots |-> "none"]

-----------------------------------------------------------------------------
(* Bounds                                                                  *)

Known == {i \in Items : kind[i] # "none"}
Tools == {i \in Items : kind[i] = "tool"}

(* add_item: items, and the parts of messages, share one limit.            *)
TotalItems ==
    Cardinality(Known)
      + (IF protocol = "responses"
         THEN MapThenSumSet(LAMBDA i : parts[i], {i \in Known : kind[i] = "prose"}) ELSE 0)

Size(t) == MapThenSumSet(LAMBDA k : IF t[k] = Value THEN ValueSize ELSE 1, DOMAIN t)

(* count(): all that was read, and all that was restored.                  *)
ReadFits(more) == MapThenSumSet(LAMBDA s : Len(raw[s]), Slots) + Len(more) <= MaxOutput
SizeOfAll(texts) == MapThenSumSet(LAMBDA s : Size(texts[s]), Slots)

\* mutant: only the limit of every text of its own
FitsAlone(texts) == \A s \in Slots : Size(texts[s]) <= MaxOutput

RestoredFits(texts) == SizeOfAll(texts) <= MaxOutput

-----------------------------------------------------------------------------
(* Events of the provider                                                  *)

(* The next frame is read only when the last one's events were taken.      *)
Reads(p) == phase = p /\ outbox = <<>>
Emit(events) == outbox' = events /\ UNCHANGED <<held, clientVars>>
Hold(event) ==
    /\ Len(held) < MaxHeld
    /\ held' = Append(held, event)
    /\ UNCHANGED <<outbox, clientVars>>

(* response.created and message_start.                                     *)
Start ==
    /\ Reads("idle")
    /\ phase' = "open"
    /\ Emit(<<Say("start", 0, 0, <<>>)>>)
    /\ UNCHANGED <<protocol, kind, parts, stage, raw, suffix, text, finished>>

(* response.output_item.added and content_block_start: items come in the   *)
(* order of their indexes.  A message of Responses begins without parts.   *)
AddItem(k) ==
    /\ Reads("open")
    /\ TotalItems < MaxItems
    /\ \E i \in Items \ Known :
          LET whole == protocol = "messages" \/ k = "tool"
          IN
          /\ \A j \in 1 .. i - 1 : j \in Known
          /\ kind' = [kind EXCEPT ![i] = k]
          /\ parts' = [parts EXCEPT ![i] = IF whole THEN 1 ELSE 0]
          /\ stage' = [stage EXCEPT ![<<i, 1>>] = IF whole THEN "open" ELSE "none"]
          /\ IF k = "tool" THEN Hold(Say("added", i, 1, <<>>))
                           ELSE Emit(<<Say("added", i, parts'[i], <<>>)>>)
    /\ UNCHANGED <<protocol, phase, raw, suffix, text, finished>>

(* response.content_part.added.                                            *)
AddPart(i) ==
    /\ Reads("open") /\ protocol = "responses"
    /\ kind[i] = "prose" /\ ~finished[i]
    /\ TotalItems < MaxItems
    /\ LET p == parts[i] + 1
       IN /\ parts' = [parts EXCEPT ![i] = p]
          /\ stage' = [stage EXCEPT ![<<i, p>>] = "open"]
          /\ Emit(<<Say("part", i, p, <<>>)>>)
    /\ UNCHANGED <<protocol, phase, kind, raw, suffix, text, finished>>

(* The buffer of a part is fed; what it lets go is sent as one delta, and  *)
(* followed by what the event itself becomes.                              *)
Fed(s, delta, final, then) ==
    LET f == Feed(suffix[s], delta, final)
        all == text[s] \o f.text
    IN /\ ReadFits(delta)
       /\ raw' = [raw EXCEPT ![s] = @ \o delta]
       /\ suffix' = [suffix EXCEPT ![s] = f.suffix]
       /\ text' = [text EXCEPT ![s] = all]
       /\ RestoredFits(text')
       /\ Emit((IF f.text = <<>> THEN <<>> ELSE <<Say("delta", s[1], s[2], f.text)>>)
                  \o then)

(* response.output_text.delta, response.refusal.delta and text_delta.      *)
TextDelta(s, delta) ==
    /\ Reads("open")
    /\ kind[s[1]] = "prose" /\ stage[s] = "open"
    /\ Fed(s, delta, FALSE, <<>>)
    /\ UNCHANGED <<protocol, phase, kind, parts, stage, finished>>

(* response.output_text.done: the provider repeats the text, the client    *)
(* is told the restored one.                                               *)
TextDone(s) ==
    /\ Reads("open") /\ protocol = "responses"
    /\ kind[s[1]] = "prose" /\ stage[s] = "open"
    /\ Fed(s, <<>>, TRUE,
           <<Say("closed", s[1], s[2], text[s] \o Feed(suffix[s], <<>>, TRUE).text)>>)
    /\ stage' = [stage EXCEPT ![s] = "closed"]
    /\ UNCHANGED <<protocol, phase, kind, parts, finished>>

(* response.content_part.done.                                             *)
PartDone(s) ==
    /\ Reads("open")
    /\ kind[s[1]] = "prose" /\ stage[s] = "closed"
    /\ stage' = [stage EXCEPT ![s] = "done"]
    /\ Emit(<<Say("done", s[1], s[2], text[s])>>)
    /\ UNCHANGED <<protocol, phase, kind, parts, raw, suffix, text, finished>>

(* response.function_call_arguments.delta, custom_tool_call_input.delta    *)
(* and input_json_delta.                                                   *)
ToolDelta(i, delta) ==
    /\ Reads("open")
    /\ kind[i] = "tool" /\ stage[<<i, 1>>] = "open"
    /\ ReadFits(delta)
    /\ raw' = [raw EXCEPT ![<<i, 1>>] = @ \o delta]
    /\ Hold(Say("delta", i, 1, <<>>))
    /\ UNCHANGED <<protocol, phase, kind, parts, stage, suffix, text, finished>>

(* response.function_call_arguments.done and custom_tool_call_input.done.  *)
ArgumentsDone(i) ==
    /\ Reads("open") /\ protocol = "responses"
    /\ kind[i] = "tool" /\ stage[<<i, 1>>] = "open"
    /\ stage' = [stage EXCEPT ![<<i, 1>>] = "closed"]
    /\ Hold(Say("closed", i, 1, <<>>))
    /\ UNCHANGED <<protocol, phase, kind, parts, raw, suffix, text, finished>>

(* The restored snapshot of an item.                                       *)
Snapshot(texts, i) == [p \in Items |-> texts[<<i, p>>]]

\* mutant: an item may be done while a part of it is still open
ClosedEnough(i) == TRUE

(* All parts of a message are done; a tool has its arguments.              *)
AllClosed(i) ==
    IF kind[i] = "tool" THEN stage[<<i, 1>>] = "closed"
    ELSE \A p \in 1 .. parts[i] : stage[<<i, p>>] = "done"

(* response.output_item.done.                                              *)
ItemDone(i) ==
    /\ Reads("open") /\ protocol = "responses"
    /\ i \in Known /\ ~finished[i] /\ AllClosed(i)
    /\ finished' = [finished EXCEPT ![i] = TRUE]
    /\ IF kind[i] = "tool" THEN Hold(Say("item", i, 1, <<>>))
                           ELSE Emit(<<Say("item", i, 0, Snapshot(text, i))>>)
    /\ UNCHANGED <<protocol, phase, kind, parts, stage, raw, suffix, text>>

(* content_block_stop: text that was held back goes first.                 *)
BlockStop(i) ==
    LET s == <<i, 1>> IN
    /\ Reads("open") /\ protocol = "messages"
    /\ i \in Known /\ stage[s] = "open"
    /\ stage' = [stage EXCEPT ![s] = "done"]
    /\ finished' = [finished EXCEPT ![i] = TRUE]
    /\ IF kind[i] = "tool"
       THEN Hold(Say("stop", i, 1, <<>>)) /\ UNCHANGED <<raw, suffix, text>>
       ELSE Fed(s, <<>>, TRUE, <<Say("stop", i, 1, <<>>)>>)
    /\ UNCHANGED <<protocol, phase, kind, parts>>

(* message_delta: kept back with the tools.                                *)
MessageDelta ==
    /\ Reads("open") /\ protocol = "messages"
    /\ \A i \in Known : finished[i]
    /\ phase' = "stopping"
    /\ UNCHANGED <<protocol, kind, parts, stage, raw, suffix, text, finished, held,
                   outbox, clientVars>>

-----------------------------------------------------------------------------
(* The end of the response                                                 *)

(* release_tools: whatever was held, with each call's restored arguments   *)
(* in one delta, ahead of the event that closes it.                        *)
Release(texts) ==
    LET whole(i) == Say("delta", i, 1, texts[<<i, 1>>])
        isFirst(k) == \A j \in 1 .. k - 1 :
                        held[j].item = held[k].item => held[j].type # "delta"
        closing(e) ==
            IF e.type = "closed" THEN [e EXCEPT !.text = texts[<<e.item, 1>>]]
            ELSE IF e.type = "item" THEN [e EXCEPT !.text = Snapshot(texts, e.item)]
            ELSE e
        become(k) ==
            LET e == held[k] IN
            IF e.type = "delta" THEN IF isFirst(k) THEN <<whole(e.item)>> ELSE <<>>
            ELSE IF e.type \in {"closed", "stop"} /\ isFirst(k)
                 THEN <<whole(e.item), closing(e)>>
            ELSE <<closing(e)>>
    IN FlattenSeq([k \in DOMAIN held |-> become(k)])

\* mutant: calls go out as soon as the response is complete
Eager(events) == outbox' = events /\ held' = <<>>

(* terminal_events: kept until the stream has ended, too.                  *)
KeepUntilEof(events) == held' = events /\ UNCHANGED outbox

(* response.completed and message_stop.  Every call has to pass validation *)
(* and restoration.                                                        *)
Complete ==
    /\ Reads(IF protocol = "responses" THEN "open" ELSE "stopping")
    /\ \A i \in Known : finished[i]
    /\ text' = [s \in Slots |-> IF s[1] \in Tools THEN Restore(raw[s]) ELSE text[s]]
    /\ RestoredFits(text')
    /\ phase' = "terminal"
    /\ KeepUntilEof(Append(Release(text'), Say("complete", 0, 0, text')))
    /\ UNCHANGED <<protocol, kind, parts, stage, raw, suffix, finished, clientVars>>

(* The upstream closes the stream after a terminal event, and only then is *)
(* the batch sent.                                                         *)
Eof ==
    /\ Reads("terminal")
    /\ phase' = "ended"
    /\ outbox' = held /\ held' = <<>>
    /\ UNCHANGED <<protocol, kind, parts, stage, raw, suffix, text, finished, clientVars>>

(* Anything else the upstream sends or fails to send, a tool call that is  *)
(* refused, a limit: StreamProtocolError.                                  *)
Fail ==
    /\ phase \notin {"ended", "failed"} /\ outbox = <<>>
    /\ phase' = "failed" /\ held' = <<>>
    /\ UNCHANGED <<protocol, kind, parts, stage, raw, suffix, text, finished, outbox, clientVars>>

(* The client goes away, or the total deadline closes the generator.       *)
Disconnect ==
    /\ phase # "failed"
    /\ phase' = "failed" /\ held' = <<>> /\ outbox' = <<>>
    /\ UNCHANGED <<protocol, kind, parts, stage, raw, suffix, text, finished, clientVars>>

-----------------------------------------------------------------------------
(* The client                                                              *)

(* What a client of the protocol makes of an event.                        *)
Receive ==
    /\ outbox # <<>>
    /\ outbox' = Tail(outbox)
    /\ LET e == Head(outbox)
           s == <<e.item, e.part>>
       IN /\ session' = IF e.type = "start" THEN "greeted"
                        ELSE IF e.type = "complete" THEN "complete" ELSE session
          /\ seen' = IF e.type = "added" THEN [seen EXCEPT ![e.item] = "open"]
                     ELSE IF e.type \in {"item", "stop"} THEN [seen EXCEPT ![e.item] = "done"]
                     ELSE seen
          /\ heard' = IF e.type = "delta" THEN [heard EXCEPT ![s] = @ \o e.text] ELSE heard
          /\ end' = IF e.type \in {"part", "added"} /\ s \in Slots THEN [end EXCEPT ![s] = "open"]
                    ELSE IF e.type = "closed" THEN [end EXCEPT ![s] = "closed"]
                    ELSE IF e.type \in {"done", "stop"} THEN [end EXCEPT ![s] = "done"]
                    ELSE end
    /\ UNCHANGED machineVars

Next ==
    \/ Start
    \/ \E k \in {"prose", "tool"} : AddItem(k)
    \/ \E i \in Items : AddPart(i) \/ ArgumentsDone(i) \/ ItemDone(i) \/ BlockStop(i)
    \/ \E s \in Slots : TextDone(s) \/ PartDone(s)
    \/ \E s \in Slots, delta \in Chunks : TextDelta(s, delta)
    \/ \E i \in Items, delta \in Chunks : ToolDelta(i, delta)
    \/ MessageDelta \/ Complete \/ Eof \/ Fail \/ Disconnect \/ Receive

Spec == Init /\ [][Next]_vars

-----------------------------------------------------------------------------
(* Properties                                                              *)

(* Event e makes sense to a client that was told what this one was told.   *)
Sensible(e) ==
    LET s == <<e.item, e.part>> IN
    CASE e.type = "start" -> session = "waiting"
      [] e.type = "added" -> session = "greeted" /\ seen[e.item] = "hidden"
      [] e.type = "part" -> seen[e.item] = "open" /\ end[s] = "none"
      [] e.type = "delta" -> seen[e.item] = "open" /\ end[s] = "open"
      [] e.type = "closed" -> end[s] = "open" /\ heard[s] = e.text
      [] e.type = "done" -> end[s] = "closed" /\ heard[s] = e.text
      [] e.type = "item" ->
           /\ seen[e.item] = "open"
           /\ \A p \in Items : end[<<e.item, p>>] # "open" /\ heard[<<e.item, p>>] = e.text[p]
      [] e.type = "stop" -> seen[e.item] = "open" /\ end[s] = "open"
      [] e.type = "complete" ->
           /\ session = "greeted"
           /\ \A i \in Items : seen[i] = IF i \in Known THEN "done" ELSE "hidden"
           /\ heard = e.text

(* The re-encoded stream is a legal stream of the protocol: nothing is     *)
(* announced twice or extended after its end, and every final snapshot is  *)
(* what the deltas before it add up to, although prose overtakes the calls *)
(* that are held, their deltas are merged and suffixes are held back; and  *)
(* at the end the client knows every item.                                 *)
ClientUnderstands == \A k \in DOMAIN outbox : k = 1 => Sensible(outbox[k])

(* "No token fragment leaves": however the provider cuts its text, what    *)
(* the client has heard is the beginning of the restored text, and all of  *)
(* it once the part has ended.                                             *)
TextIsRestored ==
    \A s \in Slots :
        /\ IsPrefix(heard[s], Restore(raw[s]))
        /\ end[s] \in {"closed", "done"} => heard[s] = Restore(raw[s])

(* ADR-0019: no call, and no fragment of one, is seen before the upstream  *)
(* has succeeded and closed its stream, with every call complete.          *)
ToolsArePrivate ==
    \A i \in Tools : seen[i] # "hidden" =>
        phase \in {"ended", "failed"} /\ \A t \in Known : finished[t]

(* The client is never sent more than the limit.                           *)
OutputIsBounded == SizeOfAll(heard) <= MaxOutput
=============================================================================
