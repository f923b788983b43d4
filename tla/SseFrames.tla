----------------------------- MODULE SseFrames -----------------------------
(***************************************************************************)
(* The server-sent events of a provider, read character by character:      *)
(* parse_sse (gateway/streaming/sse.py).                                   *)
(*                                                                         *)
(* A character is an end of line (CR or LF), the head of a field together  *)
(* with its colon, the colon of a comment, or any other one.               *)
(***************************************************************************)
EXTENDS Naturals, Sequences, FiniteSets

CONSTANTS
    MaxEventBytes,  \* max_event_bytes
    MaxReceived     \* bound: the characters a provider sends

ASSUME SseAssumption == {MaxEventBytes, MaxReceived} \subseteq Nat

VARIABLES
    parser,     \* "idle", "reading", "failed" or "ended"
    received,   \* history: every character read so far
    line,       \* the line being read
    data,       \* the data lines of the frame
    event,      \* the event lines of the frame: none or one
    frameBytes, \* what the frame was charged
    frameSeen,  \* the frame has a line
    skipLf,     \* the last character was a CR
    frames      \* what was handed to the protocol's machine

sseVars == <<parser, received, line, data, event, frameBytes, frameSeen, skipLf, frames>>

Characters == {"CR", "LF", "data:", "event:", ":", "x"}

SseInit ==
    /\ parser = "idle" /\ received = <<>> /\ line = <<>> /\ data = <<>> /\ event = <<>>
    /\ frameBytes = 0 /\ frameSeen = FALSE /\ skipLf = FALSE /\ frames = <<>>

SseOpen == parser = "idle" /\ parser' = "reading"
           /\ UNCHANGED <<received, line, data, event, frameBytes, frameSeen, skipLf, frames>>

(* Both bytes of CR LF are charged at the CR.                              *)
Charge(char) == IF char = "CR" THEN 2 ELSE 1

(* A frame as the machine sees it; one with neither is a heartbeat.        *)
Frame(e, d) == [event |-> e, data |-> d, heartbeat |-> d = <<>> /\ e = <<>>]

\* mutant: the LF of CR LF is a line of its own
SkipsNever(char) == FALSE

(* The second half of a CR LF.                                             *)
Skips(char) == skipLf /\ char = "LF"

(* parse_sse fails closed: whatever it has read is dropped.                *)
SseFail(char) ==
    /\ parser' = "failed" /\ received' = Append(received, char)
    /\ line' = <<>> /\ data' = <<>> /\ event' = <<>> /\ frameBytes' = 0 /\ frameSeen' = FALSE
    /\ skipLf' = FALSE /\ UNCHANGED frames

(* take_line at an empty line: the frame is complete.                      *)
EndFrame ==
    /\ frames' = IF frameSeen THEN Append(frames, Frame(event, data)) ELSE frames
    /\ data' = <<>> /\ event' = <<>> /\ frameBytes' = 0 /\ frameSeen' = FALSE

(* take_line at any other line: a comment, data, or the frame's one event. *)
IsField(l) == l[1] \in {":", "data:"} \/ (l[1] = "event:" /\ event = <<>> /\ Len(l) > 1)
TakeField(char) ==
    /\ frameSeen' = TRUE /\ frameBytes' = frameBytes + Charge(char)
    /\ data' = IF line[1] = "data:" THEN Append(data, Tail(line)) ELSE data
    /\ event' = IF line[1] = "event:" THEN <<Tail(line)>> ELSE event
    /\ UNCHANGED frames

(* One character.                                                          *)
ReadCharacter ==
    /\ parser = "reading" /\ Len(received) < MaxReceived
    /\ \E char \in Characters :
        LET ends == char \in {"CR", "LF"} IN
        IF Skips(char)
        THEN /\ skipLf' = FALSE /\ received' = Append(received, char)
             /\ UNCHANGED <<parser, line, data, event, frameBytes, frameSeen, frames>>
        ELSE IF \/ frameBytes + Charge(char) > MaxEventBytes
                \/ ends /\ line = <<>> /\ event # <<>> /\ data = <<>>
                \/ ends /\ line # <<>> /\ ~IsField(line)
        THEN SseFail(char)
        ELSE /\ received' = Append(received, char) /\ UNCHANGED parser
             /\ skipLf' = (char = "CR")
             /\ IF ~ends
                THEN /\ line' = Append(line, char)
                     /\ frameBytes' = frameBytes + Charge(char)
                     /\ UNCHANGED <<data, event, frameSeen, frames>>
                ELSE line' = <<>> /\ IF line = <<>> THEN EndFrame ELSE TakeField(char)

(* The provider's body ends: a frame must not be cut off.                  *)
EndOfBody ==
    /\ parser = "reading"
    /\ parser' = IF line = <<>> /\ ~frameSeen /\ data = <<>> /\ event = <<>> THEN "ended" ELSE "failed"
    /\ UNCHANGED <<received, line, data, event, frameBytes, frameSeen, skipLf, frames>>

SseNext == ReadCharacter \/ EndOfBody

(* The stream by itself; an exchange that streams is one of its behaviours.*)
SseSpec == SseInit /\ [][SseOpen \/ SseNext]_sseVars

----------------------------------------------------------------------------
(* The reference: the text as a whole.  An LF right after a CR ends no     *)
(* line; an empty line ends a frame.                                       *)

LineEnds(t) == {k \in DOMAIN t : t[k] = "CR" \/ (t[k] = "LF" /\ (k = 1 \/ t[k - 1] # "CR"))}
Before(S, k) == LET below == {i \in S : i < k} IN
                IF below = {} THEN 0 ELSE CHOOSE i \in below : \A j \in below : j <= i

(* The line that ends at k, without the LF of the CR LF before it.         *)
LineAt(t, k) ==
    LET from == Before(LineEnds(t), k) + 1
    IN SubSeq(t, IF from < k /\ t[from] = "LF" THEN from + 1 ELSE from, k - 1)

FrameEnds(t) == {k \in LineEnds(t) : LineAt(t, k) = <<>>}

(* The lines of the frame that ends at b, those of a field, and the frames *)
(* that have a line.                                                       *)
LinesIn(t, b) == {k \in LineEnds(t) : Before(FrameEnds(t), b) < k /\ k < b}
FieldLines(t, b, head) == {k \in LinesIn(t, b) : LineAt(t, k)[1] = head}
FullFrames(t) == {b \in FrameEnds(t) : LinesIn(t, b) # {}}

Lists(order, S) ==
    /\ \A i, j \in DOMAIN order : i < j => order[i] < order[j]
    /\ \A k \in S : \E i \in DOMAIN order : order[i] = k

(* The values q are those of the lines in S, in order.                     *)
AreValues(q, t, S) ==
    \E order \in [DOMAIN q -> S] :
        Lists(order, S) /\ \A i \in DOMAIN q : q[i] = Tail(LineAt(t, order[i]))

IsFrameAt(frame, t, b) ==
    /\ AreValues(frame.event, t, FieldLines(t, b, "event:"))
    /\ AreValues(frame.data, t, FieldLines(t, b, "data:"))
    /\ frame.heartbeat <=> frame.event = <<>> /\ frame.data = <<>>

AreFrames(q, t) ==
    \E order \in [DOMAIN q -> FullFrames(t)] :
        Lists(order, FullFrames(t)) /\ \A i \in DOMAIN q : IsFrameAt(q[i], t, order[i])

(* The bytes of the frame that the character at k belongs to, up to k.     *)
BytesUpTo(t, k) ==
    LET from == Before(FrameEnds(t), k)
        counted == {i \in from + 1 .. k : i \in LineEnds(t) \/ t[i] # "LF"}
    IN Cardinality(counted) + Cardinality({i \in counted : t[i] = "CR"})

(* However the characters are spread over chunks, and whichever line ends  *)
(* the provider mixes, parse_sse hands over exactly the frames that the    *)
(* text as a whole consists of, each within max_event_bytes, its line ends *)
(* included.                                                               *)
FramesAreExact ==
    parser # "failed" =>
        /\ AreFrames(frames, received)
        /\ \A k \in DOMAIN received : BytesUpTo(received, k) <= MaxEventBytes
=============================================================================
