---------------------------- MODULE CallHistory ----------------------------
(***************************************************************************)
(* The history that an agent's request replays: the loops over the items   *)
(* of a Responses input (parse_responses_request) and over the blocks of   *)
(* all messages (parse_messages_request).                                  *)
(*                                                                         *)
(* An entry is what the loop reads of an item or a block: its own ID, the  *)
(* call it makes and the call whose result it is, each a set of one or     *)
(* none.  A call is a pair of its ID and its kind.                         *)
(***************************************************************************)
EXTENDS Naturals, Sequences

VARIABLES
    intake,     \* how far the request is
    entries,    \* the history of the request
    history,    \* the entries still to be read
    seenCalls,  \* the calls read so far, with their kinds
    seenOutputs,\* the calls whose result was read
    seenIds     \* the item IDs read so far

seenVars == <<seenCalls, seenOutputs, seenIds>>
historyVars == <<intake, entries, history, seenVars>>

HistoryInit ==
    /\ intake = "idle" /\ entries = <<>> /\ history = <<>>
    /\ seenCalls = {} /\ seenOutputs = {} /\ seenIds = {}

(* The request goes on, or is refused.                                     *)
Becomes(next) == intake' = next /\ UNCHANGED <<entries, history, seenVars>>

(* The loop begins.                                                        *)
BeginHistory(q) ==
    /\ intake = "idle"
    /\ intake' = "history" /\ entries' = q /\ history' = q /\ UNCHANGED seenVars

\* mutant: a result is only checked against the calls, not against results
OutputIsDueTwice(o) == o \in seenCalls

(* The result of a call that came before it, of its kind, and the first.   *)
OutputIsDue(o) == o \in seenCalls /\ o[1] \notin seenOutputs

EntryFits(e) ==
    /\ e.id \cap seenIds = {}
    /\ \A c \in e.call : c[1] \notin {s[1] : s \in seenCalls}
    /\ \A o \in e.output : OutputIsDue(o)

(* One step of the loop.                                                   *)
ReadEntry ==
    /\ intake = "history" /\ history # <<>>
    /\ LET e == Head(history) IN
       IF EntryFits(e)
       THEN /\ history' = Tail(history)
            /\ seenIds' = seenIds \cup e.id
            /\ seenCalls' = seenCalls \cup e.call
            /\ seenOutputs' = seenOutputs \cup {o[1] : o \in e.output}
            /\ UNCHANGED <<intake, entries>>
       ELSE Becomes("invalid_history")

(* The parser returns: its sets are gone.                                  *)
EndHistory ==
    /\ intake = "history" /\ history = <<>>
    /\ intake' = "parsed" /\ seenCalls' = {} /\ seenOutputs' = {} /\ seenIds' = {}
    /\ UNCHANGED <<entries, history>>

(* The request is over.                                                    *)
Forget ==
    /\ intake = "sent"
    /\ intake' = "idle" /\ entries' = <<>> /\ history' = <<>>
    /\ seenCalls' = {} /\ seenOutputs' = {} /\ seenIds' = {}

(* The history by itself, for any request: what RequestContracts and the   *)
(* exchange do to these variables.                                         *)
HistoryNext ==
    \/ (\E S : entries' \in Seq(S)) /\ BeginHistory(entries')
    \/ ReadEntry
    \/ EndHistory
    \/ \E why \in {"malformed", "invalid_tools", "refused"} : Becomes(why)
    \/ intake = "parsed" /\ Becomes("replacing")
    \/ intake = "replacing" /\ Becomes("sent")
    \/ Forget

HistorySpec == HistoryInit /\ [][HistoryNext]_historyVars

----------------------------------------------------------------------------

(* A history is paired: no item ID and no call ID twice, and every result  *)
(* answers a call of its own kind before it, which no other result answers.*)
Paired(q) ==
    /\ \A i, j \in DOMAIN q : i # j =>
        /\ q[i].id \cap q[j].id = {}
        /\ {c[1] : c \in q[i].call} \cap {c[1] : c \in q[j].call} = {}
        /\ {o[1] : o \in q[i].output} \cap {o[1] : o \in q[j].output} = {}
    /\ \A j \in DOMAIN q : q[j].output \subseteq UNION {q[i].call : i \in 1 .. j - 1}

(* The parsers accept exactly the paired histories: the incremental sets   *)
(* seen_calls, seen_outputs and seen_ids decide what the definition over   *)
(* the whole history says.                                                 *)
HistoryIsPaired ==
    /\ intake \in {"parsed", "replacing", "sent"} => Paired(entries)
    /\ intake = "invalid_history" => ~Paired(entries)
=============================================================================
