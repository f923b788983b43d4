-------------------------- MODULE ProviderTransport -------------------------
(***************************************************************************)
(* One upstream call: OpenAICompatibleProvider.chat_completion             *)
(* (gateway/routing/base.py, the chat route) and ResponsesProvider._open,  *)
(* _complete_at and _stream_at (gateway/routing/responses.py, inherited by *)
(* the Messages adapter), over httpx and an upstream that may refuse,      *)
(* break, stall or trickle at every stage.                                 *)
(*                                                                         *)
(* httpx takes its timeout per operation: connecting, writing, waiting for *)
(* the headers and each read of the body start a timer of their own.       *)
(***************************************************************************)
EXTENDS Integers, EgressRules

CONSTANTS
    Adapters,       \* which of chat, complete and stream make the call
    MaxRetries,
    Timeout,        \* the provider's timeout_seconds
    MaxBackoff,     \* BACKOFF_CAP_SECONDS
    MaxChunks,      \* max_response_bytes, in reads
    Targets,        \* the destinations operators configure (EgressRules)
    Answers,        \* what a host name may resolve to, from time to time
    ResolveTime,    \* bound: how long egress validation may resolve a name
    MaxTime         \* bound on the clock

ASSUME TransportAssumption ==
    /\ Adapters \subseteq {"chat", "complete", "stream"}
    /\ {MaxRetries, MaxBackoff, MaxChunks, ResolveTime} \subseteq Nat
    /\ Timeout \in Nat \ {0} /\ MaxTime \in Nat
    /\ \A t \in Targets : t.local_routing \in BOOLEAN /\ t.egress_allow_private \in BOOLEAN

VARIABLES
    adapter,
    target,     \* the destination it is for
    addresses,  \* those that the last validation of the call has found
    now,
    at,         \* the await at which the call stands
    attempt,
    budget,     \* remaining, as computed for this attempt
    until,      \* when the wait in progress is over by itself
    began,      \* history: when the attempt began
    since,      \* history: when the wait in progress began
    upstream,   \* this attempt's request: none, received or processed
    processed,  \* history: how often the upstream processed the request
    declined,   \* history: how often it did, and answered with a retryable status
    response,   \* the httpx response of this attempt
    chunks,     \* reads of the body so far
    result

call == <<adapter, target, addresses>>
work == <<upstream, processed, declined>>
timing == <<budget, until, began, since>>
vars == <<call, now, at, attempt, timing, work, response, chunks, result>>

Native == adapter # "chat"
InFlight == {"connecting", "writing", "waiting", "reading"}
Waits == InFlight \cup {"validating", "sleeping"}

TypeOK ==
    /\ adapter \in Adapters /\ target \in Targets
    /\ now \in 0 .. MaxTime
    /\ at \in Waits \cup {"loop", "yielded", "done"}
    /\ attempt \in 0 .. MaxRetries
    /\ budget \in 0 .. Timeout /\ until \in Nat
    /\ began \in 0 .. MaxTime /\ since \in 0 .. MaxTime
    /\ upstream \in {"none", "received", "processed"}
    /\ processed \in 0 .. MaxRetries + 1 /\ declined \in 0 .. MaxRetries + 1
    /\ response \in {"none", "open", "closed"}
    /\ chunks \in 0 .. MaxChunks
    /\ result \in {"none", "ok", "failed", "cancelled"}

Permits(t, answer) == validate(PolicyOf(t), t.url, answer)

(* The client was built: its constructor has validated the URL.            *)
Init ==
    /\ adapter \in Adapters
    /\ target \in Targets /\ \E answer \in Answers : Permits(target, answer)
    /\ addresses = {}
    /\ now = 0 /\ at = "loop" /\ attempt = 0 /\ budget = Timeout /\ until = 0
    /\ began = 0 /\ since = 0
    /\ upstream = "none" /\ processed = 0 /\ declined = 0 /\ response = "none" /\ chunks = 0
    /\ result = "none"

-----------------------------------------------------------------------------

(* finally: await response.aclose()                                        *)
Released == IF response = "open" THEN "closed" ELSE response

End(r) ==
    /\ at' = "done" /\ result' = r /\ response' = Released
    /\ UNCHANGED <<call, now, attempt, timing, chunks>>

Fail == End("failed") /\ UNCHANGED work

(* Each operation of the attempt has the whole budget again.               *)
Enter(stage) ==
    /\ at' = stage /\ until' = now + budget /\ since' = now
    /\ UNCHANGED <<call, now, attempt, budget, began, result>>

InTime == now < Timeout

\* mutant: the timeout is the client's, and each attempt has the whole of it
RemainingOfClient == Timeout

(* The deadline shrinks with every retry.                                  *)
Remaining == Timeout - now

Connect ==
    /\ at' = "connecting" /\ budget' = Remaining /\ until' = now + Remaining
    /\ began' = now /\ since' = now
    /\ upstream' = "none" /\ response' = "none" /\ chunks' = 0
    /\ UNCHANGED <<adapter, target, now, attempt, processed, declined, result>>

(* The head of the attempt loop; the native adapters validate egress in a  *)
(* thread before every attempt, the chat adapter once before the loop.     *)
Attempt ==
    /\ at = "loop"
    /\ \/ ~InTime /\ Fail
       \/ InTime /\ ~Native /\ addresses # {} /\ Connect /\ UNCHANGED addresses
       \/ /\ InTime /\ Native
          /\ at' = "validating" /\ until' = now + ResolveTime /\ since' = now
          /\ UNCHANGED <<call, now, attempt, budget, began, work, response, chunks, result>>

(* self._egress.validate                                                   *)
EgressValid(answer) == Permits(target, answer)

(* The chat adapter's validation, before its deadline begins.              *)
ValidatedOnce ==
    /\ at = "loop" /\ ~Native /\ addresses = {}
    /\ \E answer \in Answers :
         IF EgressValid(answer)
         THEN /\ addresses' = _resolve(target.url, answer)
              /\ UNCHANGED <<adapter, target, now, at, attempt, timing, work,
                             response, chunks, result>>
         ELSE Fail

Validated ==
    /\ at = "validating"
    /\ \E answer \in Answers :
         IF EgressValid(answer) /\ InTime
         THEN Connect /\ addresses' = _resolve(target.url, answer)
         ELSE Fail

(* Another attempt after a pause, or the last error.                       *)
RetryOrFail(pauses) ==
    IF attempt < MaxRetries
    THEN /\ \E p \in pauses : until' = now + p
         /\ at' = "sleeping" /\ since' = now /\ response' = Released
         /\ UNCHANGED <<call, now, attempt, budget, began, chunks, result>>
    ELSE End("failed")

Least(a, b) == IF a < b THEN a ELSE b

(* The native adapters do not sleep longer than what they take to remain.  *)
Pauses(remaining) ==
    IF Native THEN {Least(b, remaining) : b \in 0 .. MaxBackoff} ELSE 0 .. MaxBackoff

\* mutant: the native adapters retry any transport error, as the chat adapter
ReplaysAnything(error) == TRUE

(* except httpx.TransportError (chat), except httpx.ConnectError (native). *)
Replays(error) == ~Native \/ error = "ConnectError"

TransportError(error) ==
    IF Replays(error) THEN RetryOrFail(Pauses(budget)) ELSE End("failed")

Connected ==
    /\ at = "connecting"
    /\ \/ Enter("writing") /\ UNCHANGED <<work, response, chunks>>
       \/ TransportError("ConnectError") /\ UNCHANGED work

Processes ==
    upstream' = "processed" /\ processed' = processed + 1 /\ UNCHANGED declined

(* The request is written; or the connection breaks before the last byte   *)
(* is acknowledged, whatever the upstream has made of it.                  *)
Written ==
    /\ at = "writing"
    /\ \/ /\ Enter("waiting") /\ upstream' = "received"
          /\ UNCHANGED <<processed, declined, response, chunks>>
       \/ /\ TransportError("WriteError")
          /\ Processes \/ UNCHANGED work

(* External: the upstream works on a request it has received.              *)
UpstreamProcesses ==
    /\ at = "waiting" /\ upstream = "received" /\ Processes
    /\ UNCHANGED <<call, now, at, attempt, timing, response, chunks, result>>

(* The headers arrive, or the connection breaks while they are awaited.    *)
(* What is retried is decided by the status alone, a 429 or a 5xx, which   *)
(* says nothing of what the upstream has done with the request.            *)
Answered ==
    /\ at = "waiting"
    /\ \/ /\ upstream = "processed"
          /\ Enter("reading") /\ response' = "open"
          /\ UNCHANGED <<work, chunks>>
       \/ /\ IF Native /\ ~InTime THEN End("failed")
             ELSE RetryOrFail(Pauses(Remaining))
          /\ declined' = declined + (IF upstream = "processed" THEN 1 ELSE 0)
          /\ UNCHANGED <<upstream, processed>>
       \/ Fail
       \/ TransportError("ReadError") /\ UNCHANGED work

(* A read of the body: one more chunk, too many, the end, or a break.      *)
BodyRead ==
    /\ at = "reading"
    /\ UNCHANGED work
    /\ \/ /\ chunks < MaxChunks
          /\ Enter(IF adapter = "stream" THEN "yielded" ELSE "reading")
          /\ chunks' = chunks + 1 /\ UNCHANGED response
       \/ End("ok") \/ End("failed")
       \/ adapter = "chat" /\ TransportError("ReadError")

(* The consumer of a stream asks for the next chunk.                       *)
Resume ==
    /\ at = "yielded"
    /\ Enter("reading") /\ UNCHANGED <<work, response, chunks>>

Woken ==
    /\ at = "sleeping" /\ now >= until
    /\ at' = "loop" /\ attempt' = attempt + 1
    /\ UNCHANGED <<call, now, timing, work, response, chunks, result>>

\* mutant: httpx is given a timeout for connecting only
TimedWithoutRead == {"connecting", "writing", "waiting"}

(* The operations that httpx's timeout covers.                             *)
Timed == InFlight

(* httpx.TimeoutException: never retried.                                  *)
TimedOut == at \in Timed /\ now >= until /\ Fail

(* async with asyncio.timeout(self._timeout) of _complete_at.              *)
Total == adapter = "complete"

TotalElapsed == Total /\ at # "done" /\ now >= Timeout /\ Fail

(* The request is cancelled, or the consumer closes the stream.            *)
Cancel ==
    /\ at \notin {"loop", "done"}
    /\ End("cancelled") /\ UNCHANGED work

(* Time passes while the call waits, and no timer is overdue.              *)
Tick ==
    /\ now < MaxTime /\ at \in Waits
    /\ at \in Timed \cup (Waits \ InFlight) => now < until
    /\ Total => now < Timeout
    /\ now' = now + 1
    /\ UNCHANGED <<call, at, attempt, timing, work, response, chunks, result>>

Next ==
    \/ ValidatedOnce \/ Attempt \/ Validated \/ Connected \/ Written \/ UpstreamProcesses
    \/ Answered \/ BodyRead \/ Resume \/ Woken \/ TimedOut \/ TotalElapsed
    \/ Cancel \/ Tick

(* The gateway's own steps happen, timers fire and a name is resolved or   *)
(* not; nothing is expected of the upstream and of a stream's consumer.    *)
Fairness ==
    /\ WF_vars(ValidatedOnce) /\ WF_vars(Attempt) /\ WF_vars(Validated) /\ WF_vars(Woken)
    /\ WF_vars(TimedOut) /\ WF_vars(TotalElapsed) /\ WF_vars(Tick)

Spec == Init /\ [][Next]_vars /\ Fairness

-----------------------------------------------------------------------------
(* Properties                                                              *)

(* "Retries only failures where the upstream demonstrably did not process  *)
(* the request, or explicitly asked us to come back": the work is done     *)
(* once, and once more for each time that the upstream did it and still    *)
(* answered with a status that is retried.                                 *)
RepeatsWhenAsked == processed <= declined + 1

(* The native adapters do keep to it: a connection that breaks, at         *)
(* whatever stage, never has them send again what may have been received.  *)
NativeRepeatsWhenAsked == Native => RepeatsWhenAsked

(* What the deadline comes to when httpx takes it for each operation anew: *)
(* an upstream that falls silent, at whatever stage of whatever attempt,   *)
(* holds a call no longer than what was left of the deadline when that     *)
(* attempt began; and a native adapter does not pause longer either.       *)
SilenceIsBounded ==
    at \in InFlight \/ (Native /\ at = "sleeping") => now - since <= Timeout - began

(* What an operator relies on: with local routing on, "local" is a model   *)
(* on the operator's own network; and nothing else is, unless allowed.     *)
Allowed(t, found) ==
    /\ t.destination = "local" /\ t.local_routing =>
         \A a \in found : a.carried \in {"loopback", "private", "shared", "unique local"}
    /\ t.destination # "local" /\ ~t.egress_allow_private =>
         \A a \in found : a.shown \in {"public", "shared"}

(* Whatever was slept in between and wherever the host name has moved, an  *)
(* attempt starts only before the deadline, and only with addresses that   *)
(* were found, all of them, where the destination may be: by the call in   *)
(* the chat adapter, by the attempt itself in the native ones.             *)
AttemptsAreDue ==
    [][at' = "connecting" /\ at # "connecting" =>
         /\ now < Timeout
         /\ addresses' # {} /\ Allowed(target, addresses')
         /\ Native => at = "validating"]_vars

(* Every call ends, with an upstream that never answers, too, and gives    *)
(* its response's pooled connection back; a stream whose consumer does not *)
(* come back is the business of AgentLifecycle.                            *)
CallsEnd == <>(at = "yielded" \/ (at = "done" /\ response # "open"))
=============================================================================
