-------------------------- MODULE AgentLifecycle ---------------------------
(***************************************************************************)
(* An agent request from arrival to its end: handle_request and            *)
(* AgentStreamingResponse (gateway/api/agent.py), AgentRuntime.complete,   *)
(* .stream and StreamLifecycle (gateway/api/agent_runtime.py).             *)
(*                                                                         *)
(* All of it runs on one event loop, so what happens between two awaits is *)
(* one action.  A stream has two owners: its generator, which may never be *)
(* started, and the response that drives it; both end by calling finish.   *)
(* The audit sink may raise.                                               *)
(***************************************************************************)
EXTENDS Integers, FiniteSets, Sequences

CONSTANTS
    Requests,
    MaxConcurrent   \* settings.agent_max_concurrent

ASSUME LifecycleAssumption ==
    /\ IsFiniteSet(Requests)
    /\ MaxConcurrent \in Nat \ {0}

VARIABLES
    active,     \* AgentRuntime.active
    at,         \* where the request stands
    gen,        \* its generator: at which await or yield it is suspended
    why,        \* what the generator will report once it has cleaned up
    finished,   \* StreamLifecycle.finished
    upstream,   \* the provider's stream: none, open or closed
    ended,      \* history: the provider's answer is complete
    audits      \* AgentRuntime.audit calls: what was reported, and written?

vars == <<active, at, gen, why, finished, upstream, ended, audits>>

HandlerPlaces == {"reading", "preparing", "completing"}
ResponsePlaces == {"handed", "streaming", "closing"}
Suspended == {"awaiting", "yielding", "cleanup", "erroring"}
Reports == {"ok", "rejected", "cancelled", "failed"}

TypeOK ==
    /\ active \in Nat
    /\ at \in [Requests -> {"new", "done"} \cup HandlerPlaces \cup ResponsePlaces]
    /\ gen \in [Requests -> {"none", "unstarted", "closed"} \cup Suspended]
    /\ why \in [Requests -> Reports]
    /\ finished \in [Requests -> BOOLEAN]
    /\ upstream \in [Requests -> {"none", "open", "closed"}]
    /\ ended \in [Requests -> BOOLEAN]
    /\ audits \in [Requests -> Seq([report : Reports, written : BOOLEAN])]

Init ==
    /\ active = 0
    /\ at = [r \in Requests |-> "new"]
    /\ gen = [r \in Requests |-> "none"]
    /\ why = [r \in Requests |-> "ok"]
    /\ finished = [r \in Requests |-> FALSE]
    /\ upstream = [r \in Requests |-> "none"]
    /\ ended = [r \in Requests |-> FALSE]
    /\ audits = [r \in Requests |-> <<>>]

streamVars == <<gen, why, finished, upstream>>

\* mutant: the slot is given back only if the event was written
ReleasedIfWritten(n, written) == IF written THEN n - 1 ELSE n

(* release() stands in a finally clause: it runs when the sink raises, too. *)
Released(n, written) == n - 1

Audited(r, report, written) ==
    audits' = [audits EXCEPT ![r] = Append(@, [report |-> report, written |-> written])]

-----------------------------------------------------------------------------
(* handle_request                                                          *)

admit == active < MaxConcurrent

(* Authentication, session, headers and admission: no await in between.    *)
Arrive(r) ==
    /\ at[r] = "new"
    /\ \/ /\ admit
          /\ active' = active + 1
          /\ at' = [at EXCEPT ![r] = "reading"]
          /\ UNCHANGED audits
       \/ /\ at' = [at EXCEPT ![r] = "done"]
          /\ \E w \in BOOLEAN : Audited(r, "rejected", w)
          /\ UNCHANGED active
    /\ UNCHANGED <<streamVars, ended>>

(* The handler ends before a stream exists: audit, then release.           *)
Leave(r, report) ==
    /\ at' = [at EXCEPT ![r] = "done"]
    /\ \E w \in BOOLEAN : Audited(r, report, w) /\ active' = Released(active, w)
    /\ UNCHANGED <<streamVars, ended>>

(* The body is read, in time or not; it is parsed, or refused.             *)
BodyRead(r) ==
    /\ at[r] = "reading"
    /\ \/ /\ at' = [at EXCEPT ![r] = "preparing"]
          /\ UNCHANGED <<active, streamVars, ended, audits>>
       \/ Leave(r, "rejected")

(* runtime.prepare returns or raises; a stream is handed to the response   *)
(* together with the slot.                                                 *)
Prepared(r) ==
    /\ at[r] = "preparing"
    /\ \/ Leave(r, "rejected")
       \/ /\ at' = [at EXCEPT ![r] = "completing"]
          /\ UNCHANGED <<active, streamVars, ended, audits>>
       \/ /\ at' = [at EXCEPT ![r] = "handed"]
          /\ gen' = [gen EXCEPT ![r] = "unstarted"]
          /\ UNCHANGED <<active, why, finished, upstream, ended, audits>>

(* runtime.complete audits every way it can end; the handler releases.     *)
Completed(r) ==
    /\ at[r] = "completing"
    /\ \E report \in {"ok", "failed"} :
         /\ at' = [at EXCEPT ![r] = "done"]
         /\ \E w \in BOOLEAN : Audited(r, report, w) /\ active' = Released(active, w)
         /\ ended' = [ended EXCEPT ![r] = report = "ok"]
    /\ UNCHANGED streamVars

(* The handler's task is cancelled at one of its awaits.                   *)
CancelHandler(r) ==
    /\ at[r] \in HandlerPlaces
    /\ Leave(r, "cancelled")

-----------------------------------------------------------------------------
(* StreamLifecycle.finish                                                  *)

\* mutant: finish is not idempotent
FinishAgain(r, report) ==
    /\ finished' = [finished EXCEPT ![r] = TRUE]
    /\ \E w \in BOOLEAN : Audited(r, report, w) /\ active' = Released(active, w)

finish(r, report) ==
    IF finished[r] THEN UNCHANGED <<finished, audits, active>>
    ELSE /\ finished' = [finished EXCEPT ![r] = TRUE]
         /\ \E w \in BOOLEAN : Audited(r, report, w) /\ active' = Released(active, w)

-----------------------------------------------------------------------------
(* AgentRuntime.stream: the generator                                      *)

(* The response has sent its headers and asks for the first event.         *)
Start(r) ==
    /\ at[r] = "handed"
    /\ at' = [at EXCEPT ![r] = "streaming"]
    /\ \/ /\ gen' = [gen EXCEPT ![r] = "awaiting"]
          /\ upstream' = [upstream EXCEPT ![r] = "open"]
          /\ UNCHANGED why
       \/ \* no provider, or the local-routing tripwire
          /\ gen' = [gen EXCEPT ![r] = "erroring"]
          /\ why' = [why EXCEPT ![r] = "failed"]
          /\ UNCHANGED upstream
    /\ UNCHANGED <<active, finished, ended, audits>>

(* A restored event is yielded and sent.                                   *)
Event(r) ==
    /\ gen[r] = "awaiting"
    /\ gen' = [gen EXCEPT ![r] = "yielding"]
    /\ UNCHANGED <<active, at, why, finished, upstream, ended, audits>>

Sent(r) ==
    /\ gen[r] = "yielding"
    /\ gen' = [gen EXCEPT ![r] = "awaiting"]
    /\ UNCHANGED <<active, at, why, finished, upstream, ended, audits>>

Unwind(r, report) ==
    /\ gen' = [gen EXCEPT ![r] = "cleanup"]
    /\ why' = [why EXCEPT ![r] = report]
    /\ UNCHANGED <<active, at, finished, upstream, audits>>

(* The provider's stream ends, breaks, goes idle or violates the protocol. *)
ProviderEnds(r) ==
    /\ gen[r] = "awaiting"
    /\ \/ /\ ended' = [ended EXCEPT ![r] = TRUE]
          /\ Unwind(r, "ok")
       \/ /\ Unwind(r, "failed")
          /\ UNCHANGED ended

\* mutant: a client that leaves is reported as served
ReportOfCancelAsOk(r) == IF gen[r] = "erroring" THEN why[r] ELSE "ok"

(* GeneratorExit and CancelledError are reported as cancelled, except in   *)
(* the handler that is already reporting a failure.                        *)
ReportOfCancel(r) == IF gen[r] = "erroring" THEN why[r] ELSE "cancelled"

\* mutant: the deadline covers only the provider's side
DeadlineOfProvider == {"awaiting", "cleanup"}

(* The timeout is entered inside the generator and spans its yields.       *)
UnderDeadline == {"awaiting", "yielding", "cleanup"}

(* agent_stream_total_seconds.  The timeout cancels the task: inside the   *)
(* generator it becomes a failure, while an event is being sent it is a    *)
(* cancellation of the response.                                           *)
TotalDeadline(r) ==
    /\ gen[r] \in UnderDeadline
    /\ Unwind(r, IF gen[r] = "yielding" \/ why[r] = "cancelled"
                 THEN "cancelled" ELSE "failed")
    /\ UNCHANGED ended

Closed == "closed"

(* chunks.aclose() is done: the error event is due, or the generator ends. *)
Cleaned(r) ==
    /\ gen[r] = "cleanup"
    /\ upstream' = [upstream EXCEPT ![r] = Closed]
    /\ IF why[r] = "failed"
       THEN /\ gen' = [gen EXCEPT ![r] = "erroring"]
            /\ UNCHANGED <<active, at, finished, audits>>
       ELSE /\ gen' = [gen EXCEPT ![r] = "closed"]
            /\ at' = [at EXCEPT ![r] = "closing"]
            /\ finish(r, why[r])
    /\ UNCHANGED <<why, ended>>

(* The error event has been sent.                                          *)
ErrorSent(r) ==
    /\ gen[r] = "erroring"
    /\ gen' = [gen EXCEPT ![r] = "closed"]
    /\ at' = [at EXCEPT ![r] = "closing"]
    /\ finish(r, why[r])
    /\ UNCHANGED <<why, upstream, ended>>

-----------------------------------------------------------------------------
(* AgentStreamingResponse.__call__                                         *)

(* The client is gone or the server cancels the response: an unstarted     *)
(* generator is closed without running, a started one unwinds.             *)
Disconnect(r) ==
    \/ /\ at[r] = "handed"
       /\ gen' = [gen EXCEPT ![r] = "closed"]
       /\ at' = [at EXCEPT ![r] = "closing"]
       /\ UNCHANGED <<active, why, finished, upstream, ended, audits>>
    \/ /\ gen[r] \in {"awaiting", "yielding", "cleanup"}
       /\ Unwind(r, ReportOfCancel(r))
       /\ UNCHANGED ended
    \/ /\ gen[r] = "erroring"
       /\ gen' = [gen EXCEPT ![r] = "closed"]
       /\ at' = [at EXCEPT ![r] = "closing"]
       /\ finish(r, ReportOfCancel(r))
       /\ UNCHANGED <<why, upstream, ended>>

(* body_iterator.aclose() is done; finish() with its default report.       *)
ResponseEnds(r) ==
    /\ at[r] = "closing"
    /\ at' = [at EXCEPT ![r] = "done"]
    /\ finish(r, "cancelled")
    /\ UNCHANGED <<gen, why, upstream, ended>>

-----------------------------------------------------------------------------

HandlerStep(r) == BodyRead(r) \/ Prepared(r) \/ Completed(r)
GeneratorStep(r) == Event(r) \/ Sent(r) \/ ProviderEnds(r) \/ Cleaned(r)
ClientStep(r) == Start(r) \/ ErrorSent(r) \/ Disconnect(r)

Next ==
    \E r \in Requests :
        \/ Arrive(r) \/ HandlerStep(r) \/ CancelHandler(r)
        \/ GeneratorStep(r) \/ TotalDeadline(r)
        \/ ClientStep(r) \/ ResponseEnds(r)

Spec == Init /\ [][Next]_vars

(* The body, detector and total deadlines end every wait of the handler    *)
(* and every wait inside a stream.  Outside of them, a client reads its    *)
(* headers and its error event or its connection breaks; a client need not *)
(* read the events of a stream.                                            *)
Undeadlined(r) == (at[r] = "handed" \/ gen[r] = "erroring") /\ ClientStep(r)

Fairness ==
    \A r \in Requests :
        /\ WF_vars(HandlerStep(r)) /\ WF_vars(TotalDeadline(r))
        /\ WF_vars(Cleaned(r)) /\ WF_vars(Undeadlined(r)) /\ WF_vars(ResponseEnds(r))

FairSpec == Spec /\ Fairness

-----------------------------------------------------------------------------
(* Properties                                                              *)

(* The request holds one of the agent_max_concurrent slots.                *)
HoldsSlot(r) ==
    \/ at[r] \in HandlerPlaces
    \/ at[r] \in ResponsePlaces /\ ~finished[r]

Holders == {r \in Requests : HoldsSlot(r)}

(* No slot leaks and none is given back twice, wherever the request is     *)
(* cancelled, whoever finishes it, and whether or not the sink raises: the *)
(* counter is the number of requests in progress and keeps the limit.      *)
SlotsAreHeld == active = Cardinality(Holders) /\ active <= MaxConcurrent

(* SI-13.  Every request is reported exactly once: by the handler, by      *)
(* complete, by the generator, or by the response of a generator that      *)
(* never ran.                                                              *)
ReportedOnce ==
    \A r \in Requests :
        /\ Len(audits[r]) <= 1
        /\ at[r] = "done" => Len(audits[r]) = 1

ReportIsTrue(r) ==
    \A i \in DOMAIN audits[r] :
        /\ audits[r][i].report = "ok" => ended[r]
        /\ why[r] = "failed" /\ gen[r] = "closed" => audits[r][i].report = "failed"

(* The report is true: success is reported only of a complete answer, and  *)
(* a stream that got its error event is not reported as merely cancelled.  *)
ReportsAreTrue == \A r \in Requests : ReportIsTrue(r)

(* A stream's upstream connection does not outlive its request.            *)
UpstreamClosed == \A r \in Requests : at[r] = "done" => upstream[r] # "open"

(* Every admitted request ends, so a full gateway becomes free again.      *)
SlotsComeBack == \A r \in Requests : HoldsSlot(r) ~> ~HoldsSlot(r)

-----------------------------------------------------------------------------
(* The inductive invariant behind the theorems of AgentProofs              *)

Fresh(r) ==
    /\ ~finished[r] /\ audits[r] = <<>> /\ why[r] = "ok" /\ ~ended[r]
    /\ upstream[r] = "none"

(* What is known of a request by the place where it stands.                *)
InPlace(r) ==
    /\ at[r] \in {"new"} \cup HandlerPlaces => gen[r] = "none" /\ Fresh(r)
    /\ at[r] = "handed" => gen[r] = "unstarted" /\ Fresh(r)
    /\ at[r] = "streaming" => gen[r] \in Suspended /\ ~finished[r] /\ audits[r] = <<>>
    /\ at[r] = "closing" =>
         /\ gen[r] = "closed"
         /\ ~finished[r] => audits[r] = <<>> /\ why[r] = "ok"
         /\ finished[r] => Len(audits[r]) = 1
    /\ at[r] = "done" => gen[r] \in {"none", "closed"} /\ Len(audits[r]) = 1
    /\ gen[r] = "erroring" => why[r] = "failed"
    /\ gen[r] \in {"none", "erroring", "closed"} => upstream[r] # "open"
    /\ gen[r] = "cleanup" /\ why[r] = "ok" => ended[r]

LifecycleInv == TypeOK /\ (\A r \in Requests : InPlace(r)) /\ SlotsAreHeld /\ ReportsAreTrue
=============================================================================
