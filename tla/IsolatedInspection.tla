------------------------- MODULE IsolatedInspection -------------------------
(***************************************************************************)
(* inspect_isolated (gateway/inspection/agent.py): every agent request has *)
(* its texts inspected in a process of its own, which sends its answer     *)
(* through a pipe.  The parent polls, reads the clock and asks whether the *)
(* child is alive one after the other, receives in a thread, and cleans up *)
(* with awaits at any of which the request can be cancelled.               *)
(*                                                                         *)
(* An answer has two parts: what is read first, and the rest of its body.  *)
(* The thread looks its connection's descriptor up for the first and reads *)
(* on with the number it has then; the request may meanwhile have closed   *)
(* it, and the next pipe gets the lowest number that is free.              *)
(***************************************************************************)
EXTENDS Integers, FiniteSets

CONSTANTS
    Requests,
    Cancellable,\* the requests whose tasks somebody may cancel
    Pool        \* threads of the event loop's default executor

ASSUME RequestsAssumption == IsFiniteSet(Requests)
ASSUME CancellableAssumption == Cancellable \subseteq Requests
ASSUME PoolAssumption == Pool \in Nat \ {0}

Parts == 2
Numbers == 1 .. Cardinality(Requests)
Closed == 0
NoPipe == "none"

ASSUME NoPipeAssumption == NoPipe \notin Requests

VARIABLES
    place,      \* where inspect_isolated stands
    outcome,    \* what it returns or raises, once that is decided
    late,       \* deadline_seconds have passed, while it still matters
    interrupted,\* it was cancelled while it waited for the child to end
    number,     \* the descriptor of its reader
    child,      \* the process
    ok,         \* its answer is written and is (True, results)
    wrote,      \* parts of the answer written to the pipe, while there is one
    killed,     \* SIGKILL is on its way
    taken,      \* parts that somebody has read from the pipe
    thread,     \* reader.recv in a thread
    handle,     \* the descriptor that the thread looked up last
    on,         \* the pipe in whose read it is blocked
    got,        \* parts it has read
    foul,       \* one of them was not the next part of its own answer
    joiner      \* process.join in a thread

parent == <<place, outcome, late, interrupted, number>>
pipe == <<ok, wrote, taken>>
receiver == <<thread, handle, on, got, foul>>
vars == <<parent, child, killed, pipe, receiver, joiner>>

Places == {"new", "polling", "checking", "receiving", "joining", "reaping",
           "ended"}
Outcomes == {"none", "returned", "refused", "error", "cancelled"}

TypeOK ==
    /\ place \in [Requests -> Places] /\ outcome \in [Requests -> Outcomes]
    /\ late \in [Requests -> BOOLEAN] /\ interrupted \in [Requests -> BOOLEAN]
    /\ number \in [Requests -> Numbers \cup {Closed}]
    /\ child \in [Requests -> {"unborn", "running", "gone"}]
    /\ ok \in [Requests -> BOOLEAN] /\ killed \in [Requests -> BOOLEAN]
    /\ wrote \in [Requests -> 0 .. Parts] /\ taken \in [Requests -> 0 .. Parts]
    /\ thread \in [Requests -> {"none", "queued", "ready", "reading", "done"}]
    /\ handle \in [Requests -> Numbers \cup {Closed}]
    /\ on \in [Requests -> Requests \cup {NoPipe}]
    /\ got \in [Requests -> 0 .. Parts] /\ foul \in [Requests -> BOOLEAN]
    /\ joiner \in [Requests -> {"none", "queued", "joining"}]

Init ==
    /\ place = [r \in Requests |-> "new"] /\ outcome = [r \in Requests |-> "none"]
    /\ late = [r \in Requests |-> FALSE] /\ interrupted = [r \in Requests |-> FALSE]
    /\ number = [r \in Requests |-> Closed]
    /\ child = [r \in Requests |-> "unborn"] /\ ok = [r \in Requests |-> FALSE]
    /\ wrote = [r \in Requests |-> 0] /\ killed = [r \in Requests |-> FALSE]
    /\ taken = [r \in Requests |-> 0]
    /\ thread = [r \in Requests |-> "none"] /\ handle = [r \in Requests |-> Closed]
    /\ on = [r \in Requests |-> NoPipe] /\ got = [r \in Requests |-> 0]
    /\ foul = [r \in Requests |-> FALSE]
    /\ joiner = [r \in Requests |-> "none"]

(* The child closes its end once it has sent, and with its death.          *)
AtEnd(p) == wrote[p] = Parts \/ child[p] = "gone"
Readable(p) == taken[p] < wrote[p] \/ AtEnd(p)

(* Threads of the executor that are in use.                                *)
Busy == Cardinality({r \in Requests : thread[r] \in {"ready", "reading"}})
      + Cardinality({r \in Requests : joiner[r] = "joining"})

-----------------------------------------------------------------------------
(* The parent.  What it does between two awaits is one step, except for    *)
(* the poll and the questions that follow it.                              *)

Moves(r, to) == place' = [place EXCEPT ![r] = to]

(* A pipe whose reader is closed, and which no thread is reading, is gone. *)
Gone(p) == /\ ok' = [ok EXCEPT ![p] = FALSE]
           /\ wrote' = [wrote EXCEPT ![p] = 0] /\ taken' = [taken EXCEPT ![p] = 0]

(* The finally block up to its first await: both ends are closed and a     *)
(* child gets SIGTERM.                                                     *)
Finally(r, how) ==
    /\ outcome' = [outcome EXCEPT ![r] = how]
    /\ number' = [number EXCEPT ![r] = Closed] /\ late' = [late EXCEPT ![r] = FALSE]
    /\ IF \E q \in Requests : on[q] = r THEN UNCHANGED pipe ELSE Gone(r)
    /\ IF child[r] = "unborn"
       THEN Moves(r, "ended") /\ UNCHANGED joiner
       ELSE Moves(r, "joining") /\ joiner' = [joiner EXCEPT ![r] = "queued"]

Lowest(n) == \A m \in 1 .. n : m < n <=> \E q \in Requests : number[q] = m

(* Pipe, start and the close of the writer.  The detectors may not be      *)
(* serializable, or the system refuse a process.                           *)
Start(r) ==
    /\ place[r] = "new"
    /\ \/ \E n \in Numbers : Lowest(n) /\ number' = [number EXCEPT ![r] = n]
          /\ child' = [child EXCEPT ![r] = "running"]
          /\ Moves(r, "polling") /\ UNCHANGED <<outcome, late, pipe, joiner>>
       \/ Finally(r, "refused") /\ UNCHANGED child
    /\ UNCHANGED <<interrupted, killed, receiver>>

(* What remains of the deadline becomes the limit of the receiving thread. *)
Poll(r) ==
    /\ place[r] = "polling"
    /\ IF ~Readable(r)
       THEN Moves(r, "checking") /\ UNCHANGED <<outcome, late, number, pipe, thread, joiner>>
       ELSE IF late[r]
       THEN Finally(r, "refused") /\ UNCHANGED thread
       ELSE /\ Moves(r, "receiving")
            /\ thread' = [thread EXCEPT ![r] = "queued"]
            /\ UNCHANGED <<outcome, late, number, pipe, joiner>>
    /\ UNCHANGED <<interrupted, child, killed, handle, on, got, foul>>

(* The clock, whether the child is alive, and a sleep of 5 ms.             *)
Check(r) ==
    /\ place[r] = "checking"
    /\ IF late[r] \/ child[r] = "gone"
       THEN Finally(r, "refused")
       ELSE Moves(r, "polling") /\ UNCHANGED <<outcome, late, number, pipe, joiner>>
    /\ UNCHANGED <<interrupted, child, killed, receiver>>

NoThread(r) ==
    /\ thread' = [thread EXCEPT ![r] = "none"] /\ handle' = [handle EXCEPT ![r] = Closed]
    /\ got' = [got EXCEPT ![r] = 0] /\ foul' = [foul EXCEPT ![r] = FALSE]

(* What the received bytes lead to.  An end of file, a failed read or an   *)
(* odd value is a refusal; bytes that do not unpickle raise what nobody    *)
(* here converts.                                                          *)
Verdict(r) ==
    IF got[r] = Parts /\ ~foul[r] THEN {IF ok[r] THEN "returned" ELSE "refused"}
    ELSE IF foul[r] THEN {"refused", "error"} ELSE {"refused"}

Received(r) ==
    /\ place[r] = "receiving" /\ thread[r] = "done"
    /\ \E how \in Verdict(r) : Finally(r, how)
    /\ NoThread(r)
    /\ UNCHANGED <<interrupted, child, killed, on>>

(* A call that no thread has begun is withdrawn, a result that has come is *)
(* dropped; a thread that runs goes on, and nobody waits for it.           *)
Abandon(r) ==
    IF thread[r] \in {"queued", "done"} THEN NoThread(r)
    ELSE UNCHANGED <<thread, handle, got, foul>>

\* mutant: the receiving thread has no limit
NoLimit(r) == FALSE

(* async with asyncio.timeout(remaining)                                   *)
LimitReached(r) == late[r]

TimesOut(r) ==
    /\ place[r] = "receiving" /\ LimitReached(r)
    /\ Finally(r, "refused") /\ Abandon(r)
    /\ UNCHANGED <<interrupted, child, killed, on>>

(* At an await of the cleanup, a cancellation skips what is left of it.    *)
Cancel(r) ==
    /\ r \in Cancellable
    /\ \/ /\ place[r] \in {"polling", "receiving"}
          /\ Finally(r, "cancelled") /\ Abandon(r)
          /\ UNCHANGED interrupted
       \/ /\ place[r] \in {"joining", "reaping"}
          /\ outcome' = [outcome EXCEPT ![r] = "cancelled"] /\ Moves(r, "ended")
          /\ interrupted' = [interrupted EXCEPT ![r] = TRUE]
          /\ joiner' = [joiner EXCEPT ![r] = IF @ = "queued" THEN "none" ELSE @]
          /\ UNCHANGED <<late, number, pipe, thread, handle, got, foul>>
    /\ UNCHANGED <<child, killed, on>>

Elapse(r) ==
    /\ place[r] \in {"polling", "checking", "receiving"} /\ ~late[r]
    /\ late' = [late EXCEPT ![r] = TRUE]
    /\ UNCHANGED <<place, outcome, interrupted, number, child, killed, pipe, receiver, joiner>>

\* mutant: a child that survived SIGTERM is left to itself
OnlyTerminated(r) ==
    /\ Moves(r, "ended") /\ UNCHANGED <<outcome, killed>>
    /\ joiner' = [joiner EXCEPT ![r] = "none"]

(* The first join has returned: a child that is still alive is killed.  A  *)
(* child with the gateway's signal handlers survives SIGTERM.              *)
Escalate(r) ==
    IF child[r] = "gone"
    THEN /\ Moves(r, "ended") /\ UNCHANGED <<outcome, killed>>
         /\ joiner' = [joiner EXCEPT ![r] = "none"]
    ELSE /\ Moves(r, "reaping") /\ UNCHANGED outcome
         /\ killed' = [killed EXCEPT ![r] = TRUE]
         /\ joiner' = [joiner EXCEPT ![r] = "queued"]

(* process.close raises for a process that is still running, in place of   *)
(* whatever the request would have returned or raised.                     *)
Close(r) ==
    /\ Moves(r, "ended")
    /\ outcome' = [outcome EXCEPT ![r] = IF child[r] = "gone" THEN @ ELSE "error"]
    /\ joiner' = [joiner EXCEPT ![r] = "none"] /\ UNCHANGED killed

(* process.join returns: the child has ended, or half a second has passed. *)
JoinReturns(r) ==
    /\ joiner[r] = "joining"
    /\ CASE place[r] = "joining" -> Escalate(r)
         [] place[r] = "reaping" -> Close(r)
         [] OTHER -> /\ joiner' = [joiner EXCEPT ![r] = "none"]
                     /\ UNCHANGED <<place, outcome, killed>>
    /\ UNCHANGED <<late, interrupted, number, child, pipe, receiver>>

-----------------------------------------------------------------------------
(* The threads                                                             *)

RecvStarts(r) ==
    /\ thread[r] = "queued" /\ Busy < Pool
    /\ thread' = [thread EXCEPT ![r] = "ready"]
    /\ UNCHANGED <<parent, child, killed, pipe, handle, on, got, foul, joiner>>

JoinStarts(r) ==
    /\ joiner[r] = "queued" /\ Busy < Pool
    /\ joiner' = [joiner EXCEPT ![r] = "joining"]
    /\ UNCHANGED <<parent, child, killed, pipe, receiver>>

(* The number of the next call of read; a closed connection has none.      *)
Looks(r) == IF got[r] = 0 THEN number[r] ELSE handle[r]

(* A thread that ends when its request has gone on is nobody's.            *)
ThreadEnds(r) ==
    IF place[r] = "receiving"
    THEN /\ thread' = [thread EXCEPT ![r] = "done"]
         /\ UNCHANGED <<handle, got, foul>>
    ELSE NoThread(r)

(* The read of n parts is over; if nobody else holds it, so is the pipe.    *)
LetsGo(r, n) ==
    /\ on' = [on EXCEPT ![r] = NoPipe]
    /\ IF number[on[r]] = Closed /\ \A q \in Requests \ {r} : on[q] # on[r]
       THEN Gone(on[r])
       ELSE /\ taken' = [taken EXCEPT ![on[r]] = @ + n] /\ UNCHANGED <<ok, wrote>>

Reads(r) ==
    /\ thread[r] = "ready"
    /\ IF Looks(r) # Closed /\ \E p \in Requests : number[p] = Looks(r)
       THEN /\ on' = [on EXCEPT ![r] = CHOOSE p \in Requests : number[p] = Looks(r)]
            /\ handle' = [handle EXCEPT ![r] = Looks(r)]
            /\ thread' = [thread EXCEPT ![r] = "reading"]
            /\ UNCHANGED <<got, foul>>
       ELSE ThreadEnds(r) /\ UNCHANGED on
    /\ UNCHANGED <<parent, child, killed, pipe, joiner>>

(* Bytes come in.  Bytes that are not the next of its own answer may look  *)
(* like an error or like the beginning of something longer.                *)
Fetch(r) ==
    LET p == on[r]
        strange == foul[r] \/ p # r \/ taken[p] # got[r]
        last == got[r] + 1 >= Parts
    IN /\ thread[r] = "reading" /\ taken[p] < wrote[p]
       /\ LetsGo(r, 1)
       /\ \/ /\ last \/ strange
             /\ IF place[r] = "receiving"
                THEN /\ thread' = [thread EXCEPT ![r] = "done"]
                     /\ got' = [got EXCEPT ![r] = IF last THEN Parts ELSE @ + 1]
                     /\ foul' = [foul EXCEPT ![r] = strange] /\ UNCHANGED handle
                ELSE NoThread(r)
          \/ /\ ~last \/ strange
             /\ thread' = [thread EXCEPT ![r] = "ready"]
             /\ got' = [got EXCEPT ![r] = IF last THEN Parts ELSE @ + 1]
             /\ foul' = [foul EXCEPT ![r] = strange] /\ UNCHANGED handle
       /\ UNCHANGED <<parent, child, killed, joiner>>

\* mutant: the death of the child counts as the end of the file
EndAtDeath(r) ==
    /\ thread[r] = "reading" /\ AtEnd(on[r])
    /\ LetsGo(r, 0) /\ ThreadEnds(r)
    /\ UNCHANGED <<parent, child, killed, joiner>>

EndOfFile(r) ==
    /\ thread[r] = "reading" /\ taken[on[r]] = wrote[on[r]] /\ AtEnd(on[r])
    /\ LetsGo(r, 0) /\ ThreadEnds(r)
    /\ UNCHANGED <<parent, child, killed, joiner>>

-----------------------------------------------------------------------------
(* The child: _inspect_worker.  It may compute for ever, stop half way in  *)
(* its answer, or die: of SIGTERM, of its limits, of a pipe that nobody    *)
(* reads, or by itself.                                                    *)

Writes(r) ==
    /\ child[r] = "running" /\ wrote[r] < Parts
    /\ number[r] # Closed \/ \E q \in Requests : on[q] = r
    /\ wrote' = [wrote EXCEPT ![r] = @ + 1]
    /\ \E b \in {FALSE, wrote[r] + 1 = Parts} : ok' = [ok EXCEPT ![r] = b]
    /\ UNCHANGED <<parent, child, killed, taken, receiver, joiner>>

Dies(r) ==
    /\ child[r] = "running" /\ child' = [child EXCEPT ![r] = "gone"]
    /\ killed' = [killed EXCEPT ![r] = FALSE]
    /\ UNCHANGED <<parent, pipe, receiver, joiner>>

-----------------------------------------------------------------------------

Steps(r) == \/ Start(r) \/ Poll(r) \/ Check(r) \/ Received(r) \/ TimesOut(r)

Receiving(r) == RecvStarts(r) \/ Reads(r) \/ Fetch(r) \/ EndOfFile(r)

Joining(r) == JoinStarts(r) \/ JoinReturns(r)

Next == \E r \in Requests :
    \/ Steps(r) \/ Receiving(r) \/ Joining(r)
    \/ Cancel(r) \/ Elapse(r) \/ Writes(r) \/ Dies(r)

Spec == Init /\ [][Next]_vars

(* The event loop and the threads run, timers fire, and SIGKILL works.     *)
(* Nothing is assumed of a child that was not killed.                      *)
FairSpec ==
    /\ Spec
    /\ \A r \in Requests :
         /\ WF_vars(Steps(r)) /\ WF_vars(Receiving(r)) /\ WF_vars(Joining(r))
         /\ WF_vars(Elapse(r)) /\ WF_vars(killed[r] /\ Dies(r))

-----------------------------------------------------------------------------
(* Properties                                                              *)

(* An answer of success that was all in the pipe when its request was      *)
(* refused, in time, was lost in one of two ways: the child had ended      *)
(* between the poll and is_alive, or the thread of another request had     *)
(* read some of it through a number that was no longer its own.            *)
AnswersCount ==
    [][\A r \in Requests :
         /\ outcome[r] = "none" /\ outcome'[r] \in {"refused", "error"}
         /\ ok[r] /\ wrote[r] = Parts /\ ~late[r]
         => place[r] = "checking" \/ taken[r] > got[r] \/ foul[r]]_vars

(* No child outlives its request, unless the request was cancelled while   *)
(* it waited for the child, or the child survived SIGKILL for half a       *)
(* second, which the request reports (the finally block).                  *)
NoOrphans ==
    \A r \in Requests :
        place[r] = "ended" =>
            \/ child[r] \in {"unborn", "gone"}
            \/ interrupted[r]
            \/ killed[r] /\ outcome[r] = "error"

(* Whatever the child does, the inspection comes to an end, and a thread   *)
(* that it abandoned comes back to the pool, unless a cancelled cleanup    *)
(* left a child that keeps its pipe open (the deadline of the poll loop,   *)
(* the limit of recv, and the escalation of the finally block).            *)
Over(r) == /\ place[r] = "ended"
           /\ thread[r] = "none" \/ \E q \in Requests : interrupted[q]

EveryInspectionEnds == \A r \in Requests : place[r] # "new" ~> Over(r)
=============================================================================
