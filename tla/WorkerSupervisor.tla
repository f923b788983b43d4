-------------------------- MODULE WorkerSupervisor --------------------------
(***************************************************************************)
(* The playground's single preview worker and its supervisor               *)
(* (gateway/playground/worker.py), from the application's start to its     *)
(* close (the lifespan of gateway/playground/app.py).                      *)
(*                                                                         *)
(* An exchange with the worker runs in a thread that nothing can stop: it  *)
(* goes on after the request that started it has timed out or been         *)
(* cancelled.  A worker process may be slow, get stuck or die anywhere.    *)
(***************************************************************************)
EXTENDS Integers, Sequences, FiniteSets

CONSTANT Jobs

ASSUME JobsAssumption == IsFiniteSet(Jobs)

(* One worker at the start and at most one more for every failed job.      *)
Workers == 1 .. Cardinality(Jobs) + 1

NoWorker == 0
NoJob == "none"

ASSUME NoJobAssumption == NoJob \notin Jobs

VARIABLES
    app,        \* the lifespan: starting, up, refused or closed
    ready,      \* WorkerSupervisor.ready
    current,    \* _process and _connection: the worker they belong to
    proc,       \* the worker processes
    inbox,      \* jobs sent to a worker, unread
    outbox,     \* results of a worker, unread
    slot,       \* _slot: the job that holds it
    recovery,   \* _recovery_task: none, created, or waiting in start
    job,        \* where an inspection stands or how it ended
    thread,     \* the thread of its exchange
    conn,       \* the connection that thread was given
    got         \* the result of the exchange, by the job it belongs to

vars == <<app, ready, current, proc, inbox, outbox, slot, recovery, job,
          thread, conn, got>>

Alive == {"loading", "serving", "stuck"}
Outcomes == {"answered", "busy", "unavailable", "cancelled"}

(* There is one exchange at a time, and so one message at most in a pipe.  *)
AtMostOne == {<<>>} \cup {<<j>> : j \in Jobs}

TypeOK ==
    /\ app \in {"starting", "up", "refused", "closed"}
    /\ ready \in BOOLEAN
    /\ current \in Workers \cup {NoWorker}
    /\ proc \in [Workers -> {"unborn", "dead"} \cup Alive]
    /\ inbox \in [Workers -> AtMostOne] /\ outbox \in [Workers -> AtMostOne]
    /\ slot \in Jobs \cup {NoJob}
    /\ recovery \in {"none", "created", "loading"}
    /\ job \in [Jobs -> {"new", "waiting"} \cup Outcomes]
    /\ thread \in [Jobs -> {"none", "sending", "polling", "has", "error"}]
    /\ conn \in [Jobs -> Workers \cup {NoWorker}]
    /\ got \in [Jobs -> Jobs \cup {NoJob}]

processes == <<proc, inbox, outbox>>
threads == <<thread, conn, got>>

Init ==
    /\ app = "starting" /\ ready = FALSE
    /\ current = 1
    /\ proc = [w \in Workers |-> IF w = 1 THEN "loading" ELSE "unborn"]
    /\ inbox = [w \in Workers |-> <<>>] /\ outbox = [w \in Workers |-> <<>>]
    /\ slot = NoJob /\ recovery = "none"
    /\ job = [j \in Jobs |-> "new"] /\ thread = [j \in Jobs |-> "none"]
    /\ conn = [j \in Jobs |-> NoWorker] /\ got = [j \in Jobs |-> NoJob]

-----------------------------------------------------------------------------
(* WorkerSupervisor.start, stop and _recover                               *)

\* mutant: stop closes the connection and leaves the process to itself
StopWithoutReaping ==
    /\ ready' = FALSE /\ current' = NoWorker
    /\ UNCHANGED processes

(* Close the connection, terminate or kill the process, reap it.           *)
stop ==
    /\ ready' = FALSE /\ current' = NoWorker
    /\ proc' = [w \in Workers |-> IF w = current THEN "dead" ELSE proc[w]]
    /\ UNCHANGED <<inbox, outbox>>

Starting == app = "starting" \/ recovery = "loading"

(* The message of readiness has come in time.                              *)
StartReturns ==
    /\ Starting /\ proc[current] = "serving"
    /\ ready' = TRUE
    /\ app' = "up" /\ recovery' = "none"
    /\ UNCHANGED <<current, processes, slot, job, threads>>

(* The worker could not load, died, or took longer than LOAD_TIMEOUT; or   *)
(* it could not be spawned.                                                *)
StartFails ==
    /\ Starting /\ stop
    /\ app' = IF app = "starting" THEN "refused" ELSE app
    /\ recovery' = "none"
    /\ UNCHANGED <<slot, job, threads>>

(* _recover runs: start spawns a fresh process and waits for it.           *)
Recover ==
    /\ recovery = "created"
    /\ LET fresh == CHOOSE w \in Workers :
                        proc[w] = "unborn" /\ \A v \in 1 .. w - 1 : proc[v] # "unborn"
       IN /\ current' = fresh
          /\ proc' = [proc EXCEPT ![fresh] = "loading"]
    /\ recovery' = "loading"
    /\ UNCHANGED <<app, ready, inbox, outbox, slot, job, threads>>

(* The lifespan ends; the server has let its requests finish.              *)
Close ==
    /\ app = "up" /\ \A j \in Jobs : job[j] # "waiting"
    /\ app' = "closed" /\ recovery' = "none" /\ stop
    /\ UNCHANGED <<slot, job, threads>>

-----------------------------------------------------------------------------
(* WorkerSupervisor.inspect                                                *)

(* Both checks and the acquisition of the slot happen without an await.    *)
Inspect(j) ==
    /\ app = "up" /\ job[j] = "new"
    /\ IF ready /\ slot = NoJob
       THEN /\ slot' = j
            /\ job' = [job EXCEPT ![j] = "waiting"]
            /\ thread' = [thread EXCEPT ![j] = "sending"]
            /\ conn' = [conn EXCEPT ![j] = current]
       ELSE /\ job' = [job EXCEPT ![j] = IF ready THEN "busy" ELSE "unavailable"]
            /\ UNCHANGED <<slot, thread, conn>>
    /\ UNCHANGED <<app, ready, current, processes, recovery, got>>

(* finally: self._slot.release()                                           *)
SlotAfter(j, outcome) == NoJob

Ends(j, outcome) ==
    /\ job[j] = "waiting"
    /\ job' = [job EXCEPT ![j] = outcome]
    /\ slot' = SlotAfter(j, outcome)
    /\ UNCHANGED <<app, inbox, outbox, threads>>

Answer(j) ==
    /\ thread[j] = "has" /\ Ends(j, "answered")
    /\ UNCHANGED <<ready, current, proc, recovery>>

(* The worker is given up with the exchange, whatever state it is in.      *)
GiveUp(j, outcome) ==
    /\ Ends(j, outcome) /\ stop /\ recovery' = "created"

\* mutant: an inspection that times out waits on
WaitsOn(j) == FALSE

(* INSPECT_TIMEOUT_SECONDS, in wait_for or in the poll of the thread.      *)
Expires(j) == job[j] = "waiting"

TimesOut(j) == Expires(j) /\ GiveUp(j, "unavailable")
Breaks(j) == thread[j] = "error" /\ GiveUp(j, "unavailable")

\* mutant: a cancelled inspection leaves the worker as it is
CancelOnly(j) == Ends(j, "cancelled") /\ UNCHANGED <<ready, current, proc, recovery>>

Cancelled(j) == GiveUp(j, "cancelled")

-----------------------------------------------------------------------------
(* _exchange, in its thread                                                *)

ThreadMoves(j, stage) ==
    /\ thread' = [thread EXCEPT ![j] = stage]
    /\ UNCHANGED <<app, ready, current, proc, slot, recovery, job, conn>>

Open(j) == conn[j] = current

ThreadSends(j) ==
    /\ thread[j] = "sending" /\ Open(j)
    /\ inbox' = [inbox EXCEPT ![conn[j]] = Append(@, j)]
    /\ ThreadMoves(j, "polling") /\ UNCHANGED <<outbox, got>>

ThreadReceives(j) ==
    /\ thread[j] = "polling" /\ Open(j) /\ outbox[conn[j]] # <<>>
    /\ got' = [got EXCEPT ![j] = Head(outbox[conn[j]])]
    /\ outbox' = [outbox EXCEPT ![conn[j]] = Tail(@)]
    /\ ThreadMoves(j, "has") /\ UNCHANGED inbox

(* The connection has been closed, or its other end.                       *)
ThreadFails(j) ==
    /\ thread[j] \in {"sending", "polling"}
    /\ ~Open(j) \/ proc[conn[j]] = "dead"
    /\ ThreadMoves(j, "error") /\ UNCHANGED <<inbox, outbox, got>>

-----------------------------------------------------------------------------
(* _worker_main, in its process                                            *)

supervision == <<app, ready, current, slot, recovery, job, threads>>

WorkerLoads(w) ==
    /\ proc[w] = "loading"
    /\ proc' = [proc EXCEPT ![w] = "serving"]
    /\ UNCHANGED <<inbox, outbox, supervision>>

WorkerAnswers(w) ==
    /\ proc[w] = "serving" /\ inbox[w] # <<>>
    /\ inbox' = [inbox EXCEPT ![w] = Tail(@)]
    /\ outbox' = [outbox EXCEPT ![w] = Append(@, Head(inbox[w]))]
    /\ UNCHANGED <<proc, supervision>>

(* A detector or the loading of a model does not come to an end; the       *)
(* process is killed by its memory limit or the system.                    *)
WorkerFails(w) ==
    /\ proc[w] \in Alive
    /\ \E s \in {"stuck", "dead"} : proc' = [proc EXCEPT ![w] = s]
    /\ UNCHANGED <<inbox, outbox, supervision>>

-----------------------------------------------------------------------------

Next ==
    \/ StartReturns \/ StartFails \/ Recover \/ Close
    \/ \E j \in Jobs : \/ Inspect(j) \/ Answer(j) \/ TimesOut(j) \/ Breaks(j)
                       \/ Cancelled(j) \/ ThreadSends(j) \/ ThreadReceives(j)
                       \/ ThreadFails(j)
    \/ \E w \in Workers : WorkerLoads(w) \/ WorkerAnswers(w) \/ WorkerFails(w)

Spec == Init /\ [][Next]_vars

(* The event loop runs its tasks, and the timers of an inspection and of a *)
(* start fire; nothing is expected of a worker.                            *)
Fairness ==
    /\ WF_vars(StartReturns \/ StartFails) /\ WF_vars(Recover)
    /\ \A j \in Jobs : WF_vars(TimesOut(j))

FairSpec == Spec /\ Fairness

-----------------------------------------------------------------------------
(* Properties                                                              *)

(* A result is shown to the request that asked for it: a worker that still *)
(* owes an answer to an abandoned exchange never serves another one.       *)
OwnAnswer == \A j \in Jobs : job[j] = "answered" => got[j] = j

(* "An inspection timeout terminates and reaps the worker, then starts a   *)
(* fresh one": no worker process outlives its place, however failures,     *)
(* recoveries and the close of the application follow each other.          *)
NoOrphans ==
    /\ \A w \in Workers : proc[w] \in Alive => w = current
    /\ app \in {"refused", "closed"} => \A w \in Workers : proc[w] \notin Alive

(* A stuck or dead worker does not hold a request for ever, the slot is    *)
(* not lost with a job that fails ("busy" is said only while an inspection *)
(* is running), and a recovery comes to an end.                            *)
InspectionsEnd ==
    /\ \A j \in Jobs : job[j] = "waiting" \/ slot = j ~> job[j] # "waiting" /\ slot # j
    /\ recovery # "none" ~> recovery = "none"
=============================================================================
