---------------------------- MODULE WorkerProofs ----------------------------
(***************************************************************************)
(* What WorkerSupervisor guarantees for every number of inspections: each  *)
(* answer goes to the request that asked for it, and no worker process     *)
(* outlives its place.                                                     *)
(***************************************************************************)
EXTENDS WorkerSupervisor, FiniteSetTheorems, TLAPS

Failed == {j \in Jobs : job[j] \in {"unavailable", "cancelled"}}

(* The workers were spawned in order: those after the n-th are unborn, and *)
(* nothing was ever sent to them.  Each but the first replaced one that a  *)
(* failed inspection had given up.                                         *)
Spawned(n) ==
    /\ \A w \in Workers : proc[w] = "unborn" <=> w > n
    /\ \A w \in Workers : w > n => inbox[w] = <<>> /\ outbox[w] = <<>>
    /\ current <= n /\ \A j \in Jobs : conn[j] <= n
    /\ n <= Cardinality(Failed) + (IF recovery = "created" THEN 0 ELSE 1)

InOrder == \E n \in Workers : Spawned(n)

(* Where the supervisor stands.                                            *)
Supervised ==
    /\ ready => current \in Workers /\ app = "up" /\ recovery = "none"
    /\ app = "starting" => current \in Workers /\ recovery = "none" /\ ~ready
    /\ recovery = "loading" => current \in Workers /\ app = "up"
    /\ recovery = "created" => current = NoWorker /\ app = "up"
    /\ app \in {"refused", "closed"} => current = NoWorker /\ recovery = "none"

(* An inspection in progress has the slot and the current worker.          *)
Slotted ==
    \A j \in Jobs : job[j] = "waiting" => slot = j /\ ready /\ conn[j] = current

(* What is in the pipes of the current worker belongs to that inspection.  *)
Owned ==
    \A w \in Workers, j \in Jobs :
        w = current /\ (inbox[w] = <<j>> \/ outbox[w] = <<j>>) =>
            /\ job[j] = "waiting" /\ thread[j] \in {"polling", "error"}
            /\ inbox[w] = <<>> \/ outbox[w] = <<>>

(* A thread that may still use the current worker works for a request that *)
(* waits for it, and one that has a result has that of its own job.        *)
Threaded ==
    \A j \in Jobs :
        /\ thread[j] # "none" => conn[j] \in Workers
        /\ thread[j] \in {"sending", "polling"} /\ conn[j] = current => job[j] = "waiting"
        /\ thread[j] = "has" => got[j] = j
        /\ job[j] = "answered" => thread[j] = "has"

(* Only the current worker may be alive.                                   *)
Reaped == \A w \in Workers : proc[w] \in Alive => w = current

WorkerInv ==
    TypeOK /\ InOrder /\ Supervised /\ Slotted /\ Owned /\ Threaded /\ Reaped

(* Workers are numbers, and "no worker" is none of them.                   *)
LEMMA WorkersAreNumbers ==
    /\ Cardinality(Jobs) \in Nat
    /\ \A w \in Workers : w \in Nat /\ w # NoWorker
    /\ NoWorker \in Nat /\ 1 \in Workers
<1>1. Cardinality(Jobs) \in Nat
  BY JobsAssumption, FS_CardinalityType
<1> QED BY <1>1 DEF Workers, NoWorker

(* No more inspections fail than there are.                                *)
LEMMA FailuresAreFew ==
    /\ IsFiniteSet(Failed)
    /\ Cardinality(Failed) \in Nat
    /\ Cardinality(Failed) <= Cardinality(Jobs)
<1>1. Failed \subseteq Jobs
  BY DEF Failed
<1>2. IsFiniteSet(Failed)
  BY <1>1, JobsAssumption, FS_Subset
<1> QED BY <1>1, <1>2, JobsAssumption, FS_Subset, FS_CardinalityType

(* Failures are never taken back.                                          *)
LEMMA FailuresGrow ==
    ASSUME Failed \subseteq Failed'
    PROVE  Cardinality(Failed) <= Cardinality(Failed')
<1>1. IsFiniteSet(Failed')
  <2>1. Failed' \subseteq Jobs
    BY DEF Failed
  <2> QED BY <2>1, JobsAssumption, FS_Subset
<1> QED BY <1>1, FS_Subset

(* A failure counts as one.                                                *)
LEMMA FailureCounts ==
    ASSUME NEW j \in Jobs, job[j] = "waiting", job \in [Jobs -> {"new", "waiting"} \cup Outcomes],
           NEW outcome \in {"unavailable", "cancelled"},
           job' = [job EXCEPT ![j] = outcome]
    PROVE  Cardinality(Failed') = Cardinality(Failed) + 1
<1>1. Failed' = Failed \cup {j} /\ j \notin Failed
  BY DEF Failed
<1> QED BY <1>1, FailuresAreFew, FS_AddElement

(* The application starts with the first worker loading.                   *)
LEMMA InitInv == Init => WorkerInv
<1> SUFFICES ASSUME Init PROVE WorkerInv
  OBVIOUS
<1> USE WorkersAreNumbers DEF Init
<1>1. TypeOK
  BY NoJobAssumption DEF TypeOK, AtMostOne, Alive, Outcomes
<1>2. Spawned(1)
  <2>1. 1 <= Cardinality(Failed) + 1
    BY FailuresAreFew
  <2> QED BY <2>1 DEF Spawned, NoWorker
<1>3. InOrder
  BY <1>2 DEF InOrder
<1>4. Supervised /\ Slotted /\ Owned /\ Threaded /\ Reaped
  BY DEF Supervised, Slotted, Owned, Threaded, Reaped, Alive
<1> QED BY <1>1, <1>3, <1>4 DEF WorkerInv

(* A step that spawns no worker and gives none up.                         *)
LEMMA OrderKept ==
    ASSUME WorkerInv,
           \A w \in Workers : proc'[w] = "unborn" <=> proc[w] = "unborn",
           \A w \in Workers : proc[w] = "unborn" =>
               inbox'[w] = inbox[w] /\ outbox'[w] = outbox[w],
           current' \in {current, NoWorker},
           \A j \in Jobs : conn'[j] \in {conn[j], current},
           Failed \subseteq Failed', recovery' = "created" => recovery = "created"
    PROVE  InOrder'
<1>1. PICK n \in Workers : Spawned(n)
  BY DEF WorkerInv, InOrder
<1>2. n \in Nat /\ n >= 1
  BY <1>1, WorkersAreNumbers DEF Workers
<1>3. Cardinality(Failed') \in Nat /\ Cardinality(Failed) <= Cardinality(Failed')
  <2>1. IsFiniteSet(Failed')
    <3>1. Failed' \subseteq Jobs
      BY DEF Failed
    <3> QED BY <3>1, JobsAssumption, FS_Subset
  <2> QED BY <2>1, FailuresGrow, FS_CardinalityType
<1>4. \A w \in Workers : (proc'[w] = "unborn" <=> w > n)
                         /\ (w > n => inbox'[w] = <<>> /\ outbox'[w] = <<>>)
  BY <1>1 DEF Spawned
<1>5. current' <= n /\ \A j \in Jobs : conn'[j] <= n
  BY <1>1, <1>2 DEF Spawned, NoWorker
<1>6. n <= Cardinality(Failed') + (IF recovery' = "created" THEN 0 ELSE 1)
  BY <1>1, <1>2, <1>3, FailuresAreFew DEF Spawned
<1> QED BY <1>1, <1>4, <1>5, <1>6 DEF InOrder, Spawned

(* Workers that are born stay so, whatever they are told to do.            *)
LEMMA StopKeepsTypes ==
    ASSUME TypeOK, stop
    PROVE  /\ ready' = FALSE /\ current' = NoWorker
           /\ inbox' = inbox /\ outbox' = outbox
           /\ proc' \in [Workers -> {"unborn", "dead"} \cup Alive]
           /\ \A w \in Workers : proc'[w] = IF w = current THEN "dead" ELSE proc[w]
BY DEF TypeOK, stop

(* After stop, and with no inspection that waits, nobody has a worker.     *)
LEMMA StopKeepsInv ==
    ASSUME WorkerInv, stop, UNCHANGED threads,
           current \in Workers,
           job' \in [Jobs -> {"new", "waiting"} \cup Outcomes],
           \A j \in Jobs : job'[j] # "waiting" /\ (job'[j] = "answered" => job[j] = "answered")
    PROVE  /\ Slotted' /\ Owned' /\ Threaded' /\ Reaped'
           /\ \A w \in Workers : proc'[w] \notin Alive
<1>1. /\ ready' = FALSE /\ current' = NoWorker
      /\ inbox' = inbox /\ outbox' = outbox
      /\ \A w \in Workers : proc'[w] = IF w = current THEN "dead" ELSE proc[w]
  BY StopKeepsTypes DEF WorkerInv
<1>2. current' \notin Workers
  BY <1>1, WorkersAreNumbers
<1>3. \A w \in Workers : proc'[w] \notin Alive
  BY <1>1 DEF WorkerInv, Reaped, Alive
<1>4. Slotted' /\ Owned' /\ Reaped'
  BY <1>2, <1>3 DEF Slotted, Owned, Reaped
<1>5. Threaded'
  BY <1>2 DEF WorkerInv, Threaded, threads
<1> QED BY <1>3, <1>4, <1>5

(* The worker is ready.                                                    *)
LEMMA StartReturnsKeepsInv ==
    ASSUME WorkerInv, StartReturns
    PROVE  WorkerInv'
<1> USE DEF StartReturns, processes, threads
<1>1. TypeOK'
  BY DEF WorkerInv, TypeOK
<1>2. Failed' = Failed
  BY DEF Failed
<1>3. InOrder'
  BY <1>2, OrderKept
<1>4. current \in Workers /\ app' = "up"
  BY DEF WorkerInv, Supervised, Starting
<1>5. Supervised'
  BY <1>4 DEF Supervised
<1>6. Slotted' /\ Owned' /\ Threaded' /\ Reaped'
  BY DEF WorkerInv, Slotted, Owned, Threaded, Reaped
<1> QED BY <1>1, <1>3, <1>5, <1>6 DEF WorkerInv

(* While a worker is awaited no inspection is in progress.                 *)
LEMMA NoneWaits ==
    ASSUME WorkerInv, ~ready
    PROVE  \A j \in Jobs : job[j] # "waiting"
BY DEF WorkerInv, Slotted

(* The current worker is one that was born.                                *)
LEMMA CurrentIsBorn ==
    ASSUME WorkerInv, current \in Workers
    PROVE  proc[current] # "unborn"
<1>1. PICK n \in Workers : Spawned(n)
  BY DEF WorkerInv, InOrder
<1> QED BY <1>1, WorkersAreNumbers DEF Spawned

(* The worker is given up before it was ready.                             *)
LEMMA StartFailsKeepsInv ==
    ASSUME WorkerInv, StartFails
    PROVE  WorkerInv'
<1>1. ~ready /\ current \in Workers
  BY DEF StartFails, Starting, WorkerInv, Supervised
<1>2. stop /\ UNCHANGED <<slot, job, threads>> /\ recovery' = "none"
      /\ app' = IF app = "starting" THEN "refused" ELSE app
  BY DEF StartFails
<1>3. Slotted' /\ Owned' /\ Threaded' /\ Reaped'
  <2>1. job' \in [Jobs -> {"new", "waiting"} \cup Outcomes]
    BY <1>2 DEF WorkerInv, TypeOK
  <2>2. \A j \in Jobs : job'[j] # "waiting" /\ (job'[j] = "answered" => job[j] = "answered")
    BY <1>1, <1>2, NoneWaits
  <2> QED BY <1>1, <1>2, <2>1, <2>2, StopKeepsInv
<1>4. TypeOK'
  BY <1>2, StopKeepsTypes, WorkersAreNumbers DEF WorkerInv, TypeOK, threads
<1>5. Failed' = Failed
  BY <1>2 DEF Failed
<1>6. InOrder'
  <2>1. current' = NoWorker /\ inbox' = inbox /\ outbox' = outbox /\ conn' = conn
    BY <1>2, StopKeepsTypes DEF threads, WorkerInv
  <2>2. \A w \in Workers : proc'[w] = "unborn" <=> proc[w] = "unborn"
    BY <1>1, <1>2, CurrentIsBorn, StopKeepsTypes DEF WorkerInv
  <2> QED BY <1>2, <1>5, <2>1, <2>2, OrderKept
<1>7. Supervised'
  BY <1>2, StopKeepsTypes DEF WorkerInv, Supervised, TypeOK
<1> QED BY <1>3, <1>4, <1>6, <1>7 DEF WorkerInv

(* The application is closed.                                              *)
LEMMA CloseKeepsInv ==
    ASSUME WorkerInv, Close
    PROVE  WorkerInv'
<1>1. stop /\ UNCHANGED <<slot, job, threads>> /\ recovery' = "none" /\ app' = "closed"
      /\ app = "up" /\ \A j \in Jobs : job[j] # "waiting"
  BY DEF Close
<1>2. /\ ready' = FALSE /\ current' = NoWorker
      /\ inbox' = inbox /\ outbox' = outbox
      /\ proc' \in [Workers -> {"unborn", "dead"} \cup Alive]
      /\ \A w \in Workers : proc'[w] = IF w = current THEN "dead" ELSE proc[w]
  BY <1>1, StopKeepsTypes DEF WorkerInv
<1>3. TypeOK'
  BY <1>1, <1>2 DEF WorkerInv, TypeOK, threads
<1>4. InOrder'
  <2>1. Failed' = Failed
    BY <1>1 DEF Failed
  <2>2. \A w \in Workers : proc'[w] = "unborn" <=> proc[w] = "unborn"
    BY <1>2, CurrentIsBorn
  <2> QED BY <1>1, <1>2, <2>1, <2>2, OrderKept DEF threads
<1>5. Supervised'
  BY <1>1, <1>2 DEF Supervised
<1>6. current' \notin Workers
  BY <1>2, WorkersAreNumbers
<1>7. Reaped'
  BY <1>2 DEF WorkerInv, Reaped, Alive
<1>8. Slotted' /\ Owned'
  BY <1>1, <1>6 DEF Slotted, Owned
<1>9. Threaded'
  BY <1>1, <1>6 DEF WorkerInv, Threaded, threads
<1> QED BY <1>3, <1>4, <1>5, <1>7, <1>8, <1>9 DEF WorkerInv

(* A fresh worker takes the place of the one that was given up: there is   *)
(* one that was never born, with nothing in its pipes.                     *)
LEMMA RecoverKeepsInv ==
    ASSUME WorkerInv, Recover
    PROVE  WorkerInv'
<1> DEFINE Fresh(w) == proc[w] = "unborn" /\ \A v \in 1 .. w - 1 : proc[v] # "unborn"
           fresh == CHOOSE w \in Workers : Fresh(w)
<1>1. PICK n \in Workers : Spawned(n)
  BY DEF WorkerInv, InOrder
<1>2. /\ recovery = "created" /\ recovery' = "loading"
      /\ current' = fresh /\ proc' = [proc EXCEPT ![fresh] = "loading"]
      /\ UNCHANGED <<app, ready, inbox, outbox, slot, job, threads>>
  BY DEF Recover
<1>3. n \in Nat /\ n >= 1 /\ n + 1 \in Workers
  <2>1. n \in Nat /\ n >= 1 /\ n <= Cardinality(Jobs)
    BY <1>1, <1>2, FailuresAreFew, WorkersAreNumbers DEF Spawned, Workers
  <2> QED BY <2>1, WorkersAreNumbers DEF Workers
<1>4. fresh = n + 1
  <2>1. Fresh(n + 1)
    BY <1>1, <1>3, WorkersAreNumbers DEF Spawned, Workers
  <2>2. \A w \in Workers : Fresh(w) => w = n + 1
    BY <1>1, <1>3, WorkersAreNumbers DEF Spawned, Workers
  <2> QED BY <1>3, <2>1, <2>2
<1> HIDE DEF fresh
<1>5. ~ready /\ current = NoWorker /\ app = "up"
  BY <1>2, WorkersAreNumbers DEF WorkerInv, Supervised
<1>6. \A j \in Jobs : job[j] # "waiting"
  BY <1>5, NoneWaits
<1>7. TypeOK'
  BY <1>2, <1>3, <1>4 DEF WorkerInv, TypeOK, threads, Alive
<1>8. InOrder'
  <2>1. Failed' = Failed
    BY <1>2 DEF Failed
  <2>2. \A w \in Workers : proc'[w] = "unborn" <=> w > n + 1
    BY <1>1, <1>2, <1>3, <1>4, WorkersAreNumbers DEF Spawned, WorkerInv, TypeOK, Workers
  <2>3. \A w \in Workers : w > n + 1 => inbox'[w] = <<>> /\ outbox'[w] = <<>>
    BY <1>1, <1>2, <1>3, WorkersAreNumbers DEF Spawned, Workers
  <2>4. current' <= n + 1 /\ \A j \in Jobs : conn'[j] <= n + 1
    <3>1. \A j \in Jobs : conn[j] \in Workers \cup {NoWorker}
      BY DEF WorkerInv, TypeOK
    <3>2. \A j \in Jobs : conn[j] <= n
      BY <1>1 DEF Spawned
    <3>3. \A j \in Jobs : conn[j] \in Nat
      BY <3>1, WorkersAreNumbers
    <3>4. \A j \in Jobs : conn'[j] = conn[j]
      BY <1>2 DEF threads
    <3>5. \A j \in Jobs : conn'[j] <= n + 1
      BY <1>3, <3>2, <3>3, <3>4
    <3> QED BY <1>2, <1>3, <1>4, <3>5
  <2>5. n + 1 <= Cardinality(Failed') + 1
    BY <1>1, <1>2, <1>3, <2>1, FailuresAreFew DEF Spawned
  <2> QED BY <1>2, <1>3, <2>2, <2>3, <2>4, <2>5 DEF InOrder, Spawned
<1>9. Supervised'
  BY <1>2, <1>3, <1>4, <1>5 DEF Supervised
<1>10. Slotted'
  BY <1>2, <1>6 DEF Slotted
<1>11. Owned'
  <2>1. inbox[n + 1] = <<>> /\ outbox[n + 1] = <<>>
    BY <1>1, <1>3 DEF Spawned
  <2>2. \A j \in Jobs : <<>> # <<j>>
    OBVIOUS
  <2> QED BY <1>2, <1>4, <2>1, <2>2 DEF Owned
<1>12. Threaded'
  <2>1. \A j \in Jobs : conn[j] # n + 1
    BY <1>1, <1>3, WorkersAreNumbers DEF Spawned, WorkerInv, TypeOK, NoWorker
  <2> QED BY <1>2, <1>4, <2>1 DEF WorkerInv, Threaded, threads
<1>13. Reaped'
  <2>1. \A w \in Workers : proc[w] \notin Alive
    BY <1>5, WorkersAreNumbers DEF WorkerInv, Reaped
  <2> QED BY <1>2, <1>3, <1>4, <2>1 DEF Reaped, WorkerInv, TypeOK
<1> QED BY <1>7, <1>8, <1>9, <1>10, <1>11, <1>12, <1>13 DEF WorkerInv

(* An inspection begins with the worker that is ready, and with nothing in *)
(* that worker's pipes; or it is turned away.                              *)
LEMMA InspectKeepsInv ==
    ASSUME WorkerInv, NEW j \in Jobs, Inspect(j)
    PROVE  WorkerInv'
<1>1. app = "up" /\ job[j] = "new" /\ UNCHANGED <<app, ready, current, processes, recovery, got>>
  BY DEF Inspect
<1>2. CASE ready /\ slot = NoJob
  <2>1. /\ slot' = j /\ job' = [job EXCEPT ![j] = "waiting"]
        /\ thread' = [thread EXCEPT ![j] = "sending"]
        /\ conn' = [conn EXCEPT ![j] = current]
    BY <1>2 DEF Inspect
  <2>2. current \in Workers /\ recovery = "none"
    BY <1>2 DEF WorkerInv, Supervised
  <2>3. \A k \in Jobs : job[k] # "waiting"
    BY <1>2, NoJobAssumption DEF WorkerInv, Slotted
  <2>4. TypeOK'
    BY <1>1, <2>1, <2>2 DEF WorkerInv, TypeOK, processes
  <2>5. Failed' = Failed
    BY <1>1, <2>1 DEF Failed, WorkerInv, TypeOK
  <2>6. InOrder'
    <3>1. \A k \in Jobs : conn'[k] \in {conn[k], current}
      BY <2>1 DEF WorkerInv, TypeOK
    <3> QED BY <1>1, <2>5, <3>1, OrderKept DEF processes
  <2>7. Supervised'
    BY <1>1 DEF WorkerInv, Supervised
  <2>8. Slotted'
    BY <1>1, <1>2, <2>1, <2>3 DEF Slotted, WorkerInv, TypeOK
  <2>9. Owned'
    <3>1. \A k \in Jobs : inbox[current] # <<k>> /\ outbox[current] # <<k>>
      BY <2>2, <2>3 DEF WorkerInv, Owned
    <3> QED BY <1>1, <3>1 DEF Owned, processes
  <2>10. Threaded'
    BY <1>1, <2>1, <2>2, <2>3 DEF WorkerInv, Threaded, TypeOK
  <2>11. Reaped'
    BY <1>1 DEF WorkerInv, Reaped, processes
  <2> QED BY <2>4, <2>6, <2>7, <2>8, <2>9, <2>10, <2>11 DEF WorkerInv
<1>3. CASE ~(ready /\ slot = NoJob)
  <2>1. job' = [job EXCEPT ![j] = IF ready THEN "busy" ELSE "unavailable"]
        /\ UNCHANGED <<slot, thread, conn>>
    BY <1>3 DEF Inspect
  <2>2. TypeOK'
    BY <1>1, <2>1 DEF WorkerInv, TypeOK, processes, Outcomes
  <2>3. Failed \subseteq Failed'
    BY <1>1, <2>1 DEF Failed, WorkerInv, TypeOK
  <2>4. InOrder'
    BY <1>1, <2>1, <2>3, OrderKept DEF processes
  <2>5. \A k \in Jobs : job'[k] = "waiting" <=> job[k] = "waiting"
    BY <1>1, <2>1 DEF WorkerInv, TypeOK
  <2>6. Supervised' /\ Slotted'
    BY <1>1, <2>1, <2>5 DEF WorkerInv, Supervised, Slotted
  <2>7. Owned' /\ Reaped'
    BY <1>1, <2>1, <2>5 DEF WorkerInv, Owned, Reaped, processes
  <2>8. Threaded'
    BY <1>1, <2>1, <2>5 DEF WorkerInv, Threaded, TypeOK
  <2> QED BY <2>2, <2>4, <2>6, <2>7, <2>8 DEF WorkerInv
<1> QED BY <1>2, <1>3

(* An inspection in progress is the only one.                              *)
LEMMA OneWaits ==
    ASSUME WorkerInv, NEW j \in Jobs, job[j] = "waiting"
    PROVE  \A k \in Jobs : job[k] = "waiting" <=> k = j
BY DEF WorkerInv, Slotted

(* The result is returned, and the slot is free again.                     *)
LEMMA AnswerKeepsInv ==
    ASSUME WorkerInv, NEW j \in Jobs, Answer(j)
    PROVE  WorkerInv'
<1>1. /\ thread[j] = "has" /\ job[j] = "waiting"
      /\ job' = [job EXCEPT ![j] = "answered"] /\ slot' = NoJob
      /\ UNCHANGED <<app, inbox, outbox, threads, ready, current, proc, recovery>>
  BY DEF Answer, Ends, SlotAfter
<1>2. TypeOK'
  BY <1>1 DEF WorkerInv, TypeOK, threads, Outcomes
<1>3. Failed' = Failed
  BY <1>1 DEF Failed, WorkerInv, TypeOK
<1>4. InOrder'
  BY <1>1, <1>3, OrderKept DEF threads
<1>5. \A k \in Jobs : job'[k] # "waiting"
  BY <1>1, OneWaits DEF WorkerInv, TypeOK
<1>6. Supervised' /\ Slotted' /\ Reaped'
  BY <1>1, <1>5 DEF WorkerInv, Supervised, Slotted, Reaped
<1>7. Owned'
  <2>1. \A k \in Jobs : job[k] = "waiting" => thread[k] = "has"
    BY <1>1, OneWaits
  <2> QED BY <1>1, <2>1 DEF WorkerInv, Owned
<1>8. Threaded'
  <2>1. \A k \in Jobs : thread[k] \in {"sending", "polling"} => job'[k] = job[k]
    BY <1>1 DEF WorkerInv, TypeOK
  <2>2. \A k \in Jobs : job'[k] = "answered" => thread[k] = "has"
    BY <1>1 DEF WorkerInv, TypeOK, Threaded
  <2> QED BY <1>1, <2>1, <2>2 DEF WorkerInv, Threaded, threads
<1> QED BY <1>2, <1>4, <1>6, <1>7, <1>8 DEF WorkerInv

(* An inspection fails: its worker is given up, and its thread is left     *)
(* with a connection that is closed.                                       *)
LEMMA GiveUpKeepsInv ==
    ASSUME WorkerInv, NEW j \in Jobs, NEW outcome \in {"unavailable", "cancelled"},
           GiveUp(j, outcome)
    PROVE  WorkerInv'
<1>1. /\ job[j] = "waiting" /\ job' = [job EXCEPT ![j] = outcome] /\ slot' = NoJob
      /\ stop /\ recovery' = "created" /\ UNCHANGED <<app, threads>>
  BY DEF GiveUp, Ends, SlotAfter
<1>2. ready /\ current \in Workers /\ app = "up" /\ recovery = "none"
  BY <1>1 DEF WorkerInv, Slotted, Supervised
<1>3. /\ ready' = FALSE /\ current' = NoWorker
      /\ inbox' = inbox /\ outbox' = outbox
      /\ proc' \in [Workers -> {"unborn", "dead"} \cup Alive]
      /\ \A w \in Workers : proc'[w] = IF w = current THEN "dead" ELSE proc[w]
  BY <1>1, StopKeepsTypes DEF WorkerInv
<1>4. job' \in [Jobs -> {"new", "waiting"} \cup Outcomes]
  BY <1>1 DEF WorkerInv, TypeOK, Outcomes
<1>5. TypeOK'
  BY <1>1, <1>3, <1>4 DEF WorkerInv, TypeOK, threads
<1>6. \A k \in Jobs : job'[k] # "waiting" /\ (job'[k] = "answered" => job[k] = "answered")
  BY <1>1, OneWaits DEF WorkerInv, TypeOK
<1>7. Slotted' /\ Owned' /\ Threaded' /\ Reaped'
  BY <1>1, <1>2, <1>4, <1>6, StopKeepsInv
<1>8. Supervised'
  BY <1>1, <1>2, <1>3 DEF Supervised
<1>9. InOrder'
  <2>1. PICK n \in Workers : Spawned(n)
    BY DEF WorkerInv, InOrder
  <2>2. n \in Nat /\ n >= 1
    BY <2>1, WorkersAreNumbers DEF Workers
  <2>3. Cardinality(Failed') = Cardinality(Failed) + 1
    BY <1>1, FailureCounts DEF WorkerInv, TypeOK
  <2>4. n <= Cardinality(Failed')
    BY <1>2, <2>1, <2>3 DEF Spawned
  <2>5. \A w \in Workers : proc'[w] = "unborn" <=> w > n
    BY <1>2, <1>3, <2>1, CurrentIsBorn DEF Spawned
  <2>6. \A w \in Workers : w > n => inbox'[w] = <<>> /\ outbox'[w] = <<>>
    BY <1>3, <2>1 DEF Spawned
  <2>7. current' <= n
    BY <1>3, <2>2 DEF NoWorker
  <2>8. \A k \in Jobs : conn'[k] <= n
    BY <1>1, <2>1 DEF Spawned, threads
  <2>9. n <= Cardinality(Failed') + 0
    BY <2>2, <2>3, <2>4, FailuresAreFew
  <2> QED BY <1>1, <2>1, <2>5, <2>6, <2>7, <2>8, <2>9 DEF InOrder, Spawned
<1> QED BY <1>5, <1>7, <1>8, <1>9 DEF WorkerInv

(* A job is sent to a worker whose pipes are empty.                        *)
LEMMA ThreadSendsKeepsInv ==
    ASSUME WorkerInv, NEW j \in Jobs, ThreadSends(j)
    PROVE  WorkerInv'
<1>1. /\ thread[j] = "sending" /\ conn[j] = current
      /\ inbox' = [inbox EXCEPT ![conn[j]] = Append(@, j)]
      /\ thread' = [thread EXCEPT ![j] = "polling"]
      /\ UNCHANGED <<app, ready, current, proc, slot, recovery, job, conn, outbox, got>>
  BY DEF ThreadSends, ThreadMoves, Open
<1>2. current \in Workers /\ job[j] = "waiting"
  BY <1>1 DEF WorkerInv, Threaded
<1>3. inbox[current] = <<>> /\ outbox[current] = <<>>
  <2>1. inbox[current] \in AtMostOne /\ outbox[current] \in AtMostOne
    BY <1>2 DEF WorkerInv, TypeOK
  <2>2. \A k \in Jobs : inbox[current] # <<k>> /\ outbox[current] # <<k>>
    BY <1>1, <1>2, OneWaits DEF WorkerInv, Owned
  <2> QED BY <2>1, <2>2 DEF AtMostOne
<1>4. inbox' = [inbox EXCEPT ![current] = <<j>>]
  <2>1. Append(<<>>, j) = <<j>>
    OBVIOUS
  <2> QED BY <1>1, <1>3, <2>1
<1>5. TypeOK'
  <2>1. <<>> \in AtMostOne /\ <<j>> \in AtMostOne
    BY DEF AtMostOne
  <2> QED BY <1>1, <1>2, <1>4, <2>1 DEF WorkerInv, TypeOK
<1>6. InOrder'
  <2>1. Failed' = Failed
    BY <1>1 DEF Failed
  <2>2. \A w \in Workers : proc[w] = "unborn" => inbox'[w] = inbox[w]
    BY <1>2, <1>4, CurrentIsBorn DEF WorkerInv, TypeOK
  <2> QED BY <1>1, <2>1, <2>2, OrderKept
<1>7. Supervised' /\ Slotted' /\ Reaped'
  BY <1>1 DEF WorkerInv, Supervised, Slotted, Reaped
<1>8. Owned'
  <2> SUFFICES ASSUME NEW k \in Jobs, inbox'[current] = <<k>> \/ outbox'[current] = <<k>>
               PROVE  job[k] = "waiting" /\ thread'[k] = "polling" /\ outbox[current] = <<>>
    BY <1>1 DEF Owned
  <2>1. inbox'[current] = <<j>> /\ outbox'[current] = <<>>
    BY <1>1, <1>2, <1>3, <1>4 DEF WorkerInv, TypeOK
  <2>2. k = j
    BY <2>1
  <2> QED BY <1>1, <1>2, <1>3, <2>2 DEF WorkerInv, TypeOK
<1>9. Threaded'
  BY <1>1, <1>2 DEF WorkerInv, Threaded, TypeOK
<1> QED BY <1>5, <1>6, <1>7, <1>8, <1>9 DEF WorkerInv

(* What a thread receives is the result of its own job.                    *)
LEMMA ThreadReceivesKeepsInv ==
    ASSUME WorkerInv, NEW j \in Jobs, ThreadReceives(j)
    PROVE  WorkerInv'
<1>1. /\ thread[j] = "polling" /\ conn[j] = current /\ outbox[conn[j]] # <<>>
      /\ got' = [got EXCEPT ![j] = Head(outbox[conn[j]])]
      /\ outbox' = [outbox EXCEPT ![conn[j]] = Tail(@)]
      /\ thread' = [thread EXCEPT ![j] = "has"]
      /\ UNCHANGED <<app, ready, current, proc, slot, recovery, job, conn, inbox>>
  BY DEF ThreadReceives, ThreadMoves, Open
<1>2. current \in Workers /\ job[j] = "waiting"
  BY <1>1 DEF WorkerInv, Threaded
<1>3. outbox[current] = <<j>> /\ inbox[current] = <<>>
  <2>1. outbox[current] \in AtMostOne /\ outbox[current] # <<>>
    BY <1>1, <1>2 DEF WorkerInv, TypeOK
  <2>2. PICK k \in Jobs : outbox[current] = <<k>>
    BY <2>1 DEF AtMostOne
  <2>3. job[k] = "waiting" /\ (inbox[current] = <<>> \/ outbox[current] = <<>>)
    BY <1>2, <2>2 DEF WorkerInv, Owned
  <2>4. k = j
    BY <1>2, <2>3, OneWaits
  <2> QED BY <2>1, <2>2, <2>3, <2>4
<1>4. got' = [got EXCEPT ![j] = j] /\ outbox' = [outbox EXCEPT ![current] = <<>>]
  <2>1. Head(<<j>>) = j /\ Tail(<<j>>) = <<>>
    OBVIOUS
  <2> QED BY <1>1, <1>3, <2>1
<1>5. TypeOK'
  <2>1. <<>> \in AtMostOne /\ <<j>> \in AtMostOne
    BY DEF AtMostOne
  <2>2. outbox' \in [Workers -> AtMostOne]
    BY <1>2, <1>4, <2>1 DEF WorkerInv, TypeOK
  <2>3. got' \in [Jobs -> Jobs \cup {NoJob}]
    BY <1>4 DEF WorkerInv, TypeOK
  <2>4. thread' \in [Jobs -> {"none", "sending", "polling", "has", "error"}]
    BY <1>1 DEF WorkerInv, TypeOK
  <2> QED BY <1>1, <2>2, <2>3, <2>4 DEF WorkerInv, TypeOK
<1>6. InOrder'
  <2>1. Failed' = Failed
    BY <1>1 DEF Failed
  <2>2. \A w \in Workers : proc[w] = "unborn" => outbox'[w] = outbox[w]
    BY <1>2, <1>4, CurrentIsBorn DEF WorkerInv, TypeOK
  <2> QED BY <1>1, <2>1, <2>2, OrderKept
<1>7. Supervised' /\ Slotted' /\ Reaped'
  BY <1>1 DEF WorkerInv, Supervised, Slotted, Reaped
<1>8. Owned'
  <2>1. \A k \in Jobs : <<>> # <<k>>
    OBVIOUS
  <2>2. inbox'[current] = <<>> /\ outbox'[current] = <<>>
    BY <1>1, <1>2, <1>3, <1>4 DEF WorkerInv, TypeOK
  <2> QED BY <1>1, <2>1, <2>2 DEF Owned
<1>9. Threaded'
  BY <1>1, <1>2, <1>4 DEF WorkerInv, Threaded, TypeOK
<1> QED BY <1>5, <1>6, <1>7, <1>8, <1>9 DEF WorkerInv

(* A thread finds its connection closed.                                   *)
LEMMA ThreadFailsKeepsInv ==
    ASSUME WorkerInv, NEW j \in Jobs, ThreadFails(j)
    PROVE  WorkerInv'
<1>1. /\ thread[j] \in {"sending", "polling"}
      /\ conn[j] # current \/ proc[conn[j]] = "dead"
      /\ thread' = [thread EXCEPT ![j] = "error"]
      /\ UNCHANGED <<app, ready, current, proc, slot, recovery, job, conn, inbox, outbox, got>>
  BY DEF ThreadFails, ThreadMoves, Open
<1>2. TypeOK'
  BY <1>1 DEF WorkerInv, TypeOK
<1>3. InOrder'
  <2>1. Failed' = Failed
    BY <1>1 DEF Failed
  <2> QED BY <1>1, <2>1, OrderKept
<1>4. Supervised' /\ Slotted' /\ Reaped'
  BY <1>1 DEF WorkerInv, Supervised, Slotted, Reaped
<1>5. Owned' /\ Threaded'
  BY <1>1 DEF WorkerInv, Owned, Threaded, TypeOK
<1> QED BY <1>2, <1>3, <1>4, <1>5 DEF WorkerInv

(* A worker process goes on, gets stuck or dies: none is born of that.     *)
LEMMA WorkerChangesKeepInv ==
    ASSUME WorkerInv, NEW w \in Workers, proc[w] \in Alive,
           NEW s \in {"serving", "stuck", "dead"},
           proc' = [proc EXCEPT ![w] = s], UNCHANGED <<inbox, outbox, supervision>>
    PROVE  WorkerInv'
<1> USE DEF supervision, threads
<1>1. TypeOK'
  BY DEF WorkerInv, TypeOK, Alive
<1>2. InOrder'
  <2>1. Failed' = Failed
    BY DEF Failed
  <2>2. \A v \in Workers : proc'[v] = "unborn" <=> proc[v] = "unborn"
    BY DEF WorkerInv, TypeOK, Alive
  <2> QED BY <2>1, <2>2, OrderKept
<1>3. Supervised' /\ Slotted' /\ Owned' /\ Threaded'
  BY DEF WorkerInv, Supervised, Slotted, Owned, Threaded
<1>4. Reaped'
  BY DEF WorkerInv, Reaped, TypeOK
<1> QED BY <1>1, <1>2, <1>3, <1>4 DEF WorkerInv

(* A worker answers the job that it was sent.                              *)
LEMMA WorkerAnswersKeepsInv ==
    ASSUME WorkerInv, NEW w \in Workers, WorkerAnswers(w)
    PROVE  WorkerInv'
<1>1. /\ proc[w] = "serving" /\ inbox[w] # <<>>
      /\ inbox' = [inbox EXCEPT ![w] = Tail(@)]
      /\ outbox' = [outbox EXCEPT ![w] = Append(@, Head(inbox[w]))]
      /\ UNCHANGED <<proc, app, ready, current, slot, recovery, job, thread, conn, got>>
  BY DEF WorkerAnswers, supervision, threads
<1>2. w = current
  BY <1>1 DEF WorkerInv, Reaped, Alive
<1>3. PICK j \in Jobs : inbox[w] = <<j>>
  BY <1>1 DEF WorkerInv, TypeOK, AtMostOne
<1>4. /\ job[j] = "waiting" /\ thread[j] \in {"polling", "error"}
      /\ outbox[w] = <<>>
  <2>1. <<j>> # <<>>
    OBVIOUS
  <2> QED BY <1>2, <1>3, <2>1 DEF WorkerInv, Owned
<1>5. inbox' = [inbox EXCEPT ![w] = <<>>] /\ outbox' = [outbox EXCEPT ![w] = <<j>>]
  <2>1. Head(<<j>>) = j /\ Tail(<<j>>) = <<>> /\ Append(<<>>, j) = <<j>>
    OBVIOUS
  <2> QED BY <1>1, <1>3, <1>4, <2>1
<1>6. TypeOK'
  <2>1. <<>> \in AtMostOne /\ <<j>> \in AtMostOne
    BY DEF AtMostOne
  <2> QED BY <1>1, <1>5, <2>1 DEF WorkerInv, TypeOK
<1>7. InOrder'
  <2>1. Failed' = Failed
    BY <1>1 DEF Failed
  <2>2. \A v \in Workers : proc[v] = "unborn" => inbox'[v] = inbox[v] /\ outbox'[v] = outbox[v]
    BY <1>1, <1>5 DEF WorkerInv, TypeOK
  <2> QED BY <1>1, <2>1, <2>2, OrderKept
<1>8. Supervised' /\ Slotted' /\ Threaded' /\ Reaped'
  BY <1>1 DEF WorkerInv, Supervised, Slotted, Threaded, Reaped
<1>9. Owned'
  <2> SUFFICES ASSUME NEW k \in Jobs, inbox'[w] = <<k>> \/ outbox'[w] = <<k>>
               PROVE  job[k] = "waiting" /\ thread[k] \in {"polling", "error"}
                      /\ (inbox'[w] = <<>> \/ outbox'[w] = <<>>)
    BY <1>1, <1>2 DEF Owned
  <2>1. inbox'[w] = <<>> /\ outbox'[w] = <<j>>
    BY <1>5 DEF WorkerInv, TypeOK
  <2>2. k = j
    BY <2>1
  <2> QED BY <1>4, <2>1, <2>2
<1> QED BY <1>6, <1>7, <1>8, <1>9 DEF WorkerInv

(* Every step keeps what the slot, the pipes, the threads and the workers  *)
(* say of each other.                                                      *)
LEMMA NextKeepsInv == WorkerInv /\ [Next]_vars => WorkerInv'
<1> SUFFICES ASSUME WorkerInv, [Next]_vars
             PROVE  WorkerInv'
  OBVIOUS
<1>1. CASE StartReturns  BY <1>1, StartReturnsKeepsInv
<1>2. CASE StartFails    BY <1>2, StartFailsKeepsInv
<1>3. CASE Recover       BY <1>3, RecoverKeepsInv
<1>4. CASE Close         BY <1>4, CloseKeepsInv
<1>5. ASSUME NEW j \in Jobs,
             \/ Inspect(j) \/ Answer(j) \/ TimesOut(j) \/ Breaks(j) \/ Cancelled(j)
             \/ ThreadSends(j) \/ ThreadReceives(j) \/ ThreadFails(j)
      PROVE  WorkerInv'
  <2>1. CASE Inspect(j)         BY <2>1, InspectKeepsInv
  <2>2. CASE Answer(j)          BY <2>2, AnswerKeepsInv
  <2>3. CASE TimesOut(j)        BY <2>3, GiveUpKeepsInv DEF TimesOut
  <2>4. CASE Breaks(j)          BY <2>4, GiveUpKeepsInv DEF Breaks
  <2>5. CASE Cancelled(j)       BY <2>5, GiveUpKeepsInv DEF Cancelled
  <2>6. CASE ThreadSends(j)     BY <2>6, ThreadSendsKeepsInv
  <2>7. CASE ThreadReceives(j)  BY <2>7, ThreadReceivesKeepsInv
  <2>8. CASE ThreadFails(j)     BY <2>8, ThreadFailsKeepsInv
  <2> QED BY <1>5, <2>1, <2>2, <2>3, <2>4, <2>5, <2>6, <2>7, <2>8
<1>6. ASSUME NEW w \in Workers, WorkerLoads(w) \/ WorkerAnswers(w) \/ WorkerFails(w)
      PROVE  WorkerInv'
  <2>1. CASE WorkerLoads(w)
    BY <2>1, WorkerChangesKeepInv DEF WorkerLoads, Alive
  <2>2. CASE WorkerAnswers(w)
    BY <2>2, WorkerAnswersKeepsInv
  <2>3. CASE WorkerFails(w)
    <3>1. PICK s \in {"stuck", "dead"} : proc' = [proc EXCEPT ![w] = s]
      BY <2>3 DEF WorkerFails
    <3> QED BY <2>3, <3>1, WorkerChangesKeepInv DEF WorkerFails
  <2> QED BY <1>6, <2>1, <2>2, <2>3
<1>7. CASE UNCHANGED vars
  <2> USE <1>7 DEF vars
  <2>1. TypeOK' /\ Supervised' /\ Slotted' /\ Owned' /\ Threaded' /\ Reaped'
    BY DEF WorkerInv, TypeOK, Supervised, Slotted, Owned, Threaded, Reaped
  <2>2. Failed' = Failed
    BY DEF Failed
  <2>3. InOrder'
    BY <2>2, OrderKept
  <2> QED BY <2>1, <2>3 DEF WorkerInv
<1> QED BY <1>1, <1>2, <1>3, <1>4, <1>5, <1>6, <1>7 DEF Next

(* The inductive invariant of the supervisor, its types among it.          *)
THEOREM Invariance == Spec => []WorkerInv
BY InitInv, NextKeepsInv, PTL DEF Spec

(* A result is shown to the request that asked for it, whatever exchanges  *)
(* were abandoned before.                                                  *)
THEOREM AnswersAreOwn == Spec => []OwnAnswer
<1>1. WorkerInv => OwnAnswer
  BY DEF WorkerInv, Threaded, OwnAnswer
<1> QED BY <1>1, Invariance, PTL

(* No worker outlives its place, and none the application.                 *)
THEOREM WorkersAreReaped == Spec => []NoOrphans
<1>1. WorkerInv => NoOrphans
  BY WorkersAreNumbers DEF WorkerInv, Reaped, Supervised, NoOrphans
<1> QED BY <1>1, Invariance, PTL
=============================================================================
