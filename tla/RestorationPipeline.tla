------------------------ MODULE RestorationPipeline ------------------------
(***************************************************************************)
(* One request's way through the gateway (gateway/inspection/pipeline.py,  *)
(* transformations/, restoration/), many requests at once, over one vault. *)
(*                                                                         *)
(* The request task and its worker thread are separate actors:             *)
(* asyncio.to_thread cannot stop a running thread, so a cancelled task     *)
(* leaves a thread behind that goes on writing to, or reading from, the    *)
(* vault.  The provider is external and may answer with any tags it likes. *)
(***************************************************************************)
EXTENDS Vault

CONSTANTS
    Requests,
    Inputs,     \* detected spellings of a request, in minting order
    Replies,    \* tags a provider's answer may hold, in text order
    Durable,    \* the backend survives the restart of a process
    None

VARIABLES
    task,       \* the asyncio task: where process() stands
    thread,     \* the worker thread: where prepare / _restore_response stands
    node,       \* the process serving the request
    scope,      \* RequestContext: tenant and conversation
    input,      \* what detection found in the request's text
    reply,      \* the tags in the provider's answer
    cursor,     \* next spelling to mint, then next match to restore
    prov,       \* TokenProvenance._by_token: tag -> the spelling minted here
    sealed,     \* the record a thread has computed or fetched
    outcome,    \* per match of the reply: a spelling, or why it was refused
    owed,       \* history: until when the vault owes this request a tag
    overtaken   \* history: the record in hand was written again, or erased, since

reqVars == <<task, thread, node, scope, input, reply, cursor, prov, sealed,
             outcome>>
history == <<owed, overtaken>>
vars == <<vaultVars, reqVars, history>>

ASSUME PipelineAssumption ==
    /\ Inputs \subseteq Seq(Spellings)
    /\ Replies \subseteq Seq(Tags)
    /\ None \notin Spellings
    /\ Nodes # {} /\ Scope # {}
    /\ Durable \in BOOLEAN
    /\ Durable \/ \A m, n \in Nodes : m = n

Refusals == {"not_minted", "vault_miss", "key_unavailable"}
Pending == "pending"

ASSUME OutcomeAssumption == Spellings \cap (Refusals \cup {Pending}) = {}

Running == {"preparing", "calling", "restoring"}
Ended == {"answered", "failed", "cancelled", "lost"}

TypeOK ==
    /\ VaultTypeOK
    /\ task \in [Requests -> {"idle"} \cup Running \cup Ended]
    /\ thread \in [Requests -> {"none", "mint", "put", "fetch", "open"}]
    /\ node \in [Requests -> Nodes]
    /\ scope \in [Requests -> Scope]
    /\ input \in [Requests -> Seq(Spellings)]
    /\ reply \in [Requests -> Seq(Tags)]
    /\ cursor \in [Requests -> Nat]
    /\ prov \in [Requests -> [Tags -> Spellings \cup {None}]]
    /\ sealed \in [Requests -> Record \cup {NoRecord}]
    /\ outcome \in [Requests -> Seq(Spellings \cup Refusals \cup {Pending})]
    /\ owed \in [Requests -> [Tags -> Nat]]
    /\ overtaken \in [Requests -> BOOLEAN]

Init ==
    /\ VaultInit
    /\ task = [r \in Requests |-> "idle"]
    /\ thread = [r \in Requests |-> "none"]
    /\ node = [r \in Requests |-> CHOOSE n \in Nodes : TRUE]
    /\ scope = [r \in Requests |-> CHOOSE sc \in Scope : TRUE]
    /\ input = [r \in Requests |-> <<>>]
    /\ reply = [r \in Requests |-> <<>>]
    /\ cursor = [r \in Requests |-> 0]
    /\ prov = [r \in Requests |-> [t \in Tags |-> None]]
    /\ sealed = [r \in Requests |-> NoRecord]
    /\ outcome = [r \in Requests |-> <<>>]
    /\ owed = [r \in Requests |-> [t \in Tags |-> 0]]
    /\ overtaken = [r \in Requests |-> FALSE]

\* mutants: the thread's result goes on without its task; or never wakes it
AlwaysProceed(t, awaited, next) == next
NeverProceed(t, awaited, next) == t

(* A thread's end resumes the task only if the task still awaits it.       *)
Proceed(t, awaited, next) == IF t = awaited THEN next ELSE t

-----------------------------------------------------------------------------
(* prepare(): mint a token for each detected span and write it to the vault *)

(* A request arrives at some process, with its context and its text.       *)
(* process() hands prepare to a thread, with a fresh provenance set.       *)
Submit(r) ==
    /\ task[r] = "idle"
    /\ \E n \in Nodes, sc \in Scope, in \in Inputs :
         /\ node' = [node EXCEPT ![r] = n]
         /\ scope' = [scope EXCEPT ![r] = sc]
         /\ input' = [input EXCEPT ![r] = in]
    /\ task' = [task EXCEPT ![r] = "preparing"]
    /\ thread' = [thread EXCEPT ![r] = "mint"]
    /\ cursor' = [cursor EXCEPT ![r] = 1]
    /\ UNCHANGED <<vaultVars, reply, prov, sealed, outcome, history>>

(* What provenance keeps under a tag that spelling s asks for: the first   *)
(* spelling minted.                                                        *)
FirstMinted(p, t, s) == IF p[t] = None THEN s ELSE p[t]

(* TokenMinter.mint refuses a tag that already stands for another value.   *)
Collides(p, t, s) == p[t] # None /\ Canon[p[t]] # Canon[s]

(* TokenMinter.mint, then the part of SurrogateVault.put before the lock.  *)
Mint(r) ==
    /\ thread[r] = "mint"
    /\ cursor[r] <= Len(input[r])
    /\ LET s == input[r][cursor[r]]
           t == Tag(scope[r], s)
           first == FirstMinted(prov[r], t, s)
       IN /\ ~Collides(prov[r], t, s)
          /\ prov' = [prov EXCEPT ![r][t] = first]
          /\ sealed' = [sealed EXCEPT ![r] = Seal(node[r], first)]
    /\ thread' = [thread EXCEPT ![r] = "put"]
    /\ UNCHANGED <<vaultVars, task, node, scope, input, reply, cursor,
                   outcome, history>>

(* prepare does not return a request to forward: inspection refuses it or  *)
(* policy blocks it, before anything is minted, or a tag collides.  The    *)
(* thread ends, and the request fails if anyone still waits for it.        *)
PrepareFails(r) ==
    /\ thread[r] = "mint"
    /\ \/ cursor[r] = 1
       \/ /\ cursor[r] <= Len(input[r])
          /\ LET s == input[r][cursor[r]]
             IN Collides(prov[r], Tag(scope[r], s), s)
    /\ thread' = [thread EXCEPT ![r] = "none"]
    /\ task' = [task EXCEPT ![r] = Proceed(@, "preparing", "failed")]
    /\ UNCHANGED <<vaultVars, node, scope, input, reply, cursor, prov, sealed,
                   outcome, history>>

MinOf(a, b) == IF a <= b THEN a ELSE b

(* History.  A write by r makes the vault owe r the tag until the record   *)
(* expires.  Anyone's later write of the same value may bring that forward *)
(* (expiries are computed outside the lock, so writes may land out of      *)
(* order); a write of a colliding value ends it.                           *)
OwedAfterPut(r, t) ==
    [q \in Requests |->
       IF scope[q] # scope[r] THEN owed[q]
       ELSE [owed[q] EXCEPT ![t] =
               IF q = r THEN IF @ = 0 THEN sealed[r].expires
                             ELSE MinOf(@, sealed[r].expires)
               ELSE IF prov[q][t] # None /\ Canon[prov[q][t]] # Canon[sealed[r].value]
                    THEN 0
                    ELSE MinOf(@, sealed[r].expires)]]

(* History.  The record that a thread has in hand, fetched and not opened, *)
(* is no longer what the vault holds under one of these tags.              *)
OvertakenIn(sc, tags) ==
    [q \in Requests |->
       \/ overtaken[q]
       \/ thread[q] = "open" /\ scope[q] = sc /\ reply[q][cursor[q]] \in tags]

(* The rest of put: the backend's lock is taken and the record stored.     *)
Write(r) ==
    /\ thread[r] = "put"
    /\ LET t == Tag(scope[r], sealed[r].value)
       IN /\ BackendPut(scope[r], t, sealed[r])
          /\ owed' = OwedAfterPut(r, t)
          /\ overtaken' = OvertakenIn(scope[r], {t})
    /\ thread' = [thread EXCEPT ![r] = "mint"]
    /\ cursor' = [cursor EXCEPT ![r] = @ + 1]
    /\ sealed' = [sealed EXCEPT ![r] = NoRecord]
    /\ UNCHANGED <<clock, task, node, scope, input, reply, prov, outcome>>

(* prepare() returns.  A cancelled task is no longer there to go on.       *)
Prepared(r) ==
    /\ thread[r] = "mint"
    /\ cursor[r] > Len(input[r])
    /\ thread' = [thread EXCEPT ![r] = "none"]
    /\ task' = [task EXCEPT ![r] = Proceed(@, "preparing", "calling")]
    /\ UNCHANGED <<vaultVars, node, scope, input, reply, cursor, prov, sealed,
                   outcome, history>>

-----------------------------------------------------------------------------
(* The provider: external                                                  *)

ProviderAnswers(r) ==
    /\ task[r] = "calling"
    /\ \E rep \in Replies :
         /\ reply' = [reply EXCEPT ![r] = rep]
         /\ cursor' = [cursor EXCEPT ![r] = Len(rep)]
         /\ outcome' = [outcome EXCEPT ![r] = [i \in 1 .. Len(rep) |-> Pending]]
    /\ task' = [task EXCEPT ![r] = "restoring"]
    /\ thread' = [thread EXCEPT ![r] = "fetch"]
    /\ UNCHANGED <<vaultVars, node, scope, input, prov, sealed, history>>

(* ProviderError: no answer, or one the adapter rejects.                   *)
ProviderFails(r) ==
    /\ task[r] = "calling"
    /\ task' = [task EXCEPT ![r] = "failed"]
    /\ UNCHANGED <<vaultVars, thread, node, scope, input, reply, cursor, prov,
                   sealed, outcome, history>>

-----------------------------------------------------------------------------
(* _restore_response(): RestorationEngine.restore, matches right to left   *)

Settle(r, what) ==
    /\ outcome' = [outcome EXCEPT ![r][cursor[r]] = what]
    /\ cursor' = [cursor EXCEPT ![r] = @ - 1]
    /\ thread' = [thread EXCEPT ![r] = "fetch"]

(* provenance.was_minted_here(token) is false.                             *)
RefuseForeign(r) ==
    /\ thread[r] = "fetch"
    /\ cursor[r] > 0
    /\ prov[r][reply[r][cursor[r]]] = None
    /\ Settle(r, "not_minted")
    /\ UNCHANGED <<vaultVars, task, node, scope, input, reply, prov, sealed,
                   history>>

\* mutant: a key that is not configured looks like an absent record
MissingKeyIsMiss == "vault_miss"

(* VaultKeyUnavailableError is counted apart from an absent record.        *)
MissingKey == "key_unavailable"

(* SurrogateVault.get, up to the record it read under the backend's lock   *)
(* and the choice of the key.                                              *)
Fetch(r) ==
    /\ thread[r] = "fetch"
    /\ cursor[r] > 0
    /\ LET t == reply[r][cursor[r]]
           rec == BackendGet(scope[r], t)
       IN /\ prov[r][t] # None
          /\ ExpireOnRead(scope[r], t)
          /\ \/ /\ rec = NoRecord
                /\ Settle(r, "vault_miss")
                /\ UNCHANGED sealed
             \/ /\ rec # NoRecord
                /\ rec.version \notin Ring[node[r]]
                /\ Settle(r, MissingKey)
                /\ UNCHANGED sealed
             \/ /\ rec # NoRecord
                /\ rec.version \in Ring[node[r]]
                /\ sealed' = [sealed EXCEPT ![r] = rec]
                /\ thread' = [thread EXCEPT ![r] = "open"]
                /\ UNCHANGED <<outcome, cursor>>
    /\ UNCHANGED <<clock, task, node, scope, input, reply, prov, history>>

\* mutant: no second look at the clock
ConfirmsStale(rec, minted) == Canon[rec.value] = Canon[minted]

(* The vault confirms a mapping whose record is live and whose value is    *)
(* the value minted here, in any spelling.                                 *)
Confirms(rec, minted) == ~IsExpired(rec) /\ Canon[rec.value] = Canon[minted]

\* mutant: the vault's value is handed out
ShowStored(rec, minted) == rec.value

(* The request's own spelling replaces the token, not the vault's.         *)
Show(rec, minted) == minted

(* The rest of get, and restore's decision.                                *)
Open(r) ==
    /\ thread[r] = "open"
    /\ LET minted == prov[r][reply[r][cursor[r]]]
       IN Settle(r, IF Confirms(sealed[r], minted) THEN Show(sealed[r], minted)
                      ELSE "vault_miss")
    /\ sealed' = [sealed EXCEPT ![r] = NoRecord]
    /\ overtaken' = [overtaken EXCEPT ![r] = FALSE]
    /\ UNCHANGED <<vaultVars, task, node, scope, input, reply, prov, owed>>

(* The response is returned once every match is decided.  After any field  *)
(* restored text may turn out to have outgrown its budget (sizes are       *)
(* abstracted): the rest is then not looked at and the request fails.      *)
Deliver(r) ==
    /\ thread[r] = "fetch"
    /\ thread' = [thread EXCEPT ![r] = "none"]
    /\ \/ /\ cursor[r] = 0
          /\ task' = [task EXCEPT ![r] = Proceed(@, "restoring", "answered")]
       \/ task' = [task EXCEPT ![r] = Proceed(@, "restoring", "failed")]
    /\ UNCHANGED <<vaultVars, node, scope, input, reply, cursor, prov, sealed,
                   outcome, history>>

-----------------------------------------------------------------------------
(* The environment                                                         *)

(* The client disconnects: the task ends at its await, the thread does not. *)
Cancel(r) ==
    /\ task[r] \in Running
    /\ task' = [task EXCEPT ![r] = "cancelled"]
    /\ UNCHANGED <<vaultVars, thread, node, scope, input, reply, cursor, prov,
                   sealed, outcome, history>>

Passing == (Tick \/ Sweep) /\ UNCHANGED <<reqVars, history>>

(* DELETE /v1/conversations/{id}.                                          *)
Delete(sc) ==
    /\ DeletePrefix(sc)
    /\ owed' = [r \in Requests |-> IF scope[r] = sc THEN [t \in Tags |-> 0]
                                   ELSE owed[r]]
    /\ overtaken' = OvertakenIn(sc, Tags)
    /\ UNCHANGED <<clock, reqVars>>

(* A process dies with its tasks and threads, and with its memory.         *)
Crash(n) ==
    LET down == {r \in Requests : node[r] = n /\ task[r] # "idle"}
    IN /\ \E r \in down : thread[r] # "none" \/ task[r] \in Running
       /\ task' = [r \in Requests |->
                     IF r \in down /\ task[r] \in Running THEN "lost" ELSE task[r]]
       /\ thread' = [r \in Requests |-> IF r \in down THEN "none" ELSE thread[r]]
       /\ sealed' = [r \in Requests |-> IF r \in down THEN NoRecord ELSE sealed[r]]
       /\ overtaken' = [r \in Requests |-> r \notin down /\ overtaken[r]]
       /\ IF Durable
          THEN UNCHANGED <<backend, owed>>
          ELSE /\ backend' = [s \in Scope |-> [t \in Tags |-> NoRecord]]
               /\ owed' = [r \in Requests |-> [t \in Tags |-> 0]]
    /\ UNCHANGED <<clock, node, scope, input, reply, cursor, prov, outcome>>

ThreadStep(r) ==
    \/ Mint(r) \/ PrepareFails(r) \/ Write(r) \/ Prepared(r)
    \/ RefuseForeign(r) \/ Fetch(r) \/ Open(r) \/ Deliver(r)

ProviderStep(r) == ProviderAnswers(r) \/ ProviderFails(r)

Next ==
    \/ \E r \in Requests :
         Submit(r) \/ ThreadStep(r) \/ ProviderStep(r) \/ Cancel(r)
    \/ Passing
    \/ \E sc \in Scope : Delete(sc)
    \/ \E n \in Nodes : Crash(n)

Spec == Init /\ [][Next]_vars

(* The operating system schedules threads, the adapter's deadline ends     *)
(* every provider call, and the sweeper task runs for as long as the       *)
(* process does.                                                           *)
Fairness ==
    /\ \A r \in Requests : WF_vars(ThreadStep(r)) /\ WF_vars(ProviderStep(r))
    /\ WF_vars(Sweep /\ UNCHANGED <<reqVars, history>>)

FairSpec == Spec /\ Fairness

-----------------------------------------------------------------------------
(* Properties                                                              *)

Restored(r, i) == outcome[r][i] \in Spellings

(* Request r's own text holds spelling s, and t is the tag for it.         *)
Submitted(r, s, t) ==
    \E j \in DOMAIN input[r] : input[r][j] = s /\ Tag(scope[r], s) = t

(* SI-03.  Whatever tags the provider sends and whatever other requests    *)
(* write to the same keys, a match is replaced only by a spelling this very*)
(* request contained, and only where the tag is that spelling's own.       *)
OwnSpellingOnly ==
    \A r \in Requests : \A i \in DOMAIN outcome[r] :
        Restored(r, i) => Submitted(r, outcome[r][i], reply[r][i])

(* Availability.  The vault may disclaim a tag this request minted only    *)
(* once the mapping's time is up, or it was erased, lost with the process, *)
(* or displaced by a colliding value: neither the sweeper, nor a read, nor *)
(* another request's write, nor another conversation's erasure loses it.   *)
MissesAreDue ==
    \A r \in Requests : \A i \in DOMAIN outcome[r] :
        outcome[r][i] = "vault_miss" => clock >= owed[r][reply[r][i]]

(* A look-up is two steps, and the vault moves between them: time passes,  *)
(* the sweeper and other reads remove records, processes crash.  Unless the *)
(* tag was written again or its conversation erased in between, what is    *)
(* handed out is still in the vault when it is handed out: live, and about *)
(* the value minted here, even where tags collide.                         *)
RestoredIsBacked ==
    [][\A r \in Requests : \A i \in DOMAIN outcome[r] :
          (outcome'[r][i] \in Spellings /\ ~Restored(r, i) /\ ~overtaken[r])
             => LET rec == backend[scope[r]][reply[r][i]]
                IN /\ rec # NoRecord /\ clock < rec.expires
                   /\ Canon[rec.value] = Canon[outcome'[r][i]]]_vars

(* Every request comes to an end, and a cancelled one leaves no thread     *)
(* running for ever.                                                       *)
EveryRequestEnds ==
    \A r \in Requests : task[r] \in Running ~> task[r] \in Ended /\ thread[r] = "none"

(* A mapping nobody asks for again leaves memory once its time is up.      *)
ExpiredMappingsLeave ==
    \A sc \in Scope, t \in Tags :
        (backend[sc][t] # NoRecord /\ clock >= backend[sc][t].expires)
            ~> (backend[sc][t] = NoRecord \/ clock < backend[sc][t].expires)

-----------------------------------------------------------------------------
(* The promise this implements                                             *)

PhaseOf(r) ==
    IF task[r] \in Running THEN "open"
    ELSE IF task[r] \in {"idle", "answered"} THEN task[r] ELSE "closed"

AnswerOf(r) ==
    IF task[r] = "answered"
    THEN [i \in DOMAIN outcome[r] |->
            [tag |-> reply[r][i], text |-> outcome[r][i]]]
    ELSE <<>>

Promise == INSTANCE RestorationPromise WITH
    Scopes <- Scope,
    TagName <- [p \in Scope \X Spellings |-> Tag(p[1], p[2])],
    Verdicts <- Refusals,
    phase <- [r \in Requests |-> PhaseOf(r)],
    asked <- [r \in Requests |-> <<scope[r], input[r]>>],
    answer <- [r \in Requests |-> AnswerOf(r)]

(* The pipeline implements the promise: no interleaving of threads,        *)
(* cancellations, crashes, erasures and expiries answers twice, alters an  *)
(* answer, delivers an undecided match or shows a foreign spelling.        *)
KeepsPromise == Promise!Spec

-----------------------------------------------------------------------------
(* The inductive invariant behind the theorems of RestorationProofs        *)

(* Where a task and its thread stand, and what the thread holds there.     *)
PlaceOK(r) ==
    /\ task[r] = "idle" => thread[r] = "none" /\ \A t \in Tags : prov[r][t] = None
    /\ task[r] = "preparing" => thread[r] \in {"mint", "put"}
    /\ task[r] = "calling" => thread[r] = "none"
    /\ task[r] = "restoring" => thread[r] \in {"fetch", "open"}
    /\ task[r] = "answered" => thread[r] = "none"
    /\ task[r] \in {"idle", "preparing", "calling"} \/ thread[r] \in {"mint", "put"}
         => reply[r] = <<>> /\ outcome[r] = <<>>
    /\ Len(outcome[r]) = Len(reply[r])
    /\ thread[r] = "mint" => cursor[r] >= 1
    /\ thread[r] = "put" =>
         /\ cursor[r] \in 1 .. Len(input[r])
         /\ sealed[r] \in Record
         /\ prov[r][Tag(scope[r], sealed[r].value)] = sealed[r].value
    /\ thread[r] = "fetch" => cursor[r] \in 0 .. Len(reply[r])
    /\ thread[r] = "open" =>
         /\ cursor[r] \in 1 .. Len(reply[r])
         /\ sealed[r] \in Record
         /\ prov[r][reply[r][cursor[r]]] # None

PlacesOK == \A r \in Requests : PlaceOK(r)

(* Provenance names only the request's own spellings, under their own tags. *)
ProvenanceOK ==
    \A r \in Requests, t \in Tags :
        prov[r][t] # None => Submitted(r, prov[r][t], t)

(* A match is undecided exactly while the thread has not come to it.       *)
Decided(r) ==
    /\ thread[r] \in {"fetch", "open"} =>
         \A i \in DOMAIN outcome[r] : outcome[r][i] = Pending => i <= cursor[r]
    /\ task[r] = "answered" => \A i \in DOMAIN outcome[r] : outcome[r][i] # Pending

ProgressOK == \A r \in Requests : Decided(r)

(* A mapping that is owed is there, live and for the right value.          *)
OwedAt(r, t) ==
    /\ owed[r][t] # 0 => prov[r][t] # None
    /\ owed[r][t] > clock =>
         /\ backend[scope[r]][t] \in Record
         /\ backend[scope[r]][t].expires >= owed[r][t]
         /\ Canon[backend[scope[r]][t].value] = Canon[prov[r][t]]

(* So is one that a thread has fetched and not yet opened.                 *)
OwedInHand(r) ==
    LET t == reply[r][cursor[r]] IN
    (thread[r] = "open" /\ owed[r][t] > clock) =>
        /\ sealed[r].expires >= owed[r][t]
        /\ Canon[sealed[r].value] = Canon[prov[r][t]]

OwedOK ==
    /\ \A r \in Requests, t \in Tags : OwedAt(r, t)
    /\ \A r \in Requests : OwedInHand(r)

(* A record in hand that nothing has overtaken is in the vault or expired. *)
InHand(r) ==
    /\ overtaken[r] => thread[r] = "open"
    /\ thread[r] = "open" /\ ~overtaken[r] =>
         \/ backend[scope[r]][reply[r][cursor[r]]] = sealed[r]
         \/ clock >= sealed[r].expires

HandsOK == \A r \in Requests : InHand(r)

IInv ==
    /\ TypeOK /\ PlacesOK /\ ProvenanceOK /\ ProgressOK /\ OwedOK /\ HandsOK
    /\ OwnSpellingOnly /\ MissesAreDue
=============================================================================
