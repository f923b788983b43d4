------------------------- MODULE RestorationProofs -------------------------
(***************************************************************************)
(* Theorems about RestorationPipeline for every set of requests, scopes,   *)
(* spellings and tags, every tag function (colliding or not), every TTL    *)
(* and every assignment of key rings to processes.                         *)
(***************************************************************************)
EXTENDS RestorationPipeline, SequenceTheorems, TLAPS

(* Replacing one element keeps a sequence a sequence of the same length.   *)
LEMMA SeqUpdate ==
    ASSUME NEW S, NEW s \in Seq(S), NEW i, NEW x \in S
    PROVE  /\ [s EXCEPT ![i] = x] \in Seq(S)
           /\ Len([s EXCEPT ![i] = x]) = Len(s)
           /\ DOMAIN [s EXCEPT ![i] = x] = DOMAIN s
           /\ \A j \in DOMAIN s : [s EXCEPT ![i] = x][j] = IF j = i THEN x ELSE s[j]
<1>1. CASE i \in 1 .. Len(s)
  BY <1>1, ExceptSeq
<1>2. CASE i \notin 1 .. Len(s)
  <2>1. [s EXCEPT ![i] = x] = s
    BY <1>2, LenProperties
  <2> QED BY <2>1
<1> QED BY <1>1, <1>2

(* A tag is computed for every scope and spelling.                         *)
LEMMA TagType == \A sc \in Scope, s \in Spellings : Tag(sc, s) \in Tags
BY VaultAssumption DEF Tag

(* The key version a process seals with is one of the known versions.      *)
LEMMA SealType ==
    ASSUME clock \in 0 .. ClockBound, NEW n \in Nodes, NEW s \in Spellings
    PROVE  Seal(n, s) \in Record
BY VaultAssumption DEF Seal, Record, KeyVersions

(* Reading the backend yields what is stored there, or nothing.            *)
LEMMA GetType ==
    ASSUME VaultTypeOK, NEW sc \in Scope, NEW t \in Tags
    PROVE  /\ BackendGet(sc, t) \in Record \cup {NoRecord}
           /\ BackendGet(sc, t) # NoRecord =>
                 /\ BackendGet(sc, t) = backend[sc][t]
                 /\ clock < backend[sc][t].expires
           /\ BackendGet(sc, t) = NoRecord =>
                 \/ backend[sc][t] = NoRecord
                 \/ clock >= backend[sc][t].expires
BY DEF VaultTypeOK, BackendGet, IsExpired, Record

-----------------------------------------------------------------------------
(* Type correctness                                                        *)

(* Every variable starts in its type: an empty vault, idle requests.       *)
LEMMA InitType == Init => TypeOK
<1> SUFFICES ASSUME Init PROVE TypeOK
  OBVIOUS
<1>1. VaultTypeOK
  BY VaultAssumption, NoRecordAssumption DEF Init, VaultInit, VaultTypeOK
<1>2. /\ (CHOOSE n \in Nodes : TRUE) \in Nodes
      /\ (CHOOSE sc \in Scope : TRUE) \in Scope
  BY PipelineAssumption
<1>3. /\ <<>> \in Seq(Spellings)
      /\ <<>> \in Seq(Tags)
      /\ <<>> \in Seq(Spellings \cup Refusals \cup {Pending})
  BY EmptySeq
<1> QED BY <1>1, <1>2, <1>3 DEF Init, TypeOK

(* Settling a match keeps the outcome a sequence of decisions.             *)
LEMMA SettleType ==
    ASSUME TypeOK, NEW r \in Requests, cursor[r] > 0,
           NEW what \in Spellings \cup Refusals, Settle(r, what)
    PROVE  /\ outcome' \in [Requests -> Seq(Spellings \cup Refusals \cup {Pending})]
           /\ cursor' \in [Requests -> Nat]
           /\ thread' \in [Requests -> {"none", "mint", "put", "fetch", "open"}]
<1>1. [outcome[r] EXCEPT ![cursor[r]] = what]
        \in Seq(Spellings \cup Refusals \cup {Pending})
  BY SeqUpdate DEF TypeOK
<1> QED BY <1>1 DEF TypeOK, Settle

(* What settling a match does to the request.                              *)
LEMMA SettleEffect ==
    ASSUME TypeOK, NEW r \in Requests,
           NEW what \in Spellings \cup Refusals, Settle(r, what)
    PROVE  /\ outcome'[r] = [outcome[r] EXCEPT ![cursor[r]] = what]
           /\ Len(outcome'[r]) = Len(outcome[r])
           /\ DOMAIN outcome'[r] = DOMAIN outcome[r]
           /\ \A i \in DOMAIN outcome[r] :
                outcome'[r][i] = IF i = cursor[r] THEN what ELSE outcome[r][i]
           /\ cursor'[r] = cursor[r] - 1
           /\ thread'[r] = "fetch"
BY SeqUpdate DEF TypeOK, Settle

(* What a write or an erasure overtakes is again a truth value each.       *)
LEMMA OvertakenType ==
    ASSUME TypeOK, NEW sc, NEW tags
    PROVE  OvertakenIn(sc, tags) \in [Requests -> BOOLEAN]
BY DEF TypeOK, OvertakenIn

(* No step of a request, its thread, the provider, the clock, the sweeper, *)
(* an erasure or a crash takes a variable out of its type.                 *)
LEMMA TypeStep ==
    TypeOK /\ PlacesOK /\ [Next]_vars => TypeOK'
<1> SUFFICES ASSUME TypeOK, PlacesOK, [Next]_vars PROVE TypeOK'
  OBVIOUS
<1> USE DEF reqVars, vaultVars, history
<1>1. ASSUME NEW r \in Requests, Submit(r) PROVE TypeOK'
  BY <1>1, PipelineAssumption DEF Submit, TypeOK, VaultTypeOK, Running
<1>2. ASSUME NEW r \in Requests, Mint(r) PROVE TypeOK'
  <2> DEFINE s == input[r][cursor[r]]
             t == Tag(scope[r], s)
             first == FirstMinted(prov[r], t, s)
  <2>1. s \in Spellings
    BY <1>2, ElementOfSeq DEF Mint, TypeOK, PlacesOK, PlaceOK
  <2>2. t \in Tags /\ first \in Spellings
    BY <2>1, TagType DEF TypeOK, FirstMinted
  <2>3. Seal(node[r], first) \in Record
    BY <2>2, SealType DEF TypeOK, VaultTypeOK
  <2> HIDE DEF s, t, first
  <2>4. /\ prov' = [prov EXCEPT ![r][t] = first]
        /\ sealed' = [sealed EXCEPT ![r] = Seal(node[r], first)]
    BY <1>2 DEF Mint, s, t, first
  <2>5. prov' \in [Requests -> [Tags -> Spellings \cup {None}]]
    BY <2>2, <2>4 DEF TypeOK
  <2>6. sealed' \in [Requests -> Record \cup {NoRecord}]
    BY <2>3, <2>4 DEF TypeOK
  <2>7. /\ thread' = [thread EXCEPT ![r] = "put"]
        /\ UNCHANGED <<clock, backend, task, node, scope, input, reply, cursor,
                       outcome, history>>
    BY <1>2 DEF Mint
  <2> QED BY <2>5, <2>6, <2>7 DEF TypeOK, VaultTypeOK
<1>3. ASSUME NEW r \in Requests, PrepareFails(r) PROVE TypeOK'
  BY <1>3 DEF PrepareFails, Proceed, TypeOK, VaultTypeOK, Ended
<1>4. ASSUME NEW r \in Requests, Write(r) PROVE TypeOK'
  <2> DEFINE t == Tag(scope[r], sealed[r].value)
  <2>1. sealed[r] \in Record /\ sealed[r].value \in Spellings
        /\ sealed[r].expires \in Nat
    BY <1>4 DEF Write, PlacesOK, PlaceOK, Record
  <2>2. t \in Tags
    BY <2>1, TagType DEF TypeOK
  <2> HIDE DEF t
  <2>3. backend' = [backend EXCEPT ![scope[r]][t] = sealed[r]]
    BY <1>4 DEF Write, BackendPut, t
  <2>4. backend' \in [Scope -> [Tags -> Record \cup {NoRecord}]]
    BY <2>1, <2>2, <2>3 DEF TypeOK, VaultTypeOK
  <2>5. owed' = OwedAfterPut(r, t)
    BY <1>4 DEF Write, t
  <2>6. OwedAfterPut(r, t) \in [Requests -> [Tags -> Nat]]
    BY <2>1, <2>2 DEF OwedAfterPut, MinOf, TypeOK
  <2>7. /\ thread' = [thread EXCEPT ![r] = "mint"]
        /\ cursor' = [cursor EXCEPT ![r] = @ + 1]
        /\ sealed' = [sealed EXCEPT ![r] = NoRecord]
        /\ UNCHANGED <<clock, task, node, scope, input, reply, prov, outcome>>
    BY <1>4 DEF Write
  <2>8. owed' \in [Requests -> [Tags -> Nat]]
    BY <2>5, <2>6
  <2>9. /\ thread' \in [Requests -> {"none", "mint", "put", "fetch", "open"}]
        /\ cursor' \in [Requests -> Nat]
        /\ sealed' \in [Requests -> Record \cup {NoRecord}]
    BY <2>7 DEF TypeOK
  <2>10. overtaken' \in [Requests -> BOOLEAN]
    BY <1>4, OvertakenType DEF Write
  <2> QED BY <2>4, <2>7, <2>8, <2>9, <2>10 DEF TypeOK, VaultTypeOK
<1>5. ASSUME NEW r \in Requests, Prepared(r) PROVE TypeOK'
  BY <1>5 DEF Prepared, Proceed, TypeOK, VaultTypeOK, Running
<1>6. ASSUME NEW r \in Requests, ProviderAnswers(r) PROVE TypeOK'
  <2> PICK rep \in Replies :
        /\ reply' = [reply EXCEPT ![r] = rep]
        /\ cursor' = [cursor EXCEPT ![r] = Len(rep)]
        /\ outcome' = [outcome EXCEPT ![r] = [i \in 1 .. Len(rep) |-> Pending]]
    BY <1>6 DEF ProviderAnswers
  <2>1. rep \in Seq(Tags) /\ Len(rep) \in Nat
    BY PipelineAssumption, LenProperties
  <2>2. [i \in 1 .. Len(rep) |-> Pending] \in Seq(Spellings \cup Refusals \cup {Pending})
    BY <2>1, IsASeq
  <2> QED BY <1>6, <2>1, <2>2 DEF ProviderAnswers, TypeOK, VaultTypeOK, Running
<1>7. ASSUME NEW r \in Requests, ProviderFails(r) PROVE TypeOK'
  BY <1>7 DEF ProviderFails, TypeOK, VaultTypeOK, Ended
<1>8. ASSUME NEW r \in Requests, RefuseForeign(r) PROVE TypeOK'
  BY <1>8, SettleType DEF RefuseForeign, TypeOK, VaultTypeOK, Refusals
<1>9. ASSUME NEW r \in Requests, Fetch(r) PROVE TypeOK'
  <2> DEFINE t == reply[r][cursor[r]]
             rec == BackendGet(scope[r], t)
  <2>1. t \in Tags
    BY <1>9, ElementOfSeq DEF Fetch, PlacesOK, PlaceOK, TypeOK
  <2>2. rec \in Record \cup {NoRecord}
    BY <2>1, GetType DEF TypeOK
  <2>3. backend' \in [Scope -> [Tags -> Record \cup {NoRecord}]]
    BY <1>9, <2>1, <2>2 DEF Fetch, ExpireOnRead, TypeOK, VaultTypeOK
  <2>4. /\ outcome' \in [Requests -> Seq(Spellings \cup Refusals \cup {Pending})]
        /\ cursor' \in [Requests -> Nat]
        /\ thread' \in [Requests -> {"none", "mint", "put", "fetch", "open"}]
        /\ sealed' \in [Requests -> Record \cup {NoRecord}]
    <3>1. CASE Settle(r, "vault_miss") /\ UNCHANGED sealed
      BY <1>9, <3>1, SettleType DEF Fetch, MissingKey, TypeOK, Refusals
    <3>2. CASE Settle(r, "key_unavailable") /\ UNCHANGED sealed
      BY <1>9, <3>2, SettleType DEF Fetch, MissingKey, TypeOK, Refusals
    <3>3. CASE /\ sealed' = [sealed EXCEPT ![r] = rec]
               /\ thread' = [thread EXCEPT ![r] = "open"]
               /\ UNCHANGED <<outcome, cursor>>
      BY <2>2, <3>3 DEF TypeOK
    <3> QED BY <1>9, <3>1, <3>2, <3>3 DEF Fetch, MissingKey
  <2> QED BY <1>9, <2>3, <2>4 DEF Fetch, TypeOK, VaultTypeOK
<1>10. ASSUME NEW r \in Requests, Open(r) PROVE TypeOK'
  <2> DEFINE minted == prov[r][reply[r][cursor[r]]]
             what == IF Confirms(sealed[r], minted) THEN minted ELSE "vault_miss"
  <2>1. cursor[r] \in 1 .. Len(reply[r]) /\ minted # None
    BY <1>10 DEF Open, PlacesOK, PlaceOK
  <2>2. reply[r][cursor[r]] \in Tags
    BY <2>1, ElementOfSeq DEF TypeOK
  <2>3. what \in Spellings \cup Refusals
    BY <2>1, <2>2 DEF TypeOK, Refusals
  <2>4. Settle(r, what)
    BY <1>10 DEF Open, Show
  <2>5. cursor[r] > 0
    BY <2>1, LenProperties DEF TypeOK
  <2> HIDE DEF what
  <2> QED BY <1>10, <2>3, <2>4, <2>5, SettleType DEF Open, Show, TypeOK, VaultTypeOK
<1>11. ASSUME NEW r \in Requests, Deliver(r) PROVE TypeOK'
  BY <1>11 DEF Deliver, Proceed, TypeOK, VaultTypeOK, Ended
<1>12. ASSUME NEW r \in Requests, Cancel(r) PROVE TypeOK'
  BY <1>12 DEF Cancel, TypeOK, VaultTypeOK, Ended
<1>13. ASSUME Passing PROVE TypeOK'
  <2>1. CASE Tick
    BY <1>13, <2>1, VaultAssumption DEF Passing, Tick, TypeOK, VaultTypeOK
  <2>2. CASE Sweep
    <3>1. backend' \in [Scope -> [Tags -> Record \cup {NoRecord}]]
      BY <2>2 DEF Sweep, Purged, TypeOK, VaultTypeOK
    <3> QED BY <1>13, <2>2, <3>1 DEF Passing, Sweep, TypeOK, VaultTypeOK
  <2> QED BY <1>13, <2>1, <2>2 DEF Passing
<1>14. ASSUME NEW sc \in Scope, Delete(sc) PROVE TypeOK'
  <2>1. overtaken' \in [Requests -> BOOLEAN]
    BY <1>14, OvertakenType DEF Delete
  <2> QED BY <1>14, <2>1 DEF Delete, DeletePrefix, TypeOK, VaultTypeOK
<1>15. ASSUME NEW n \in Nodes, Crash(n) PROVE TypeOK'
  <2>1. /\ backend' \in [Scope -> [Tags -> Record \cup {NoRecord}]]
        /\ owed' \in [Requests -> [Tags -> Nat]]
    <3>1. CASE Durable
      BY <1>15, <3>1 DEF Crash, TypeOK, VaultTypeOK
    <3>2. CASE ~Durable
      BY <1>15, <3>2 DEF Crash, TypeOK, VaultTypeOK
    <3> QED BY <3>1, <3>2
  <2>2. /\ task' \in [Requests -> {"idle"} \cup Running \cup Ended]
        /\ thread' \in [Requests -> {"none", "mint", "put", "fetch", "open"}]
        /\ sealed' \in [Requests -> Record \cup {NoRecord}]
        /\ overtaken' \in [Requests -> BOOLEAN]
    BY <1>15 DEF Crash, TypeOK, Ended
  <2>3. UNCHANGED <<clock, node, scope, input, reply, cursor, prov, outcome>>
    BY <1>15 DEF Crash
  <2> QED BY <2>1, <2>2, <2>3 DEF TypeOK, VaultTypeOK
<1>16. CASE UNCHANGED vars
  BY <1>16 DEF vars, TypeOK, VaultTypeOK
<1> QED BY <1>1, <1>2, <1>3, <1>4, <1>5, <1>6, <1>7, <1>8, <1>9, <1>10, <1>11,
           <1>12, <1>13, <1>14, <1>15, <1>16 DEF Next, ThreadStep, ProviderStep

-----------------------------------------------------------------------------
(* Tasks and threads                                                       *)

(* A step of one request leaves every other request's own state alone.     *)
OwnStep(r) == Submit(r) \/ ThreadStep(r) \/ ProviderStep(r) \/ Cancel(r)

Same(q) ==
    /\ task'[q] = task[q] /\ thread'[q] = thread[q] /\ node'[q] = node[q]
    /\ scope'[q] = scope[q] /\ input'[q] = input[q] /\ reply'[q] = reply[q]
    /\ cursor'[q] = cursor[q] /\ prov'[q] = prov[q] /\ sealed'[q] = sealed[q]
    /\ outcome'[q] = outcome[q]

(* A step of one request leaves every other request alone.                 *)
LEMMA OthersSame ==
    ASSUME TypeOK, NEW r \in Requests, OwnStep(r), NEW q \in Requests, q # r
    PROVE  Same(q)
<1> USE DEF Same, TypeOK
<1>1. CASE Submit(r)
  BY <1>1 DEF Submit
<1>2. CASE Mint(r)
  BY <1>2 DEF Mint
<1>3. CASE PrepareFails(r)
  BY <1>3 DEF PrepareFails
<1>4. CASE Write(r)
  BY <1>4 DEF Write
<1>5. CASE Prepared(r)
  BY <1>5 DEF Prepared
<1>6. CASE ProviderAnswers(r)
  BY <1>6 DEF ProviderAnswers
<1>7. CASE ProviderFails(r)
  BY <1>7 DEF ProviderFails
<1>8. CASE RefuseForeign(r)
  BY <1>8 DEF RefuseForeign, Settle
<1>9. CASE Fetch(r)
  BY <1>9 DEF Fetch, Settle
<1>10. CASE Open(r)
  BY <1>10 DEF Open, Settle
<1>11. CASE Deliver(r)
  BY <1>11 DEF Deliver
<1>12. CASE Cancel(r)
  BY <1>12 DEF Cancel
<1> QED BY <1>1, <1>2, <1>3, <1>4, <1>5, <1>6, <1>7, <1>8, <1>9, <1>10, <1>11,
           <1>12 DEF OwnStep, ThreadStep, ProviderStep

(* The steps of the environment: time, erasure.                            *)
LEMMA EnvironmentSame ==
    ASSUME Passing \/ (\E sc \in Scope : Delete(sc)) \/ UNCHANGED vars,
           NEW q \in Requests
    PROVE  Same(q)
BY DEF Passing, Delete, vars, reqVars, Same

(* A crash ends threads and running tasks and leaves the rest of the       *)
(* requests' state alone.                                                  *)
LEMMA CrashEffect ==
    ASSUME TypeOK, NEW n \in Nodes, Crash(n), NEW q \in Requests
    PROVE  /\ UNCHANGED <<clock, node, scope, input, reply, cursor, prov, outcome>>
           /\ \/ task'[q] = task[q] /\ thread'[q] = thread[q] /\ sealed'[q] = sealed[q]
              \/ /\ task'[q] = IF task[q] \in Running THEN "lost" ELSE task[q]
                 /\ task[q] # "idle" /\ thread'[q] = "none" /\ sealed'[q] = NoRecord
BY DEF Crash, TypeOK

(* The next-state relation, by what the proofs distinguish.                *)
LEMMA NextCases ==
    ASSUME [Next]_vars
    PROVE  \/ \E r \in Requests : OwnStep(r)
           \/ Passing \/ (\E sc \in Scope : Delete(sc)) \/ UNCHANGED vars
           \/ \E n \in Nodes : Crash(n)
BY DEF Next, OwnStep

(* Settling a match leaves the thread in place for the next one.           *)
LEMMA SettlePlace ==
    ASSUME TypeOK, NEW q \in Requests, PlaceOK(q),
           thread[q] \in {"fetch", "open"}, cursor[q] \in 1 .. Len(reply[q]),
           NEW what \in Spellings \cup Refusals, Settle(q, what),
           UNCHANGED <<task, scope, input, reply, prov>>
    PROVE  PlaceOK(q)'
<1>1. /\ Len(outcome'[q]) = Len(outcome[q])
      /\ cursor'[q] = cursor[q] - 1
      /\ thread'[q] = "fetch"
  BY SettleEffect
<1>2. Len(reply[q]) \in Nat /\ Len(reply[q]) # 0
  BY LenProperties DEF TypeOK
<1>3. reply[q] # <<>>
  BY <1>2, EmptySeq
<1>4. task[q] \notin {"idle", "preparing", "calling"}
  BY <1>3 DEF PlaceOK
<1> QED BY <1>1, <1>2, <1>4 DEF PlaceOK, TypeOK

(* A task and its thread stay in step: process() awaits prepare, then the  *)
(* provider, then _restore_response, and a cancelled thread runs on alone. *)
LEMMA PlacesStep ==
    TypeOK /\ TypeOK' /\ PlacesOK /\ [Next]_vars => PlacesOK'
<1> SUFFICES ASSUME TypeOK, TypeOK', PlacesOK, [Next]_vars,
                    NEW q \in Requests
             PROVE  PlaceOK(q)'
  BY DEF PlacesOK
<1>0. PlaceOK(q)
  BY DEF PlacesOK
<1>same. ASSUME Same(q) PROVE PlaceOK(q)'
  BY <1>0, <1>same DEF Same, PlaceOK, Tag
<1>1. ASSUME Submit(q) PROVE PlaceOK(q)'
  BY <1>0, <1>1 DEF PlaceOK, Submit, TypeOK, Running, Ended
<1>2. ASSUME Mint(q) PROVE PlaceOK(q)'
  <2> DEFINE s == input[q][cursor[q]]
             t == Tag(scope[q], s)
             first == FirstMinted(prov[q], t, s)
  <2>1. cursor[q] \in 1 .. Len(input[q]) /\ s \in Spellings
    BY <1>0, <1>2, ElementOfSeq DEF Mint, TypeOK, PlaceOK
  <2>2. t \in Tags /\ first \in Spellings
    <3>1. t \in Tags
      BY <2>1, TagType DEF TypeOK
    <3> HIDE DEF t, s
    <3> QED BY <2>1, <3>1 DEF TypeOK, FirstMinted
  <2>3. Canon[first] = Canon[s] /\ Tag(scope[q], first) = t
    BY <1>2, <2>1, <2>2 DEF Mint, Collides, FirstMinted, Tag
  <2>4. Seal(node[q], first) \in Record /\ Seal(node[q], first).value = first
    BY <2>2, SealType DEF TypeOK, VaultTypeOK, Seal
  <2> HIDE DEF s, t, first
  <2>5. /\ prov'[q] = [prov[q] EXCEPT ![t] = first]
        /\ sealed'[q] = Seal(node[q], first)
        /\ thread'[q] = "put"
        /\ UNCHANGED <<task, scope, input, reply, cursor, outcome>>
    BY <1>2 DEF Mint, TypeOK, s, t, first
  <2>6. /\ sealed'[q] \in Record
        /\ prov'[q][Tag(scope'[q], sealed'[q].value)] = sealed'[q].value
    BY <2>2, <2>3, <2>4, <2>5 DEF TypeOK
  <2>7. task[q] \notin {"idle", "calling", "restoring", "answered"}
    BY <1>0, <1>2 DEF PlaceOK, Mint
  <2>8. reply'[q] = <<>> /\ outcome'[q] = <<>>
    BY <1>0, <1>2, <2>5 DEF PlaceOK, Mint
  <2> QED BY <1>0, <2>1, <2>5, <2>6, <2>7, <2>8 DEF PlaceOK
<1>3. ASSUME PrepareFails(q) PROVE PlaceOK(q)'
  BY <1>0, <1>3 DEF PlaceOK, PrepareFails, Proceed, TypeOK
<1>4. ASSUME Write(q) PROVE PlaceOK(q)'
  BY <1>0, <1>4 DEF PlaceOK, Write, TypeOK
<1>5. ASSUME Prepared(q) PROVE PlaceOK(q)'
  BY <1>0, <1>5 DEF PlaceOK, Prepared, Proceed, TypeOK
<1>6. ASSUME ProviderAnswers(q) PROVE PlaceOK(q)'
  <2> PICK rep \in Replies :
        /\ reply' = [reply EXCEPT ![q] = rep]
        /\ cursor' = [cursor EXCEPT ![q] = Len(rep)]
        /\ outcome' = [outcome EXCEPT ![q] = [i \in 1 .. Len(rep) |-> Pending]]
    BY <1>6 DEF ProviderAnswers
  <2>1. rep \in Seq(Tags) /\ Len(rep) \in Nat
    BY PipelineAssumption, LenProperties
  <2>2. Len([i \in 1 .. Len(rep) |-> Pending]) = Len(rep)
    BY <2>1
  <2> QED BY <1>0, <1>6, <2>1, <2>2 DEF PlaceOK, ProviderAnswers, TypeOK
<1>7. ASSUME ProviderFails(q) PROVE PlaceOK(q)'
  BY <1>0, <1>7 DEF PlaceOK, ProviderFails, TypeOK
<1>8. ASSUME RefuseForeign(q) PROVE PlaceOK(q)'
  <2>1. Settle(q, "not_minted") /\ "not_minted" \in Refusals
    BY <1>8 DEF RefuseForeign, Refusals
  <2>2. /\ UNCHANGED <<task, scope, input, reply, prov>>
        /\ thread[q] = "fetch" /\ cursor[q] \in 1 .. Len(reply[q])
    BY <1>0, <1>8, LenProperties DEF RefuseForeign, PlaceOK, TypeOK
  <2> QED BY <1>0, <2>1, <2>2, SettlePlace
<1>9. ASSUME Fetch(q) PROVE PlaceOK(q)'
  <2> DEFINE t == reply[q][cursor[q]]
             rec == BackendGet(scope[q], t)
  <2>1. /\ cursor[q] \in 1 .. Len(reply[q]) /\ prov[q][t] # None
        /\ thread[q] = "fetch" /\ UNCHANGED <<task, scope, input, reply, prov>>
    BY <1>0, <1>9, LenProperties DEF PlaceOK, Fetch, TypeOK
  <2>2. ASSUME NEW what \in Refusals, Settle(q, what), UNCHANGED sealed
        PROVE  PlaceOK(q)'
    BY <1>0, <2>1, <2>2, SettlePlace
  <2>3. CASE /\ rec # NoRecord
             /\ sealed' = [sealed EXCEPT ![q] = rec]
             /\ thread' = [thread EXCEPT ![q] = "open"]
             /\ UNCHANGED <<outcome, cursor>>
    <3>1. t \in Tags
      BY <2>1, ElementOfSeq DEF TypeOK
    <3>2. sealed'[q] \in Record
      BY <2>3, <3>1, GetType DEF TypeOK
    <3> QED BY <1>0, <2>1, <2>3, <3>2 DEF PlaceOK, TypeOK
  <2>4. "vault_miss" \in Refusals /\ "key_unavailable" \in Refusals
    BY DEF Refusals
  <2> QED BY <1>9, <2>2, <2>3, <2>4 DEF Fetch, MissingKey
<1>10. ASSUME Open(q) PROVE PlaceOK(q)'
  <2> DEFINE minted == prov[q][reply[q][cursor[q]]]
             what == IF Confirms(sealed[q], minted) THEN minted ELSE "vault_miss"
  <2>1. cursor[q] \in 1 .. Len(reply[q]) /\ minted # None
    BY <1>0, <1>10 DEF Open, PlaceOK
  <2>2. reply[q][cursor[q]] \in Tags
    BY <2>1, ElementOfSeq DEF TypeOK
  <2>3. what \in Spellings \cup Refusals
    BY <2>1, <2>2 DEF TypeOK, Refusals
  <2>4. Settle(q, what) /\ UNCHANGED <<task, scope, input, reply, prov>>
    BY <1>10 DEF Open, Show
  <2> HIDE DEF what
  <2>5. thread[q] = "open"
    BY <1>10 DEF Open, Show
  <2> QED BY <1>0, <2>1, <2>3, <2>4, <2>5, SettlePlace
<1>11. ASSUME Deliver(q) PROVE PlaceOK(q)'
  BY <1>0, <1>11 DEF PlaceOK, Deliver, Proceed, TypeOK
<1>12. ASSUME Cancel(q) PROVE PlaceOK(q)'
  BY <1>0, <1>12 DEF PlaceOK, Cancel, TypeOK, Running
<1>13. ASSUME NEW n \in Nodes, Crash(n) PROVE PlaceOK(q)'
  <2>1. CASE /\ task'[q] = task[q] /\ thread'[q] = thread[q]
             /\ sealed'[q] = sealed[q]
    BY <1>0, <1>13, <2>1, CrashEffect DEF PlaceOK, Tag
  <2>2. CASE /\ task'[q] = IF task[q] \in Running THEN "lost" ELSE task[q]
             /\ task[q] # "idle" /\ thread'[q] = "none"
    BY <1>0, <1>13, <2>2, CrashEffect DEF PlaceOK, Running
  <2> QED BY <1>13, <2>1, <2>2, CrashEffect
<1> QED BY <1>same, <1>1, <1>2, <1>3, <1>4, <1>5, <1>6, <1>7, <1>8, <1>9, <1>10,
           <1>11, <1>12, <1>13, NextCases, OthersSame, EnvironmentSame
        DEF OwnStep, ThreadStep, ProviderStep

-----------------------------------------------------------------------------
(* What a request may show                                                 *)

(* Only Submit changes what a request is about.                            *)
LEMMA SameText ==
    ASSUME TypeOK, [Next]_vars, NEW q \in Requests, ~Submit(q)
    PROVE  scope'[q] = scope[q] /\ input'[q] = input[q]
<1>1. ASSUME OwnStep(q) PROVE scope'[q] = scope[q] /\ input'[q] = input[q]
  BY <1>1 DEF OwnStep, ThreadStep, ProviderStep, Mint, PrepareFails, Write,
              Prepared, ProviderAnswers, ProviderFails, RefuseForeign, Fetch,
              Open, Deliver, Cancel
<1> QED BY <1>1, NextCases, OthersSame, EnvironmentSame, CrashEffect DEF Same

(* Only Mint changes what a request may restore.                           *)
LEMMA SameProvenance ==
    ASSUME TypeOK, [Next]_vars, NEW q \in Requests, ~Mint(q)
    PROVE  prov'[q] = prov[q]
<1>1. ASSUME OwnStep(q) PROVE prov'[q] = prov[q]
  BY <1>1 DEF OwnStep, ThreadStep, ProviderStep, Submit, PrepareFails, Write,
              Prepared, ProviderAnswers, ProviderFails, RefuseForeign, Fetch,
              Open, Deliver, Cancel
<1> QED BY <1>1, NextCases, OthersSame, EnvironmentSame, CrashEffect DEF Same

(* TokenProvenance keeps naming only spellings of its own request: mint is *)
(* its only writer and the first spelling under a tag stays.               *)
LEMMA ProvenanceStep ==
    TypeOK /\ PlacesOK /\ ProvenanceOK /\ [Next]_vars => ProvenanceOK'
<1> SUFFICES ASSUME TypeOK, PlacesOK, ProvenanceOK, [Next]_vars,
                    NEW q \in Requests, NEW t \in Tags, prov'[q][t] # None
             PROVE  Submitted(q, prov[q][t], t)'
  BY DEF ProvenanceOK
<1>1. CASE Submit(q)
  BY <1>1 DEF Submit, PlacesOK, PlaceOK
<1>2. CASE Mint(q)
  <2> DEFINE s == input[q][cursor[q]]
             u == Tag(scope[q], s)
             first == FirstMinted(prov[q], u, s)
  <2>1. cursor[q] \in 1 .. Len(input[q])
    BY <1>2 DEF Mint, PlacesOK, PlaceOK, TypeOK
  <2>2. cursor[q] \in DOMAIN input[q] /\ s \in Spellings
    BY <2>1, LenProperties, ElementOfSeq DEF TypeOK
  <2>3. u \in Tags
    BY <2>2, TagType DEF TypeOK
  <2>4. Submitted(q, s, u)
    BY <2>2 DEF Submitted
  <2>5. prov'[q] = [prov[q] EXCEPT ![u] = first]
    BY <1>2 DEF Mint, TypeOK
  <2>6. UNCHANGED <<input, scope>>
    BY <1>2 DEF Mint
  <2> HIDE DEF s, u
  <2>7. CASE t = u /\ prov[q][u] = None
    BY <2>3, <2>4, <2>5, <2>6, <2>7 DEF FirstMinted, Submitted, Tag, TypeOK
  <2>8. CASE t # u \/ prov[q][u] # None
    <3>1. prov'[q][t] = prov[q][t]
      BY <2>3, <2>5, <2>8 DEF FirstMinted, TypeOK
    <3>2. Submitted(q, prov[q][t], t)
      BY <3>1 DEF ProvenanceOK
    <3> QED BY <2>6, <3>1, <3>2 DEF Submitted, Tag
  <2> QED BY <2>7, <2>8
<1>3. CASE ~Submit(q) /\ ~Mint(q)
  BY <1>3, SameText, SameProvenance DEF ProvenanceOK, Submitted, Tag
<1> QED BY <1>1, <1>2, <1>3

(* Only an answer and the settling of a match change an outcome.           *)
LEMMA OutcomeCases ==
    ASSUME TypeOK, PlacesOK, [Next]_vars, NEW q \in Requests
    PROVE  \/ outcome'[q] = outcome[q] /\ reply'[q] = reply[q]
           \/ /\ ProviderAnswers(q)
              /\ \A i \in DOMAIN outcome'[q] : outcome'[q][i] = Pending
           \/ /\ reply'[q] = reply[q] /\ DOMAIN outcome'[q] = DOMAIN outcome[q]
              /\ thread[q] \in {"fetch", "open"}
              /\ \A i \in DOMAIN outcome[q] :
                   \/ outcome'[q][i] = outcome[q][i]
                   \/ i = cursor[q] /\ outcome'[q][i] \in {"not_minted", "key_unavailable"}
                   \/ /\ i = cursor[q] /\ outcome'[q][i] = "vault_miss"
                      /\ Fetch(q) /\ BackendGet(scope[q], reply[q][i]) = NoRecord
                   \/ /\ i = cursor[q] /\ Open(q)
                      /\ outcome'[q][i] = IF Confirms(sealed[q], prov[q][reply[q][i]])
                                          THEN prov[q][reply[q][i]] ELSE "vault_miss"
<1>1. ASSUME OwnStep(q), ~ProviderAnswers(q), ~RefuseForeign(q), ~Fetch(q), ~Open(q)
      PROVE  outcome'[q] = outcome[q] /\ reply'[q] = reply[q]
  BY <1>1 DEF OwnStep, ThreadStep, ProviderStep, Submit, Mint, PrepareFails,
              Write, Prepared, ProviderFails, Deliver, Cancel
<1>2. ASSUME ProviderAnswers(q)
      PROVE  \A i \in DOMAIN outcome'[q] : outcome'[q][i] = Pending
  BY <1>2 DEF ProviderAnswers, TypeOK
<1>3. ASSUME NEW what \in Spellings \cup Refusals, Settle(q, what)
      PROVE  /\ DOMAIN outcome'[q] = DOMAIN outcome[q]
             /\ \A i \in DOMAIN outcome[q] :
                  outcome'[q][i] = IF i = cursor[q] THEN what ELSE outcome[q][i]
  BY <1>3, SettleEffect, LenProperties DEF TypeOK
<1>4. CASE RefuseForeign(q)
  BY <1>4, <1>3 DEF RefuseForeign, Refusals
<1>5. CASE Fetch(q)
  <2>1. reply'[q] = reply[q] /\ thread[q] = "fetch"
    BY <1>5 DEF Fetch
  <2>2. CASE Settle(q, "vault_miss") /\ BackendGet(scope[q], reply[q][cursor[q]]) = NoRecord
    BY <1>5, <1>3, <2>1, <2>2 DEF Refusals
  <2>3. CASE Settle(q, "key_unavailable")
    BY <1>5, <1>3, <2>1, <2>3 DEF Refusals
  <2>4. CASE UNCHANGED outcome
    BY <2>1, <2>4
  <2> QED BY <1>5, <2>2, <2>3, <2>4 DEF Fetch, MissingKey
<1>6. CASE Open(q)
  <2> DEFINE minted == prov[q][reply[q][cursor[q]]]
             what == IF Confirms(sealed[q], minted) THEN minted ELSE "vault_miss"
  <2>1. cursor[q] \in 1 .. Len(reply[q]) /\ minted # None
    BY <1>6 DEF Open, PlacesOK, PlaceOK
  <2>2. reply[q][cursor[q]] \in Tags
    BY <2>1, ElementOfSeq DEF TypeOK
  <2>3. what \in Spellings \cup Refusals
    BY <2>1, <2>2 DEF TypeOK, Refusals
  <2>4. Settle(q, what) /\ reply'[q] = reply[q] /\ thread[q] = "open"
    BY <1>6 DEF Open, Show
  <2>5. \A i \in DOMAIN outcome[q] :
           outcome'[q][i] = IF i = cursor[q] THEN what ELSE outcome[q][i]
    BY <1>3, <2>3, <2>4
  <2> QED BY <1>6, <1>3, <2>3, <2>4, <2>5
<1> QED BY <1>1, <1>2, <1>4, <1>5, <1>6, NextCases, OthersSame, EnvironmentSame,
           CrashEffect DEF Same

(* restore settles a match with a spelling only from its own provenance,   *)
(* so a shown spelling stays one that the request submitted.               *)
LEMMA OwnSpellingStep ==
    TypeOK /\ PlacesOK /\ ProvenanceOK /\ OwnSpellingOnly /\ [Next]_vars
      => OwnSpellingOnly'
<1> SUFFICES ASSUME TypeOK, PlacesOK, ProvenanceOK, OwnSpellingOnly, [Next]_vars,
                    NEW q \in Requests, NEW i \in DOMAIN outcome'[q],
                    outcome'[q][i] \in Spellings
             PROVE  Submitted(q, outcome[q][i], reply[q][i])'
  BY DEF OwnSpellingOnly, Restored
<1>1. CASE Submit(q)
  <2>1. outcome'[q] = <<>>
    BY <1>1 DEF Submit, PlacesOK, PlaceOK
  <2> QED BY <2>1
<1>2. CASE ~Submit(q)
  <2>1. scope'[q] = scope[q] /\ input'[q] = input[q]
    BY <1>2, SameText
  <2>2. SUFFICES Submitted(q, outcome'[q][i], reply'[q][i])
    BY <2>1 DEF Submitted, Tag
  <2>3. CASE i \in DOMAIN outcome[q] /\ outcome'[q][i] = outcome[q][i] /\ reply'[q] = reply[q]
    BY <2>3 DEF OwnSpellingOnly, Restored
  <2>4. CASE outcome'[q][i] \in Refusals \cup {Pending}
    BY <2>4, OutcomeAssumption
  <2>5. CASE /\ i = cursor[q] /\ Open(q) /\ reply'[q] = reply[q]
             /\ outcome'[q][i] = prov[q][reply[q][i]]
    <3>1. /\ cursor[q] \in 1 .. Len(reply[q])
          /\ prov[q][reply[q][cursor[q]]] # None
      BY <2>5 DEF Open, PlacesOK, PlaceOK
    <3>2. reply[q][cursor[q]] \in Tags
      BY <3>1, ElementOfSeq DEF TypeOK
    <3> QED BY <2>5, <3>1, <3>2 DEF ProvenanceOK
  <2> QED BY <2>3, <2>4, <2>5, OutcomeCases DEF Refusals
<1> QED BY <1>1, <1>2

(* restore decides matches from the last to the first and skips none, so   *)
(* nothing is undecided when the answer is delivered.                      *)
LEMMA ProgressStep ==
    TypeOK /\ PlacesOK /\ ProgressOK /\ [Next]_vars => ProgressOK'
<1> SUFFICES ASSUME TypeOK, PlacesOK, ProgressOK, [Next]_vars,
                    NEW q \in Requests
             PROVE  Decided(q)'
  BY DEF ProgressOK
<1>0. Decided(q) /\ PlaceOK(q)
  BY DEF ProgressOK, PlacesOK
<1>1. ASSUME Same(q) PROVE Decided(q)'
  BY <1>0, <1>1 DEF Same, Decided
<1>2. CASE Submit(q) \/ Mint(q) \/ PrepareFails(q) \/ Write(q) \/ Prepared(q)
  BY <1>0, <1>2 DEF Submit, Mint, PrepareFails, Write, Prepared, Decided, PlaceOK,
                    TypeOK
<1>3. CASE ProviderAnswers(q)
  <2>1. PICK rep \in Replies :
          /\ cursor'[q] = Len(rep)
          /\ outcome'[q] = [i \in 1 .. Len(rep) |-> Pending]
    BY <1>3 DEF ProviderAnswers, TypeOK
  <2>2. task'[q] = "restoring"
    BY <1>3 DEF ProviderAnswers, TypeOK
  <2> QED BY <2>1, <2>2 DEF Decided
<1>4. CASE ProviderFails(q) \/ Cancel(q)
  BY <1>0, <1>4 DEF ProviderFails, Cancel, Decided, TypeOK
<1>5. ASSUME NEW what \in Spellings \cup Refusals, Settle(q, what),
             thread[q] \in {"fetch", "open"}, task' = task
      PROVE  Decided(q)'
  <2>1. /\ DOMAIN outcome'[q] = DOMAIN outcome[q]
        /\ DOMAIN outcome[q] = 1 .. Len(outcome[q]) /\ Len(outcome[q]) \in Nat
        /\ \A i \in DOMAIN outcome[q] :
              outcome'[q][i] = IF i = cursor[q] THEN what ELSE outcome[q][i]
    BY <1>5, SettleEffect, LenProperties DEF TypeOK
  <2>2. what # Pending
    BY OutcomeAssumption DEF Refusals, Pending
  <2>3. cursor'[q] = cursor[q] - 1 /\ cursor[q] \in Nat
    BY <1>5, SettleEffect DEF TypeOK
  <2>4. \A i \in DOMAIN outcome'[q] : outcome'[q][i] = Pending => i <= cursor'[q]
    BY <1>0, <1>5, <2>1, <2>2, <2>3 DEF Decided
  <2>5. task[q] = "answered" => \A i \in DOMAIN outcome'[q] : outcome'[q][i] # Pending
    BY <1>0, <2>1, <2>2 DEF Decided
  <2> QED BY <1>5, <2>4, <2>5 DEF Decided
<1>6. CASE RefuseForeign(q)
  BY <1>5, <1>6 DEF RefuseForeign, Refusals
<1>7. CASE Fetch(q)
  <2>1. CASE UNCHANGED <<outcome, cursor>> /\ thread[q] = "fetch" /\ task' = task
    BY <1>0, <2>1 DEF Decided
  <2> QED BY <1>5, <1>7, <2>1 DEF Fetch, MissingKey, Refusals
<1>8. CASE Open(q)
  <2> DEFINE minted == prov[q][reply[q][cursor[q]]]
             what == IF Confirms(sealed[q], minted) THEN minted ELSE "vault_miss"
  <2>1. cursor[q] \in 1 .. Len(reply[q]) /\ minted # None
    BY <1>0, <1>8 DEF Open, PlaceOK
  <2>2. reply[q][cursor[q]] \in Tags
    BY <2>1, ElementOfSeq DEF TypeOK
  <2>3. what \in Spellings \cup Refusals
    BY <2>1, <2>2 DEF TypeOK, Refusals
  <2>4. Settle(q, what) /\ thread[q] = "open" /\ task' = task
    BY <1>8 DEF Open, Show
  <2> HIDE DEF what
  <2> QED BY <1>5, <2>3, <2>4
<1>9. CASE Deliver(q)
  <2>1. task'[q] = "answered" => cursor[q] = 0
    BY <1>0, <1>9 DEF Deliver, Proceed, PlaceOK, TypeOK
  <2>2. cursor[q] = 0 => \A i \in DOMAIN outcome[q] : outcome[q][i] # Pending
    BY <1>0, <1>9, LenProperties DEF Deliver, Decided, TypeOK
  <2> QED BY <1>0, <1>9, <2>1, <2>2 DEF Deliver, Decided, TypeOK
<1>10. ASSUME NEW n \in Nodes, Crash(n) PROVE Decided(q)'
  BY <1>0, <1>10, CrashEffect DEF Decided
<1> QED BY <1>1, <1>2, <1>3, <1>4, <1>6, <1>7, <1>8, <1>9, <1>10, NextCases,
           OthersSame, EnvironmentSame DEF OwnStep, ThreadStep, ProviderStep

-----------------------------------------------------------------------------
(* What the vault owes                                                     *)

(* Steps that are not a write, an erasure or a crash leave what is owed.   *)
LEMMA OwedSame ==
    ASSUME [Next]_vars, \A r \in Requests : ~Write(r),
           \A sc \in Scope : ~Delete(sc), \A n \in Nodes : ~Crash(n)
    PROVE  owed' = owed
BY NextCases DEF OwnStep, ThreadStep, ProviderStep, Submit, Mint, PrepareFails,
     Prepared, ProviderAnswers, ProviderFails, RefuseForeign, Fetch, Open, Deliver,
     Cancel, Passing, vars, history

(* time.time() never runs backwards in the model.                          *)
LEMMA ClockAdvances ==
    ASSUME TypeOK, [Next]_vars
    PROVE  clock \in Nat /\ clock' \in Nat /\ clock' >= clock
<1>1. clock \in Nat
  BY VaultAssumption DEF TypeOK, VaultTypeOK
<1>2. ASSUME NEW r \in Requests, OwnStep(r) PROVE clock' = clock
  BY <1>2 DEF OwnStep, ThreadStep, ProviderStep, Submit, Mint, PrepareFails,
              Write, Prepared, ProviderAnswers, ProviderFails, RefuseForeign,
              Fetch, Open, Deliver, Cancel, vaultVars
<1>3. CASE Passing \/ (\E sc \in Scope : Delete(sc)) \/ UNCHANGED vars
  BY <1>1, <1>3 DEF Passing, Tick, Sweep, Delete, vars, vaultVars
<1>4. ASSUME NEW n \in Nodes, Crash(n) PROVE clock' = clock
  BY <1>4 DEF Crash
<1> QED BY <1>1, <1>2, <1>3, <1>4, NextCases

(* What a write makes the vault owe each request.                          *)
Written(r) == Tag(scope[r], sealed[r].value)

Debt(r, q, t) ==
    IF scope[q] # scope[r] \/ t # Written(r) THEN owed[q][t]
    ELSE IF q = r /\ owed[q][t] = 0 THEN sealed[r].expires
    ELSE IF /\ q # r /\ prov[q][t] # None
            /\ Canon[prov[q][t]] # Canon[sealed[r].value] THEN 0
    ELSE MinOf(owed[q][t], sealed[r].expires)

(* What the vault owes under each tag after SurrogateVault.put.            *)
LEMMA WriteOwed ==
    ASSUME TypeOK, PlacesOK, NEW r \in Requests, Write(r)
    PROVE  /\ Written(r) \in Tags /\ sealed[r] \in Record
           /\ sealed[r].expires \in Nat /\ sealed[r].value \in Spellings
           /\ backend' = [backend EXCEPT ![scope[r]][Written(r)] = sealed[r]]
           /\ prov[r][Written(r)] = sealed[r].value
           /\ \A q \in Requests, t \in Tags : owed'[q][t] = Debt(r, q, t)
<1>1. /\ sealed[r] \in Record /\ sealed[r].expires \in Nat
      /\ sealed[r].value \in Spellings /\ prov[r][Written(r)] = sealed[r].value
  BY DEF Write, PlacesOK, PlaceOK, Record, Written
<1>2. Written(r) \in Tags
  BY <1>1, TagType DEF TypeOK, Written
<1>3. /\ backend' = [backend EXCEPT ![scope[r]][Written(r)] = sealed[r]]
      /\ owed' = OwedAfterPut(r, Written(r))
  BY DEF Write, BackendPut, Written
<1>4. ASSUME NEW q \in Requests, NEW t \in Tags
      PROVE  OwedAfterPut(r, Written(r))[q][t] = Debt(r, q, t)
  BY <1>2 DEF OwedAfterPut, Debt, TypeOK
<1> QED BY <1>1, <1>2, <1>3, <1>4

(* Only its own writes raise what a request is owed.                       *)
LEMMA OwedFalls ==
    ASSUME TypeOK, PlacesOK, [Next]_vars, NEW q \in Requests, NEW t \in Tags,
           thread[q] # "put"
    PROVE  owed'[q][t] \in Nat /\ owed'[q][t] <= owed[q][t]
<1>0. owed[q][t] \in Nat
  BY DEF TypeOK
<1>1. ASSUME NEW r \in Requests, Write(r)
      PROVE owed'[q][t] \in Nat /\ owed'[q][t] <= owed[q][t]
  <2>1. q # r
    BY <1>1 DEF Write
  <2>2. /\ sealed[r].expires \in Nat
        /\ owed'[q][t] \in {owed[q][t], 0, MinOf(owed[q][t], sealed[r].expires)}
    <3>1. sealed[r].expires \in Nat /\ owed'[q][t] = Debt(r, q, t)
      BY <1>1, WriteOwed
    <3> QED BY <2>1, <3>1 DEF Debt
  <2> QED BY <1>0, <2>2 DEF MinOf
<1>2. ASSUME NEW sc \in Scope, Delete(sc)
      PROVE owed'[q][t] \in Nat /\ owed'[q][t] <= owed[q][t]
  BY <1>0, <1>2 DEF Delete
<1>3. ASSUME NEW n \in Nodes, Crash(n)
      PROVE owed'[q][t] \in Nat /\ owed'[q][t] <= owed[q][t]
  <2>1. owed' = owed \/ owed' = [r \in Requests |-> [v \in Tags |-> 0]]
    BY <1>3 DEF Crash
  <2> QED BY <1>0, <2>1
<1> QED BY <1>0, <1>1, <1>2, <1>3, OwedSame

(* A debt that a step does not touch stays covered if the record does.     *)
LEMMA OwedKept ==
    ASSUME TypeOK, PlacesOK, OwedOK, [Next]_vars,
           NEW q \in Requests, NEW t \in Tags, owed'[q][t] = owed[q][t],
           owed[q][t] > clock => backend'[scope[q]][t] = backend[scope[q]][t]
    PROVE  OwedAt(q, t)'
<1>1. clock \in Nat /\ clock' \in Nat /\ clock' >= clock /\ owed[q][t] \in Nat
  BY ClockAdvances DEF TypeOK
<1>2. CASE owed[q][t] = 0
  BY <1>1, <1>2 DEF OwedAt
<1>3. CASE owed[q][t] # 0
  <2>1. OwedAt(q, t) /\ prov[q][t] # None
    BY <1>3 DEF OwedOK, OwedAt
  <2>2. prov'[q][t] = prov[q][t]
    <3>1. CASE Mint(q)
      BY <2>1, <3>1 DEF Mint, FirstMinted, TypeOK
    <3> QED BY <3>1, SameProvenance
  <2>3. scope'[q] = scope[q]
    BY <2>1, SameText DEF Submit, PlacesOK, PlaceOK
  <2> QED BY <1>1, <2>1, <2>2, <2>3 DEF OwedAt
<1> QED BY <1>2, <1>3

(* The match a restoring thread looks at names a tag.                      *)
LEMMA MatchTag ==
    ASSUME TypeOK, PlacesOK, NEW r \in Requests,
           thread[r] \in {"fetch", "open"}, cursor[r] > 0
    PROVE  cursor[r] \in 1 .. Len(reply[r]) /\ reply[r][cursor[r]] \in Tags
<1>1. reply[r] \in Seq(Tags) /\ Len(reply[r]) \in Nat /\ cursor[r] \in Nat
  BY LenProperties DEF TypeOK
<1>2. cursor[r] \in 1 .. Len(reply[r])
  BY <1>1 DEF PlacesOK, PlaceOK
<1> QED BY <1>1, <1>2, ElementOfSeq

(* put, get, purge_expired, delete_conversation and a restart never remove *)
(* or displace a record that is still owed to someone.                     *)
LEMMA OwedAtStep ==
    ASSUME TypeOK, TypeOK', PlacesOK, OwedOK, [Next]_vars,
           NEW q \in Requests, NEW t \in Tags
    PROVE  OwedAt(q, t)'
<1>0. /\ clock \in Nat /\ clock' \in Nat /\ clock' >= clock
      /\ owed[q][t] \in Nat /\ scope[q] \in Scope
      /\ backend[scope[q]][t] \in Record \cup {NoRecord}
      /\ OwedAt(q, t)
  BY ClockAdvances DEF TypeOK, VaultTypeOK, OwedOK
<1>1. ASSUME NEW r \in Requests, Write(r) PROVE OwedAt(q, t)'
  <2> DEFINE u == Written(r)
  <2>1. /\ u \in Tags /\ sealed[r] \in Record /\ sealed[r].expires \in Nat
        /\ backend' = [backend EXCEPT ![scope[r]][u] = sealed[r]]
        /\ prov[r][u] = sealed[r].value
        /\ scope[r] \in Scope
    BY <1>1, WriteOwed DEF TypeOK
  <2>2. owed'[q][t] =
           IF scope[q] # scope[r] \/ t # u THEN owed[q][t]
           ELSE IF q = r /\ owed[q][t] = 0 THEN sealed[r].expires
           ELSE IF /\ q # r /\ prov[q][t] # None
                   /\ Canon[prov[q][t]] # Canon[sealed[r].value] THEN 0
           ELSE MinOf(owed[q][t], sealed[r].expires)
    <3>1. owed'[q][t] = Debt(r, q, t)
      BY <1>1, WriteOwed
    <3> QED BY <3>1 DEF Debt
  <2>3. UNCHANGED <<clock, scope, prov>>
    BY <1>1 DEF Write
  <2>4. prov[r][u] # None
    BY <2>1, PipelineAssumption DEF Record
  <2> HIDE DEF u
  <2>5. CASE scope[q] # scope[r] \/ t # u
    <3>1. backend'[scope[q]][t] = backend[scope[q]][t]
      BY <1>0, <2>1, <2>5 DEF TypeOK, VaultTypeOK
    <3> QED BY <2>2, <2>5, <3>1, OwedKept
  <2>6. CASE scope[q] = scope[r] /\ t = u
    <3>1. backend'[scope[q]][t] = sealed[r]
      BY <1>0, <2>1, <2>6 DEF TypeOK, VaultTypeOK
    <3>2. CASE q = r
      <4>1. owed'[q][t] <= sealed[r].expires
        BY <1>0, <2>1, <2>2, <2>6, <3>2 DEF MinOf
      <4> QED BY <2>1, <2>3, <2>4, <2>6, <3>1, <3>2, <4>1 DEF OwedAt
    <3>3. CASE q # r /\ prov[q][t] # None /\ Canon[prov[q][t]] # Canon[sealed[r].value]
      <4>1. owed'[q][t] = 0
        BY <2>2, <2>6, <3>3
      <4> QED BY <1>0, <4>1 DEF OwedAt
    <3>4. CASE q # r /\ prov[q][t] # None /\ Canon[prov[q][t]] = Canon[sealed[r].value]
      <4>1. owed'[q][t] = MinOf(owed[q][t], sealed[r].expires)
        BY <2>2, <2>6, <3>4
      <4>2. owed'[q][t] <= sealed[r].expires
        BY <1>0, <2>1, <4>1 DEF MinOf
      <4> QED BY <2>1, <2>3, <3>1, <3>4, <4>2 DEF OwedAt
    <3>5. CASE q # r /\ prov[q][t] = None
      <4>1. owed[q][t] = 0
        BY <1>0, <3>5 DEF OwedAt
      <4>2. owed'[q][t] = 0
        BY <2>1, <2>2, <2>6, <3>5, <4>1 DEF MinOf
      <4> QED BY <1>0, <4>2 DEF OwedAt
    <3> QED BY <3>2, <3>3, <3>4, <3>5
  <2> QED BY <2>5, <2>6
<1>2. ASSUME NEW sc \in Scope, Delete(sc) PROVE OwedAt(q, t)'
  <2>1. CASE sc = scope[q]
    <3>1. owed'[q][t] = 0
      BY <1>2, <2>1 DEF Delete
    <3> QED BY <1>0, <3>1 DEF OwedAt
  <2>2. CASE sc # scope[q]
    <3>1. owed'[q][t] = owed[q][t] /\ backend'[scope[q]][t] = backend[scope[q]][t]
      BY <1>0, <1>2, <2>2 DEF Delete, DeletePrefix, TypeOK
    <3> QED BY <3>1, OwedKept
  <2> QED BY <2>1, <2>2
<1>3. ASSUME NEW n \in Nodes, Crash(n) PROVE OwedAt(q, t)'
  <2>1. CASE owed' = [r \in Requests |-> [v \in Tags |-> 0]]
    <3>1. owed'[q][t] = 0
      BY <2>1
    <3> QED BY <1>0, <3>1 DEF OwedAt
  <2>2. CASE UNCHANGED <<backend, owed>>
    BY <2>2, OwedKept
  <2> QED BY <1>3, <2>1, <2>2 DEF Crash
<1>4. CASE /\ \A r \in Requests : ~Write(r)
           /\ \A sc \in Scope : ~Delete(sc)
           /\ \A n \in Nodes : ~Crash(n)
  <2>1. owed' = owed
    BY <1>4, OwedSame
  <2>2. ASSUME owed[q][t] > clock
        PROVE  BackendGet(scope[q], t) = backend[scope[q]][t]
    BY <1>0, <2>2, GetType DEF OwedAt, Record, TypeOK
  <2>3. CASE backend' = backend
    BY <2>1, <2>3, OwedKept
  <2>4. ASSUME NEW r \in Requests, NEW u \in Tags, ExpireOnRead(scope[r], u)
        PROVE  OwedAt(q, t)'
    <3>1. owed[q][t] > clock => backend'[scope[q]][t] = backend[scope[q]][t]
      BY <1>0, <2>2, <2>4 DEF ExpireOnRead, TypeOK, VaultTypeOK
    <3> QED BY <2>1, <3>1, OwedKept
  <2>5. CASE Sweep
    <3>1. backend'[scope[q]][t] = Purged(backend[scope[q]][t])
      BY <1>0, <2>5 DEF Sweep
    <3>2. owed[q][t] > clock => backend'[scope[q]][t] = backend[scope[q]][t]
      BY <1>0, <3>1 DEF Purged, IsExpired, OwedAt, Record
    <3> QED BY <2>1, <3>2, OwedKept
  <2>6. ASSUME NEW r \in Requests, Fetch(r)
        PROVE  ExpireOnRead(scope[r], reply[r][cursor[r]]) /\ reply[r][cursor[r]] \in Tags
    BY <2>6, MatchTag DEF Fetch
  <2>7. \/ backend' = backend \/ Sweep \/ \E r \in Requests : Fetch(r)
    BY <1>4, NextCases
       DEF OwnStep, ThreadStep, ProviderStep, Submit, Mint, PrepareFails, Prepared,
           ProviderAnswers, ProviderFails, RefuseForeign, Open, Deliver, Cancel,
           Passing, Tick, vars, vaultVars
  <2> QED BY <2>3, <2>4, <2>5, <2>6, <2>7
<1> QED BY <1>1, <1>2, <1>3, <1>4

(* A record in hand stays as good as the debt it covers.                   *)
LEMMA OwedInHandStep ==
    ASSUME TypeOK, TypeOK', PlacesOK, OwedOK, [Next]_vars, NEW q \in Requests
    PROVE  OwedInHand(q)'
<1> DEFINE t == reply[q][cursor[q]]
<1> SUFFICES ASSUME thread'[q] = "open" PROVE OwedInHand(q)'
  BY DEF OwedInHand
<1>1. CASE thread[q] = "open" /\ Same(q)
  <2>1. t \in Tags
    BY <1>1, ElementOfSeq DEF PlacesOK, PlaceOK, TypeOK
  <2>2. owed'[q][t] \in Nat /\ owed'[q][t] <= owed[q][t] /\ owed[q][t] \in Nat
    BY <1>1, <2>1, OwedFalls DEF TypeOK
  <2>3. clock \in Nat /\ clock' \in Nat /\ clock' >= clock
    BY ClockAdvances
  <2>4. sealed[q].expires \in Nat /\ OwedInHand(q)
    BY <1>1 DEF PlacesOK, PlaceOK, Record, OwedOK
  <2>5. /\ reply'[q] = reply[q] /\ cursor'[q] = cursor[q]
        /\ sealed'[q] = sealed[q] /\ prov'[q] = prov[q]
    BY <1>1 DEF Same
  <2> HIDE DEF t
  <2>6. owed'[q][t] > clock' => /\ sealed[q].expires >= owed'[q][t]
                               /\ Canon[sealed[q].value] = Canon[prov[q][t]]
    BY <1>1, <2>2, <2>3, <2>4 DEF OwedInHand, t
  <2> QED BY <2>5, <2>6 DEF OwedInHand, t
<1>2. CASE Fetch(q)
  <2>1. t \in Tags
    BY <1>2, MatchTag DEF Fetch
  <2>2. /\ BackendGet(scope[q], t) # NoRecord
        /\ sealed'[q] = BackendGet(scope[q], t)
        /\ UNCHANGED <<clock, reply, cursor, prov, owed>>
    BY <1>2 DEF Fetch, Settle, TypeOK, history
  <2>3. sealed'[q] = backend[scope[q]][t]
    BY <2>1, <2>2, GetType DEF TypeOK
  <2>4. OwedAt(q, t)
    BY <2>1 DEF OwedOK
  <2> QED BY <2>2, <2>3, <2>4 DEF OwedInHand, OwedAt
<1>3. ASSUME OwnStep(q), ~Fetch(q) PROVE Cancel(q)
  <2>1. CASE Submit(q) \/ Mint(q) \/ PrepareFails(q) \/ Write(q) \/ Prepared(q)
    BY <2>1 DEF Submit, Mint, PrepareFails, Write, Prepared, TypeOK
  <2>2. CASE ProviderAnswers(q) \/ Deliver(q)
    BY <2>2 DEF ProviderAnswers, Deliver, TypeOK
  <2>3. CASE ProviderFails(q)
    BY <2>3 DEF ProviderFails, PlacesOK, PlaceOK
  <2>4. CASE RefuseForeign(q) \/ Open(q)
    BY <2>4 DEF RefuseForeign, Open, Settle, TypeOK
  <2> QED BY <1>3, <2>1, <2>2, <2>3, <2>4 DEF OwnStep, ThreadStep, ProviderStep
<1>4. CASE Cancel(q)
  <2>1. thread[q] = "open" /\ cursor[q] > 0
    BY <1>4, LenProperties DEF Cancel, PlacesOK, PlaceOK, TypeOK
  <2>2. UNCHANGED <<clock, reply, cursor, prov, owed, sealed, thread>> /\ OwedInHand(q)
    BY <1>4 DEF Cancel, OwedOK, vaultVars, history
  <2> QED BY <2>2 DEF OwedInHand
<1>5. ASSUME NEW n \in Nodes, Crash(n) PROVE thread[q] = "open" /\ Same(q)
  BY <1>5, CrashEffect DEF Same
<1>6. CASE Same(q)
  BY <1>1, <1>6 DEF Same
<1> QED BY <1>1, <1>2, <1>3, <1>4, <1>5, <1>6, NextCases, OthersSame, EnvironmentSame

(* No step breaks a debt: each is covered, in the backend or in hand.      *)
LEMMA OwedStep ==
    TypeOK /\ TypeOK' /\ PlacesOK /\ OwedOK /\ [Next]_vars => OwedOK'
BY OwedAtStep, OwedInHandStep DEF OwedOK

(* A miss is recorded only when nothing is owed.                           *)
LEMMA MissesStep ==
    TypeOK /\ TypeOK' /\ PlacesOK /\ OwedOK /\ MissesAreDue /\ [Next]_vars
      => MissesAreDue'
<1> SUFFICES ASSUME TypeOK, TypeOK', PlacesOK, OwedOK, MissesAreDue, [Next]_vars,
                    NEW q \in Requests, NEW i \in DOMAIN outcome'[q],
                    outcome'[q][i] = "vault_miss"
             PROVE  clock' >= owed'[q][reply'[q][i]]
  BY DEF MissesAreDue
<1> DEFINE t == reply[q][i]
<1>0. clock \in Nat /\ clock' \in Nat /\ clock' >= clock
  BY ClockAdvances
<1>1. SUFFICES ASSUME reply'[q] = reply[q], i \in DOMAIN outcome[q], clock >= owed[q][t],
                      t \in Tags, thread[q] # "put"
               PROVE  clock' >= owed'[q][t]
  <2>1. CASE ProviderAnswers(q) /\ outcome'[q][i] = Pending
    BY <2>1 DEF Pending
  <2>2. ASSUME DOMAIN outcome'[q] = DOMAIN outcome[q], reply'[q] = reply[q]
        PROVE  t \in Tags /\ i \in DOMAIN outcome[q] /\ thread[q] # "put"
    <3>1. outcome[q] # <<>> /\ Len(outcome[q]) = Len(reply[q])
      BY <2>2 DEF PlacesOK, PlaceOK
    <3>2. i \in 1 .. Len(reply[q])
      BY <2>2, <3>1, LenProperties DEF TypeOK
    <3>3. t \in Tags
      BY <3>2, ElementOfSeq DEF TypeOK
    <3> QED BY <2>2, <3>1, <3>3 DEF PlacesOK, PlaceOK
  <2>3. CASE outcome'[q][i] = outcome[q][i] /\ DOMAIN outcome'[q] = DOMAIN outcome[q]
             /\ reply'[q] = reply[q]
    BY <1>1, <2>2, <2>3 DEF MissesAreDue
  <2>4. CASE /\ DOMAIN outcome'[q] = DOMAIN outcome[q] /\ reply'[q] = reply[q]
             /\ Fetch(q) /\ i = cursor[q] /\ BackendGet(scope[q], t) = NoRecord
    <3>1. t \in Tags /\ scope[q] \in Scope /\ owed[q][t] \in Nat
      BY <2>2, <2>4 DEF TypeOK
    <3>2. backend[scope[q]][t] = NoRecord \/ clock >= backend[scope[q]][t].expires
      BY <2>4, <3>1, GetType DEF TypeOK
    <3>3. OwedAt(q, t)
      BY <3>1 DEF OwedOK
    <3>4. clock >= owed[q][t]
      BY <1>0, <3>1, <3>2, <3>3, NoRecordAssumption DEF OwedAt, Record
    <3> QED BY <1>1, <2>2, <2>4, <3>4
  <2>5. CASE /\ DOMAIN outcome'[q] = DOMAIN outcome[q] /\ reply'[q] = reply[q]
             /\ Open(q) /\ i = cursor[q]
             /\ outcome'[q][i] = IF Confirms(sealed[q], prov[q][t])
                                 THEN prov[q][t] ELSE "vault_miss"
    <3>1. t \in Tags /\ owed[q][t] \in Nat
      BY <2>2, <2>5 DEF TypeOK
    <3>2. thread[q] = "open" /\ prov[q][t] # None /\ sealed[q].expires \in Nat
      BY <2>5 DEF Open, PlacesOK, PlaceOK, Record
    <3>3. prov[q][t] \in Spellings
      BY <3>1, <3>2 DEF TypeOK
    <3>4. ~Confirms(sealed[q], prov[q][t])
      BY <2>5, <3>3, OutcomeAssumption DEF Refusals
    <3>5. OwedInHand(q)
      BY DEF OwedOK
    <3>6. clock >= owed[q][t]
      BY <1>0, <2>5, <3>1, <3>2, <3>4, <3>5 DEF OwedInHand, Confirms, IsExpired
    <3> QED BY <1>1, <2>2, <2>5, <3>6
  <2> QED BY <2>1, <2>3, <2>4, <2>5, OutcomeCases
<1>2. owed'[q][t] \in Nat /\ owed'[q][t] <= owed[q][t] /\ owed[q][t] \in Nat
  BY <1>1, OwedFalls DEF TypeOK
<1> HIDE DEF t
<1> QED BY <1>0, <1>1, <1>2

-----------------------------------------------------------------------------
(* What a thread has in hand                                               *)

(* A record in hand that a step does not overtake stays one that the vault *)
(* has, or expires: what a read or a sweep removes has expired.            *)
LEMMA HandKept ==
    ASSUME TypeOK, PlacesOK, NEW q \in Requests, InHand(q), [Next]_vars,
           Same(q), overtaken'[q] = overtaken[q],
           NEW rec, rec = backend[scope[q]][reply[q][cursor[q]]],
           \/ backend'[scope[q]][reply[q][cursor[q]]] = rec
           \/ rec = NoRecord
           \/ clock >= rec.expires
    PROVE  InHand(q)'
<1>1. clock \in Nat /\ clock' \in Nat /\ clock' >= clock
  BY ClockAdvances
<1>2. thread[q] = "open" => sealed[q] \in Record /\ sealed[q].expires \in Nat
  BY DEF PlacesOK, PlaceOK, Record
<1> QED BY <1>1, <1>2, NoRecordAssumption DEF InHand, Same

(* A step of another request: only its write can overtake.                 *)
LEMMA HandsOfOthers ==
    ASSUME TypeOK, PlacesOK, NEW q \in Requests, InHand(q), [Next]_vars,
           NEW r \in Requests, r # q, OwnStep(r)
    PROVE  InHand(q)'
<1> DEFINE t == reply[q][cursor[q]]
<1>1. Same(q)
  BY OthersSame
<1>2. scope[q] \in Scope /\ (thread[q] = "open" => t \in Tags)
  BY LenProperties, MatchTag DEF TypeOK, PlacesOK, PlaceOK
<1>3. CASE Write(r)
  <2>1. overtaken'[q] = \/ overtaken[q]
                        \/ /\ thread[q] = "open" /\ scope[q] = scope[r]
                           /\ t = Written(r)
    BY <1>3 DEF Write, OvertakenIn, Written
  <2>2. CASE thread[q] = "open" /\ ~overtaken'[q]
    <3>1. backend' = [backend EXCEPT ![scope[r]][Written(r)] = sealed[r]]
      BY <1>3, WriteOwed
    <3>2. backend'[scope[q]][t] = backend[scope[q]][t]
      BY <1>2, <2>1, <2>2, <3>1 DEF TypeOK, VaultTypeOK
    <3>3. overtaken'[q] = overtaken[q]
      BY <2>1, <2>2 DEF TypeOK
    <3> HIDE DEF t
    <3> QED BY <1>1, <3>2, <3>3, HandKept DEF t
  <2>3. CASE ~(thread[q] = "open" /\ ~overtaken'[q])
    BY <1>1, <2>1, <2>3 DEF InHand, Same
  <2> QED BY <2>2, <2>3
<1>4. CASE ~Write(r)
  <2>1. overtaken'[q] = overtaken[q]
    BY <1>4 DEF OwnStep, ThreadStep, ProviderStep, Submit, Mint, PrepareFails, Prepared,
                ProviderAnswers, ProviderFails, RefuseForeign, Fetch, Open, Deliver,
                Cancel, history, TypeOK
  <2>2. CASE ~Fetch(r)
    <3>1. backend' = backend
      BY <1>4, <2>2 DEF OwnStep, ThreadStep, ProviderStep, Submit, Mint, PrepareFails,
              Prepared, ProviderAnswers, ProviderFails, RefuseForeign, Open, Deliver,
              Cancel, vaultVars
    <3> QED BY <1>1, <2>1, <3>1, HandKept
  <2>3. CASE Fetch(r)
    <3>1. PICK u \in Tags : ExpireOnRead(scope[r], u)
      BY <2>3, MatchTag DEF Fetch
    <3>2. CASE thread[q] # "open"
      BY <1>1, <2>1, <3>2 DEF InHand, Same
    <3>3. CASE thread[q] = "open"
      <4>1. \/ backend'[scope[q]][t] = backend[scope[q]][t]
            \/ backend'[scope[q]][t] = BackendGet(scope[q], t)
        BY <1>2, <3>1, <3>3 DEF ExpireOnRead, TypeOK, VaultTypeOK
      <4>2. \/ backend'[scope[q]][t] = backend[scope[q]][t]
            \/ backend[scope[q]][t] = NoRecord
            \/ clock >= backend[scope[q]][t].expires
        BY <1>2, <3>3, <4>1, GetType DEF TypeOK
      <4> QED BY <1>1, <2>1, <4>2, HandKept
    <3> QED BY <3>2, <3>3
  <2> QED BY <2>2, <2>3
<1> QED BY <1>3, <1>4

(* A step of the request itself takes a record in hand or lets it go.      *)
LEMMA HandsOfOwn ==
    ASSUME TypeOK, PlacesOK, NEW q \in Requests, InHand(q), [Next]_vars, OwnStep(q)
    PROVE  InHand(q)'
<1> DEFINE t == reply[q][cursor[q]]
<1>1. CASE Fetch(q)
  <2>1. /\ t \in Tags /\ scope[q] \in Scope /\ ~overtaken[q] /\ overtaken' = overtaken
        /\ UNCHANGED <<clock, scope, reply>>
    BY <1>1, MatchTag DEF Fetch, InHand, TypeOK, history
  <2>2. CASE Settle(q, "vault_miss") \/ Settle(q, "key_unavailable")
    BY <2>1, <2>2 DEF Settle, InHand, TypeOK
  <2>3. CASE /\ BackendGet(scope[q], t) # NoRecord
             /\ sealed' = [sealed EXCEPT ![q] = BackendGet(scope[q], t)]
             /\ cursor' = cursor
    <3>1. backend'[scope[q]][t] = BackendGet(scope[q], t)
      BY <1>1, <2>1 DEF Fetch, ExpireOnRead, TypeOK, VaultTypeOK
    <3>2. sealed'[q] = BackendGet(scope[q], t)
      BY <2>3 DEF TypeOK
    <3> QED BY <2>1, <2>3, <3>1, <3>2 DEF InHand
  <2> QED BY <1>1, <2>2, <2>3 DEF Fetch, MissingKey
<1>2. CASE Write(q)
  BY <1>2 DEF Write, OvertakenIn, InHand, TypeOK
<1>3. CASE Open(q)
  BY <1>3 DEF Open, Settle, InHand, TypeOK
<1>4. CASE Cancel(q)
  BY <1>4 DEF Cancel, InHand, vaultVars, history
<1>5. CASE ~Fetch(q) /\ ~Write(q) /\ ~Open(q) /\ ~Cancel(q)
  <2>1. thread[q] # "open" /\ thread'[q] # "open" /\ overtaken' = overtaken
    BY <1>5 DEF OwnStep, ThreadStep, ProviderStep, Submit, Mint, PrepareFails, Prepared,
                ProviderAnswers, ProviderFails, RefuseForeign, Settle, Deliver, history,
                PlacesOK, PlaceOK, TypeOK
  <2> QED BY <2>1 DEF InHand
<1> QED BY <1>1, <1>2, <1>3, <1>4, <1>5

(* Between a look-up and its use nothing but a write of the tag or the     *)
(* erasure of the conversation takes a live record away.                   *)
LEMMA HandsStep ==
    TypeOK /\ PlacesOK /\ HandsOK /\ [Next]_vars => HandsOK'
<1> SUFFICES ASSUME TypeOK, PlacesOK, HandsOK, [Next]_vars, NEW q \in Requests
             PROVE  InHand(q)'
  BY DEF HandsOK
<1> DEFINE t == reply[q][cursor[q]]
<1>0. InHand(q)
  BY DEF HandsOK
<1>1. scope[q] \in Scope /\ (thread[q] = "open" => t \in Tags)
  BY LenProperties, MatchTag DEF TypeOK, PlacesOK, PlaceOK
<1>2. CASE Passing
  <2>1. Same(q) /\ overtaken'[q] = overtaken[q]
    BY <1>2, EnvironmentSame DEF Passing, history
  <2>2. CASE Tick
    BY <1>0, <2>1, <2>2, HandKept DEF Tick
  <2>3. CASE Sweep
    <3>1. CASE thread[q] # "open"
      BY <1>0, <2>1, <3>1 DEF InHand, Same
    <3>2. CASE thread[q] = "open"
      <4>1. backend'[scope[q]][t] = Purged(backend[scope[q]][t])
        BY <1>1, <2>3, <3>2 DEF Sweep
      <4> QED BY <1>0, <2>1, <4>1, HandKept DEF Purged, IsExpired
    <3> QED BY <3>1, <3>2
  <2> QED BY <1>2, <2>2, <2>3 DEF Passing
<1>3. ASSUME NEW sc \in Scope, Delete(sc) PROVE InHand(q)'
  <2>1. Same(q) /\ overtaken'[q] = (\/ overtaken[q]
                                    \/ thread[q] = "open" /\ scope[q] = sc /\ t \in Tags)
    BY <1>3, EnvironmentSame DEF Delete, OvertakenIn
  <2>2. CASE thread[q] = "open" /\ ~overtaken'[q]
    <3>1. backend'[scope[q]] = backend[scope[q]] /\ overtaken'[q] = overtaken[q]
      BY <1>1, <1>3, <2>1, <2>2 DEF Delete, DeletePrefix, TypeOK
    <3> QED BY <1>0, <2>1, <3>1, HandKept
  <2>3. CASE ~(thread[q] = "open" /\ ~overtaken'[q])
    BY <1>0, <2>1, <2>3 DEF InHand, Same
  <2> QED BY <2>2, <2>3
<1>4. ASSUME NEW n \in Nodes, Crash(n) PROVE InHand(q)'
  <2> DEFINE down == node[q] = n /\ task[q] # "idle"
  <2>1. CASE down
    <3>1. thread'[q] = "none" /\ ~overtaken'[q]
      BY <1>4, <2>1 DEF Crash
    <3> QED BY <3>1 DEF InHand
  <2>2. CASE ~down
    <3>1. overtaken'[q] = overtaken[q] /\ Same(q)
      BY <1>4, <2>2 DEF Crash, Same, TypeOK
    <3>2. CASE Durable
      BY <1>0, <1>4, <3>1, <3>2, HandKept DEF Crash
    <3>3. CASE ~Durable
      <4>1. node[q] = n
        BY <3>3, PipelineAssumption DEF TypeOK
      <4>2. thread[q] = "none"
        BY <2>2, <4>1 DEF PlacesOK, PlaceOK
      <4> QED BY <1>0, <3>1, <4>2 DEF InHand, Same
    <3> QED BY <3>2, <3>3
  <2> QED BY <2>1, <2>2
<1>5. CASE UNCHANGED vars
  BY <1>0, <1>5 DEF vars, reqVars, vaultVars, history, InHand
<1> QED BY <1>0, <1>2, <1>3, <1>4, <1>5, NextCases, HandsOfOwn, HandsOfOthers

-----------------------------------------------------------------------------
(* The theorems                                                            *)

(* The inductive invariant holds of the empty vault and idle requests.     *)
LEMMA InitIInv == Init => IInv
<1> SUFFICES ASSUME Init PROVE IInv
  OBVIOUS
<1>1. \A r \in Requests : /\ task[r] = "idle" /\ thread[r] = "none"
                          /\ reply[r] = <<>> /\ outcome[r] = <<>> /\ cursor[r] = 0
                          /\ \A t \in Tags : prov[r][t] = None /\ owed[r][t] = 0
  BY DEF Init
<1>2. clock = 0
  BY DEF Init, VaultInit
<1>3. PlacesOK
  BY <1>1, EmptySeq DEF PlacesOK, PlaceOK
<1>4. ProvenanceOK /\ ProgressOK /\ OwnSpellingOnly /\ MissesAreDue
  BY <1>1 DEF ProvenanceOK, ProgressOK, Decided, OwnSpellingOnly, MissesAreDue
<1>5. OwedOK
  BY <1>1, <1>2 DEF OwedOK, OwedAt, OwedInHand
<1>6. HandsOK
  BY DEF Init, HandsOK, InHand
<1> QED BY <1>3, <1>4, <1>5, <1>6, InitType DEF IInv

(* Every step of the system preserves the inductive invariant.             *)
LEMMA NextIInv == IInv /\ [Next]_vars => IInv'
BY TypeStep, PlacesStep, ProvenanceStep, ProgressStep, OwedStep, HandsStep,
   OwnSpellingStep, MissesStep DEF IInv

(* The inductive invariant holds in every reachable state.                 *)
THEOREM Invariance == Spec => []IInv
<1>1. Init => IInv
  BY InitIInv
<1>2. IInv /\ [Next]_vars => IInv'
  BY NextIInv
<1> QED BY <1>1, <1>2, PTL DEF Spec

(* Every variable keeps its type: threads of cancelled requests, crashes   *)
(* and foreign replies put nothing unexpected into vault or provenance.    *)
THEOREM TypeCorrect == Spec => []TypeOK
<1>1. IInv => TypeOK
  BY DEF IInv
<1> QED BY <1>1, Invariance, PTL

(* SI-03 for every number of requests, processes and scopes and for every  *)
(* provider: RestorationEngine.restore shows a request only spellings that *)
(* the request itself submitted, and only under their own tags.            *)
THEOREM OnlyOwnSpellings == Spec => []OwnSpellingOnly
<1>1. IInv => OwnSpellingOnly
  BY DEF IInv
<1> QED BY <1>1, Invariance, PTL

(* SurrogateVault loses no mapping early: a tag minted by a request is     *)
(* refused as a miss only when its time is up or it was erased, lost with  *)
(* its process, or displaced by a colliding value.                         *)
THEOREM NoEarlyMiss == Spec => []MissesAreDue
<1>1. IInv => MissesAreDue
  BY DEF IInv
<1> QED BY <1>1, Invariance, PTL

(* The vault, at this step, still confirms what request q shows at i.      *)
Backed(q, i) ==
    LET rec == backend[scope[q]][reply[q][i]]
    IN /\ rec # NoRecord /\ clock < rec.expires
       /\ Canon[rec.value] = Canon[outcome'[q][i]]

(* A match becomes a spelling only when its thread opens a live record of  *)
(* the value minted here; the vault has that record unless it was          *)
(* overtaken.                                                              *)
LEMMA RestoringStep ==
    ASSUME IInv, [Next]_vars, NEW q \in Requests, NEW i \in DOMAIN outcome[q],
           outcome'[q][i] \in Spellings, outcome[q][i] \notin Spellings,
           ~overtaken[q]
    PROVE  Backed(q, i)
<1> USE DEF IInv
<1>1. ~ProviderAnswers(q)
  <2>1. task[q] = "calling" => outcome[q] = <<>>
    BY DEF PlacesOK, PlaceOK
  <2> QED BY <2>1 DEF ProviderAnswers
<1>2. /\ i = cursor[q] /\ Open(q)
      /\ outcome'[q][i] = IF Confirms(sealed[q], prov[q][reply[q][i]])
                          THEN prov[q][reply[q][i]] ELSE "vault_miss"
  BY <1>1, OutcomeCases, OutcomeAssumption DEF Refusals
<1>3. Confirms(sealed[q], prov[q][reply[q][i]]) /\ outcome'[q][i] = prov[q][reply[q][i]]
  BY <1>2, OutcomeAssumption DEF Refusals
<1>4. thread[q] = "open" /\ sealed[q] \in Record
  BY <1>2 DEF Open, PlacesOK, PlaceOK
<1>5. sealed[q].expires \in Nat /\ clock \in Nat /\ clock < sealed[q].expires
  BY <1>3, <1>4, ClockAdvances DEF Confirms, IsExpired, Record
<1>6. backend[scope[q]][reply[q][i]] = sealed[q]
  BY <1>2, <1>4, <1>5 DEF HandsOK, InHand
<1> QED BY <1>3, <1>4, <1>5, <1>6, NoRecordAssumption DEF Backed, Confirms

(* SurrogateVault.get reads under the lock, and opens and checks the       *)
(* record after it; however the clock, the sweeper, other reads and other  *)
(* processes move in between, the vault has what restore then hands out,   *)
(* unless the tag was written again or its conversation erased meanwhile.  *)
THEOREM BackedWhenRestored == Spec => RestoredIsBacked
<1>1. ASSUME IInv, [Next]_vars, NEW r \in Requests, NEW i \in DOMAIN outcome[r]
      PROVE  (outcome'[r][i] \in Spellings /\ ~Restored(r, i) /\ ~overtaken[r])
                => Backed(r, i)
  BY <1>1, RestoringStep DEF Restored
<1>2. IInv /\ [Next]_vars =>
        [\A r \in Requests : \A i \in DOMAIN outcome[r] :
           (outcome'[r][i] \in Spellings /\ ~Restored(r, i) /\ ~overtaken[r])
              => LET rec == backend[scope[r]][reply[r][i]]
                 IN /\ rec # NoRecord /\ clock < rec.expires
                    /\ Canon[rec.value] = Canon[outcome'[r][i]]]_vars
  BY <1>1 DEF Backed
<1> QED BY <1>2, Invariance, PTL DEF Spec, RestoredIsBacked

-----------------------------------------------------------------------------
(* Refinement                                                              *)

(* The idle pipeline is an idle promise.                                   *)
LEMMA PromiseInit == Init => Promise!Init
<1> SUFFICES ASSUME Init PROVE Promise!Init
  OBVIOUS
<1>1. \A r \in Requests : PhaseOf(r) = "idle" /\ AnswerOf(r) = <<>>
  BY DEF Init, PhaseOf, AnswerOf, Running
<1>2. \A r \in Requests : <<scope[r], input[r]>> \in Scope \X {<<>>}
  BY PipelineAssumption DEF Init
<1> QED BY <1>1, <1>2 DEF Promise!Init

(* The client's view of request q does not change.                         *)
View(q) == <<PhaseOf(q), <<scope[q], input[q]>>, AnswerOf(q)>>

(* A request whose own state did not change looks the same to its client.  *)
LEMMA SameView ==
    ASSUME NEW q \in Requests, Same(q)
    PROVE  View(q)' = View(q)
BY DEF Same, View, PhaseOf, AnswerOf

(* An answered request stays as it is.                                     *)
LEMMA AnsweredIsFinal ==
    ASSUME TypeOK, PlacesOK, [Next]_vars, NEW q \in Requests, task[q] = "answered"
    PROVE  View(q)' = View(q)
<1>1. thread[q] = "none"
  BY DEF PlacesOK, PlaceOK
<1>2. ~OwnStep(q)
  BY <1>1 DEF OwnStep, ThreadStep, ProviderStep, Submit, Mint, PrepareFails, Write,
              Prepared, ProviderAnswers, ProviderFails, RefuseForeign, Fetch, Open,
              Deliver, Cancel, Running
<1>3. ASSUME NEW n \in Nodes, Crash(n) PROVE View(q)' = View(q)
  BY <1>3, CrashEffect DEF View, PhaseOf, AnswerOf, Running
<1> QED BY <1>2, <1>3, NextCases, OthersSame, EnvironmentSame, SameView

(* The ways in which a step can change the client's view of a request.     *)
Opens(q) ==
    /\ PhaseOf(q) = "idle" /\ PhaseOf(q)' = "open" /\ AnswerOf(q)' = AnswerOf(q)
    /\ scope'[q] \in Scope /\ input'[q] \in Seq(Spellings)

Closes(q) ==
    /\ PhaseOf(q) = "open" /\ PhaseOf(q)' = "closed" /\ AnswerOf(q)' = AnswerOf(q)
    /\ scope'[q] = scope[q] /\ input'[q] = input[q]

Answers(q) ==
    /\ PhaseOf(q) = "open" /\ PhaseOf(q)' = "answered"
    /\ scope'[q] = scope[q] /\ input'[q] = input[q]
    /\ \A i \in DOMAIN AnswerOf(q)' :
         Promise!Faithful(<<scope[q], input[q]>>, AnswerOf(q)'[i])

(* What restore delivers is faithful: each match shows a verdict or a      *)
(* spelling of this request under its own tag.                             *)
LEMMA DeliverFaithful ==
    ASSUME TypeOK, PlacesOK, ProgressOK, OwnSpellingOnly, NEW q \in Requests,
           Deliver(q), task[q] = "restoring", task'[q] = "answered",
           NEW i \in DOMAIN outcome[q]
    PROVE  Promise!Faithful(<<scope[q], input[q]>>,
                            [tag |-> reply[q][i], text |-> outcome[q][i]])
<1>1. outcome[q] \in [1 .. Len(outcome[q]) -> Spellings \cup Refusals \cup {Pending}]
      /\ DOMAIN outcome[q] = 1 .. Len(outcome[q])
  BY LenProperties DEF TypeOK
<1>2. outcome[q][i] # Pending
  <2>1. cursor[q] = 0
    BY DEF Deliver, Proceed, TypeOK
  <2> QED BY <1>1, <2>1 DEF ProgressOK, Decided, Deliver
<1>3. CASE outcome[q][i] \in Refusals
  BY <1>3 DEF Promise!Faithful
<1>4. CASE outcome[q][i] \in Spellings
  <2>1. PICK j \in DOMAIN input[q] :
          input[q][j] = outcome[q][i] /\ Tag(scope[q], outcome[q][i]) = reply[q][i]
    BY <1>4 DEF OwnSpellingOnly, Restored, Submitted
  <2>2. scope[q] \in Scope
    BY DEF TypeOK
  <2>3. [p \in Scope \X Spellings |-> Tag(p[1], p[2])][<<scope[q], outcome[q][i]>>]
          = reply[q][i]
    BY <1>4, <2>1, <2>2
  <2> QED BY <2>1, <2>3 DEF Promise!Faithful
<1> QED BY <1>1, <1>2, <1>3, <1>4

(* A step of a request is, for its client, nothing, the question, the      *)
(* answer or the end.                                                      *)
LEMMA ViewStep ==
    ASSUME IInv, [Next]_vars, NEW q \in Requests
    PROVE  View(q)' = View(q) \/ Opens(q) \/ Closes(q) \/ Answers(q)
<1> USE DEF IInv
<1>1. CASE Submit(q)
  <2>1. Opens(q)
    BY <1>1, PipelineAssumption DEF Submit, Opens, PhaseOf, AnswerOf, Running, TypeOK
  <2> QED BY <2>1
<1>2. CASE task[q] = "answered"
  BY <1>2, AnsweredIsFinal
<1>3. CASE ~Submit(q) /\ task[q] # "answered"
  <2>1. scope'[q] = scope[q] /\ input'[q] = input[q]
    BY <1>3, SameText
  <2>2. CASE task'[q] = task[q]
    BY <1>3, <2>1, <2>2 DEF View, PhaseOf, AnswerOf
  <2>3. CASE task[q] \notin Running /\ ~OwnStep(q)
    BY <2>3, <2>2, NextCases, OthersSame, EnvironmentSame, CrashEffect DEF Same
  <2>4. ASSUME OwnStep(q), task'[q] # task[q]
        PROVE  /\ task[q] \in Running
               /\ \/ task'[q] \in Running
                  \/ task'[q] \in {"failed", "cancelled"}
                  \/ Deliver(q) /\ task[q] = "restoring" /\ task'[q] = "answered"
    BY <1>3, <2>4
       DEF OwnStep, ThreadStep, ProviderStep, Mint, PrepareFails, Write, Prepared,
           ProviderAnswers, ProviderFails, RefuseForeign, Fetch, Open, Deliver,
           Proceed, Cancel, TypeOK, Running
  <2>5. CASE task[q] \in Running /\ task'[q] \in Running
    BY <2>1, <2>5 DEF View, PhaseOf, AnswerOf, Running
  <2>6. CASE task[q] \in Running /\ task'[q] \in {"failed", "cancelled", "lost"}
    BY <2>1, <2>6 DEF Closes, PhaseOf, AnswerOf, Running
  <2>7. CASE Deliver(q) /\ task[q] = "restoring" /\ task'[q] = "answered"
    <3>1. outcome' = outcome /\ reply' = reply
      BY <2>7 DEF Deliver
    <3>2. AnswerOf(q)' = [i \in DOMAIN outcome[q] |->
                            [tag |-> reply[q][i], text |-> outcome[q][i]]]
      BY <2>7, <3>1 DEF AnswerOf
    <3>3. PhaseOf(q) = "open" /\ PhaseOf(q)' = "answered"
      BY <2>7 DEF PhaseOf, Running
    <3>4. Answers(q)
      BY <2>1, <2>7, <3>2, <3>3, DeliverFaithful DEF Answers
    <3> QED BY <3>4
  <2>8. ASSUME NEW n \in Nodes, Crash(n)
        PROVE  task'[q] = task[q] \/ (task[q] \in Running /\ task'[q] = "lost")
    BY <2>8, CrashEffect
  <2> QED BY <2>2, <2>4, <2>5, <2>6, <2>7, <2>8, NextCases, OthersSame,
             EnvironmentSame DEF Same
<1> QED BY <1>1, <1>2, <1>3

(* Every step of the pipeline is a step of the promise, or invisible.      *)
LEMMA PromiseStep ==
    IInv /\ [Next]_vars => [Promise!Next]_(Promise!vars)
<1> SUFFICES ASSUME IInv, [Next]_vars PROVE [Promise!Next]_(Promise!vars)
  OBVIOUS
<1> DEFINE phase == [r \in Requests |-> PhaseOf(r)]
           asked == [r \in Requests |-> <<scope[r], input[r]>>]
           answer == [r \in Requests |-> AnswerOf(r)]
<1>1. CASE \A q \in Requests : View(q)' = View(q)
  <2>1. phase' = phase /\ asked' = asked /\ answer' = answer
    BY <1>1 DEF View
  <2> QED BY <2>1 DEF Promise!vars
<1>2. ASSUME NEW r \in Requests, \A q \in Requests \ {r} : View(q)' = View(q), Opens(r)
      PROVE  Promise!Ask(r)
  BY <1>2 DEF View, Opens, Promise!Ask
<1>3. ASSUME NEW r \in Requests, \A q \in Requests \ {r} : View(q)' = View(q), Answers(r)
      PROVE  Promise!Answer(r)
  BY <1>3 DEF View, Answers, Promise!Answer
<1>4. ASSUME \A q \in Requests : View(q)' = View(q) \/ Closes(q),
             \E q \in Requests : Closes(q)
      PROVE  \E S \in SUBSET Requests : Promise!Close(S)
  <2> DEFINE S == {q \in Requests : Closes(q)}
  <2>1. S # {} /\ S \in SUBSET Requests
    BY <1>4
  <2>2. \A q \in S : PhaseOf(q) = "open" /\ PhaseOf(q)' = "closed"
    BY DEF Closes
  <2>3. \A q \in Requests \ S : PhaseOf(q)' = PhaseOf(q)
    BY <1>4 DEF View
  <2>4. \A q \in Requests : /\ AnswerOf(q)' = AnswerOf(q)
                            /\ <<scope'[q], input'[q]>> = <<scope[q], input[q]>>
    BY <1>4 DEF View, Closes
  <2> HIDE DEF S
  <2>5. phase' = [q \in Requests |-> IF q \in S THEN "closed" ELSE phase[q]]
    BY <2>2, <2>3
  <2>6. asked' = asked /\ answer' = answer
    BY <2>4
  <2>7. \A q \in S : phase[q] = "open"
    BY <2>1, <2>2
  <2>8. Promise!Close(S)
    BY <2>1, <2>5, <2>6, <2>7 DEF Promise!Close
  <2> QED BY <2>1, <2>8
<1>5. ASSUME NEW r \in Requests, OwnStep(r) PROVE [Promise!Next]_(Promise!vars)
  <2>1. \A q \in Requests \ {r} : View(q)' = View(q)
    BY <1>5, OthersSame, SameView DEF IInv
  <2>2. View(r)' = View(r) \/ Opens(r) \/ Closes(r) \/ Answers(r)
    BY ViewStep
  <2> QED BY <1>1, <1>2, <1>3, <1>4, <2>1, <2>2 DEF Promise!Next
<1>6. ASSUME NEW n \in Nodes, Crash(n) PROVE [Promise!Next]_(Promise!vars)
  <2>1. ASSUME NEW q \in Requests PROVE View(q)' = View(q) \/ Closes(q)
    <3>1. task'[q] \in {task[q], "lost"} /\ (task[q] = "idle" => task'[q] = "idle")
      BY <1>6, CrashEffect DEF IInv
    <3>2. ~Opens(q) /\ ~Answers(q)
      BY <3>1 DEF Opens, Answers, PhaseOf, Running
    <3> QED BY <3>2, ViewStep
  <2> QED BY <1>1, <1>4, <2>1 DEF Promise!Next
<1>7. CASE Passing \/ (\E sc \in Scope : Delete(sc)) \/ UNCHANGED vars
  BY <1>1, <1>7, EnvironmentSame, SameView
<1> QED BY <1>5, <1>6, <1>7, NextCases

(* The detailed pipeline implements RestorationPromise.                    *)
THEOREM ImplementsPromise == Spec => KeepsPromise
<1>1. Init => Promise!Init
  BY PromiseInit
<1>2. IInv /\ [Next]_vars => [Promise!Next]_(Promise!vars)
  BY PromiseStep
<1> QED BY <1>1, <1>2, Invariance, PTL DEF Spec, KeepsPromise, Promise!Spec
=============================================================================
