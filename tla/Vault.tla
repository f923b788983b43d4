------------------------------- MODULE Vault -------------------------------
(***************************************************************************)
(* gateway/vault/store.py: the encrypted, scoped, expiring map from a      *)
(* surrogate tag to the spelling it stands for.                            *)
(*                                                                         *)
(* Encryption is abstracted to what it decides: a record can be opened     *)
(* only in the scope and under the tag it was written for (both are bound  *)
(* into the additional authenticated data, and no code moves a record), and*)
(* only by a process whose key ring holds the record's key version.  A     *)
(* tag stands for the whole token: its HMAC part is the CONSTANT function  *)
(* TagOf, which is NOT assumed injective, so a tag collision is a state    *)
(* the models reach.  Time is a discrete clock.                            *)
(***************************************************************************)
EXTENDS Integers, Sequences

CONSTANTS
    Tenants, Conversations,
    Spellings,      \* the values detected in request text, as written
    Canons, Canon,  \* canonicalize(): which spellings are one value
    Tags, TagOf,    \* TokenMinter._tag(): [Scope \X Canons -> Tags]
    TTL,            \* SurrogateVault._ttl, in clock ticks
    ClockBound,     \* bound of the model: the clock stops here
    Nodes,          \* gateway processes that share one backend
    Ring, Active,   \* KeyRing of each process, and its active version
    NoRecord        \* the backend holds nothing under a key

Scope == Tenants \X Conversations

KeyVersions == UNION {Ring[n] : n \in Nodes}

ASSUME VaultAssumption ==
    /\ Canon \in [Spellings -> Canons]
    /\ TagOf \in [Scope \X Canons -> Tags]
    /\ TTL \in Nat \ {0}
    /\ ClockBound \in Nat
    /\ Ring \in [Nodes -> SUBSET Nat]
    /\ \A n \in Nodes : Active[n] \in Ring[n]

Record == [value : Spellings, version : KeyVersions, expires : Nat]

ASSUME NoRecordAssumption == NoRecord \notin Record

VARIABLES
    clock,      \* time.time()
    backend     \* InMemoryBackend._items, by scope and tag

vaultVars == <<clock, backend>>

VaultTypeOK ==
    /\ clock \in 0 .. ClockBound
    /\ backend \in [Scope -> [Tags -> Record \cup {NoRecord}]]

VaultInit ==
    /\ clock = 0
    /\ backend = [s \in Scope |-> [t \in Tags |-> NoRecord]]

IsExpired(rec) == clock >= rec.expires

Tag(sc, spelling) == TagOf[<<sc, Canon[spelling]>>]

(* What SurrogateVault.put computes before it takes the backend's lock:    *)
(* the expiry and the key version are read here, the write comes later.    *)
Seal(n, spelling) ==
    [value |-> spelling, version |-> Active[n], expires |-> clock + TTL]

(* InMemoryBackend.put under the lock: the last writer wins.               *)
BackendPut(sc, t, rec) == backend' = [backend EXCEPT ![sc][t] = rec]

(* InMemoryBackend.get under the lock: an expired item is removed on read. *)
BackendGet(sc, t) ==
    LET rec == backend[sc][t] IN
    IF rec = NoRecord THEN NoRecord
    ELSE IF IsExpired(rec) THEN NoRecord ELSE rec

ExpireOnRead(sc, t) ==
    backend' = [backend EXCEPT ![sc][t] = BackendGet(sc, t)]

\* mutant: the comparison the wrong way round
PurgedReversed(rec) == IF rec # NoRecord /\ ~IsExpired(rec) THEN NoRecord ELSE rec

Purged(rec) == IF rec = NoRecord \/ ~IsExpired(rec) THEN rec ELSE NoRecord

(* SurrogateVault.purge_expired, run by the sweeper of gateway/api/app.py. *)
Sweep ==
    /\ backend' = [s \in Scope |-> [t \in Tags |-> Purged(backend[s][t])]]
    /\ UNCHANGED clock

\* mutant: the prefix stops after the tenant
DeleteTenantPrefix(sc) ==
    backend' = [s \in Scope |->
                  IF s[1] = sc[1] THEN [t \in Tags |-> NoRecord] ELSE backend[s]]

(* SurrogateVault.delete_conversation: every key with the prefix           *)
(* tenant NUL conversation NUL.                                            *)
DeletePrefix(sc) ==
    backend' = [s \in Scope |->
                  IF s = sc THEN [t \in Tags |-> NoRecord] ELSE backend[s]]

Tick ==
    /\ clock < ClockBound
    /\ clock' = clock + 1
    /\ UNCHANGED backend
=============================================================================
