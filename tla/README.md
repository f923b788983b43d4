# Verification of the Cloakspan gateway

Cloakspan stands between an application and a language model. It finds sensitive
spans in a request, replaces each by a token, keeps the mapping from token to
original in a vault for a limited time, sends the request to a destination that
the policy allows, and puts the originals back into the answer: of chat
completions, and of the streamed answers of two agent protocols (Responses and
Messages).

This directory holds TLA+ models of that program (`src/`), TLC configurations
that check them on small instances, and proofs that TLAPS checks for every
value of the constants. `PROJECT.json` says, for each definition, which lines of
the source it stands for, which runs exist and which mutants of the code each
property detects.

## 1. Inventory

### 1.1 Parts that are modelled

| part | source | state it keeps | operations |
|---|---|---|---|
| Vault | `gateway/vault/store.py` | records (ciphertext, expiry, key version) under tenant/conversation/token; one lock in the backend | put, get, expiry on read, sweep, erase a conversation |
| Minting, provenance | `gateway/transformations/` | per request: token -> spelling minted | mint with collision check, transform |
| Restoration | `gateway/restoration/engine.py` | counts of the answer at hand | restore, from the last match to the first |
| Chat pipeline | `gateway/inspection/pipeline.py` | task and worker thread of each request | process: prepare thread, provider, restore thread |
| Policy, local routing | `gateway/policy/` | immutable rules | match, order, decide, routing floor |
| Destinations at startup | `gateway/config.py`, `gateway/api/agent_runtime.py` | client objects per destination and channel | build, refuse, look up, tripwire |
| Agent lifecycle | `gateway/api/agent.py`, `agent_runtime.py` | admission counter; per stream a generator, a `finished` flag, an upstream stream | admit, prepare, complete, stream, finish, audit, release |
| Provider transports | `gateway/routing/base.py`, `responses.py` | per call: attempt, deadline, response, bytes read | attempt loop, retry, pause, total deadline, read, close |
| Playground worker | `gateway/playground/worker.py`, `app.py` | one process, one pipe, one slot, a recovery task | start, inspect, time out, recover, close |
| Prose restoration | `gateway/streaming/tokens.py` | raw text, restored text, held suffix | feed |
| Stream machines | `gateway/streaming/protocols.py` | items, parts, held events, terminal events | one handler per kind of event, release at the end |
| SSE framing | `gateway/streaming/sse.py` | line, data and event lines, bytes of the frame, a CR seen last | one character |
| Request contracts | `gateway/protocols/`, `AgentPreparation` | calls, results and identifiers seen; locations still to inspect | parse, read an item, inspect and replace a location, refuse |
| Isolated inspection | `inspect_isolated` in `gateway/inspection/agent.py` | child process, pipe, descriptor, receiving and joining threads | start, poll, check, receive, time out, escalate, cancel |
| Executable tool calls | `gateway/tools/` | the registry bound to a request | declare, admit a batch, restore a call of each tool |
| Buffered answers | `restore_response` in `gateway/streaming/protocols.py` | the answer, the prose and calls still to restore | check, restore, deliver, refuse |
| Egress policy | `gateway/routing/egress.py` | none; a frozen policy for each destination | build, validate offline, resolve, validate |
| Text inspection | `gateway/inspection/preparation.py`, `gateway/normalization/`, `gateway/detectors/base.py` | the view of a text and its map to the original; spans | screen, normalize, detect, resolve conflicts, map back, replace |

How they interact. The chat route calls the pipeline. The pipeline runs
inspection, policy, minting and vault writes in one worker thread
(`asyncio.to_thread`), awaits the provider, and runs restoration in another
thread; all threads of a process share the vault. The agent routes admit a
request, parse it into a contract with locations, inspect those in a child
process, replace them, bind the declared tools into a registry, and either
complete the request or hand a generator, *together with the admission slot*, to
the response object that drives it. The generator pulls frames from the SSE
parser through a stream machine; a buffered answer is restored as one document.
Calls in either go through the registry before the agent may see them. Every
attempt of a transport asks the egress policy. A sweeper task and an erasure
route change the vault at any time. The playground has its own process and
shares nothing with the gateway but the inspection code.

### 1.2 What is hard here, and what makes each part correct

* **A thread cannot be stopped.** A cancelled chat request leaves a thread that
  goes on writing to the vault. Correct: what it does is harmless to every other
  request, and it ends.
* **Two requests write one key.** The token of a value is deterministic within a
  conversation, the spelling is not. Correct: an answer shows only spellings of
  the request it answers, and a mapping is not lost before its time.
* **Time passes between the lock and the use.** A record is fetched under the
  lock and opened after it; an expiry is computed before the lock. Correct: an
  expired record is never handed out; a write cannot shorten what is promised
  beyond what some write itself said.
* **Keys rotate while processes run.** A process may meet a record it has no key
  for. Correct: it says so, and never that the mapping does not exist.
* **Policy rules, filters, modes and destinations interact.** Correct: blocks win
  ties, the routing floor covers every decision but a block, and what starts can
  serve every destination it may decide for.
* **The admission slot changes owner.** Correct: it is given back exactly once,
  and each request is reported exactly once and truthfully, wherever it is
  cancelled, cut by a deadline or broken.
* **Retries, pauses and deadlines.** Correct: no attempt after the deadline, no
  response left open, an end, and (native adapters) no completion repeated unless the
  upstream asked for it by its status.
* **One worker, many requests.** An exchange outlives the request that began it.
  Correct: nobody gets another request's result; no process is orphaned; the slot
  and the recovery come free.
* **Streams are cut anywhere.** Correct: no fragment of a token leaves, the
  client is sent a legal stream, tool calls leave only after the upstream has
  succeeded, and the output limit holds although restoration lengthens text.
* **Detection happens in one text and replacement in another.** Correct: the map
  between them covers the text, and of a span that the first resolution kept no
  character is in what goes out. (What it drops does go out where no kept span
  covers it, as `docs/limitations.md` says: run `text_containers`.)

* **A child process answers through a pipe.** The parent polls, asks the clock
  and asks whether the child is alive, one after the other; a receiving thread
  cannot be stopped and keeps using a descriptor number. Correct: what a child
  sent in time counts, no child outlives its request, everything ends.
* **A restored call is executed.** A private value may look like an option, a
  header, a wildcard, a path out of the workspace. Correct: what is delivered
  does what the provider wrote, with the value in its place, and only as a whole.
* **Private values hide in structure.** Keys, numbers, enums, JSON in strings.
  Correct: what was found does not leave, or leaves only in text when the policy
  allows it, and nothing but texts is changed.
* **Host names move.** Correct: an attempt starts only towards addresses that
  were checked, all of them, in this call or this attempt.

`hazards` in `PROJECT.json` lists each of these at its line with the properties
that cover it, and the hazards that are not covered yet with the reason.

### 1.3 Parts that are not modelled

| part | why |
|---|---|
| Sessions and API keys (`auth/`, `sessions/`) | keys are loaded once; nothing in the running gateway calls `add` or `revoke`. A namespace is a hash of length-prefixed names. The models take scopes and keys as given |
| Recognizers and detectors | regular expressions, lookup tables and a third-party model; `TextInspection` lets them find anything, `RequestContracts` any set of leaves. Check digits are arithmetic that unit tests reach |
| Configuration parsing | a table of defaults and ranges; what it decides about destinations is in `PolicyRouting` and `EgressRules` |
| Audit events | a record built from its arguments; that each request is reported once is in `AgentLifecycle` |
| Doctor, playground routes, command line, scripts, evaluations, deployment | no state that survives a call, or not part of the running gateway |

## 2. Modules

An action is one piece of code that no other actor can interrupt: between two
awaits on the event loop, or between two lock operations in a thread.

### 2.1 The core: `Vault`, `RestorationPipeline`, `RestorationPromise`

`Vault` is the backend and `SurrogateVault`: `backend[scope][tag]` is a record
of value, expiry and key version or `NoRecord`. `BackendPut`, `BackendGet` with
`ExpireOnRead`, `Sweep` and `DeletePrefix` are what happens under the lock.
Encryption is reduced to which process holds which key versions; the token's
text and its HMAC are the constant function `TagOf`, which may collide.

`RestorationPipeline` adds the requests. `task[r]` is where `process()` stands,
`thread[r]` where its worker thread stands; the two are separate so that a
cancelled task leaves its thread behind. `Mint` is `TokenMinter.mint` and the
part of `put` before the lock, `Write` the part under it; `Fetch` is `get` up to
the release of the lock, `Open` the rest of `get` and the restorer's decision.
`ProviderAnswers` lets the provider send any tags. `Cancel`, `Delete`, `Crash`,
`Sweep` and `Tick` may happen at any time. `owed[r][t]` is a history variable:
until when the vault owes request *r* the tag *t*; `overtaken[r]` says that the
record which *r* has fetched was written again or erased before it was opened.

`RestorationPromise` is what a client may rely on, without vault, threads or
clock: a request is answered at most once, an answer never changes, and a token
is replaced by a spelling the request itself submitted under that token, or
shown as refused. `KeepsPromise` is the refinement
(`INSTANCE RestorationPromise WITH ...`).

### 2.2 The other components

`PolicyRouting` - `Start` loads a configuration and accepts or refuses it as
`config.py`, `local_routing.py` and `AgentRuntime.__init__` do; `Serve` decides
one request (`FirstMatch`, `apply_local_routing`) and dispatches it with the
tripwire. Rules are records; a rule's name is its rank. A provider is the
*client object* behind a name, so that two names may share the mock.

`AgentLifecycle` - `at[r]` is the place of the handler or the response, `gen[r]`
that of the generator, `why[r]` what the generator will report. Cancellation and
the total deadline may strike at every await and, inside the generator, at every
yield. The audit sink may raise. Its step *prepare fails* is the outcome of
`IsolatedInspection` and `RequestContracts`.

`ProviderTransport` - one call of one of three adapters (`chat`, `complete`,
`stream`). httpx takes a timeout per operation, so each stage starts a timer of
its own; `asyncio.timeout` is `TotalElapsed`. The upstream may break, stall or
trickle at every stage; `processed` counts how often it did the work, the history
variable `declined` how often it asked by its status to be asked again. Each
validation asks `EgressRules` about the addresses the name has by then: once in
a call of the chat adapter, before each attempt in the native ones.

`EgressRules` - operators only: the policy of a destination, the URL's syntax,
the two address tests, `validate`. An address is its kind, twice: as Python's
tables show it and as the IPv4 address it carries; the tables changed between
Python versions, so the instance has mapped addresses judged either way.

`WorkerSupervisor` - supervisor, worker processes, and the threads of exchanges
with the connection each was given. A worker may stick or die anywhere.

`TokenText` is the token grammar (bracket, bounded body, bracket) with its
length bound and the reference restoration; `StreamRestoration` the two stream
machines above it, one action per kind of event, and a client that remembers
what it was told. `phase` follows `restore_stream`: open, stopping, terminal
(events prepared, upstream not closed), ended, failed.

`TextInspection` - screening, view, detection, three runs of
`resolve_conflicts` (one span a step, in rank order, with the two-neighbour
check), mapping, and the backwards assembly of the outbound text. Characters are
six classes; the Unicode tables are data.

`IsolatedInspection` - one inspection for each request, all on one event loop
with one executor. `place` is where `inspect_isolated` stands, `child` the
process, `wrote`/`taken` the two parts of its answer in the pipe, `thread` and
`joiner` the threads it has borrowed. Descriptors are numbers that are given out
again, lowest first: a receiving thread that outlives its request may read
another request's pipe. The child survives SIGTERM if it chooses (it is forked
with the server's signal handlers), may stop half way, or never come back.

`JsonShapes` - documents, the shapes of the readers of `protocols/base.py`, the
locations of a document (`Visits`, level by level, as `finish` walks) and their
replacement along a path (`Put`). `JsonReaders` says which documents the reader of
a shape accepts, and the limits on collections and nesting; it is recursive, so
`JsonShapes` takes both as the operator constants `Reads` and `WithinLimits`, and
the .cfg gives them the values `Fits` and `Bounded`. `ToolCalls` does the same with
the executable schemas (`SchemaCompiles`, `SchemaIsFlat`, `SchemaMatches`, of
`ToolSchemas`). `CallHistory` is the history check: the loop over the entries of
a replayed history with its three sets.
`RequestContracts` extends both: both protocols' shapes, the history read item by
item, then the locations inspected and replaced one by one. `ToolSchemas`, `ToolText` and `ToolCalls` are
the registry: the executable subset of JSON schema, the texts a tool executes
(paths, globs, regular expressions, patches, commands), and the restoration of a
call. `AgentAnswer` restores a buffered answer, prose and calls in order, within
its budgets. `SseFrames` is `parse_sse`.

What these abstract: a string is a model value in a request, and a sequence of
atoms (a character, a word, a flag, a header, a placeholder) in an answer, so
limits on string lengths and the grammar of identifiers are left out and sizes
are counted in atoms; one member stands for a family that the code treats alike
(one option for the options with an argument, one method for the methods);
duplicate keys of a JSON text are left out.

### 2.3 Composition

`RestorationPipeline` extends `Vault`; `StreamRestoration` extends `TokenText`;
`ProviderTransport` extends `EgressRules`. `AgentExchange` composes
`RequestContracts`, `ToolCalls`, `AgentAnswer` and `SseFrames` into one exchange
of an agent with its provider: what the request declared decides what the answer
may contain, and the values the request put away are the values that its calls
get back. `PolicyRouting`, `AgentLifecycle`, `WorkerSupervisor`,
`IsolatedInspection` and `TextInspection` meet the others only through one call
each, whose outcome is a choice in the caller's model: `Prepared` (inspection or
policy refuses), `ProviderAnswers`/`ProviderFails` (transport), `ProviderEnds`
(stream).

## 3. Runs

| run | what it asks | states |
|---|---|---|
| `restoration_race` | two requests, one or two conversations, one process: minting, writing, restoring, cancelling, sweeping, erasing, restarting in any order; refinement of the promise | 0.6 M |
| `restoration_keys` | two processes with a shared durable backend during a key rotation, tags that collide; the inductive invariant; liveness | 0.2 M |
| `policy_routing` | every subset of five rules and two filters, modes, URLs, NER, production, agent protocols; every request | 0.8 M |
| `agent_lifecycle` | three requests, two slots; liveness | 0.1 M |
| `transport` | each adapter against every upstream, for five destinations whose host name moves; liveness | 0.7 M |
| `worker` | two inspections, three workers; liveness | 6 k |
| `stream` | both protocols, every cut of tokens, up to three interleaved items | 1.2 M |
| `text` | every text of up to three characters of six classes, every set of up to three spans | 0.6 M |
| `isolated` | two requests, one of which may be cancelled, three threads: the pipe, the child and the cleanup in every order; liveness | 0.25 M |
| `exchange` | requests of both protocols, each kind of answer with each kind of call, and every stream of seven characters | 0.3 M |
| `transport_replay` | *violation*: the chat adapter's comment says that a retry cannot duplicate anything | |
| `text_containers` | *violation*: `resolve_conflicts` says that a container is kept | |

The type invariants of `RestorationPipeline`, `PolicyRouting`, `AgentLifecycle`,
`ProviderTransport`, `WorkerSupervisor` and `IsolatedInspection` are conjuncts of
the inductive invariants of section 4; the run `restoration_keys` checks the first
of these as a whole (`IInv`).

Every property of a passing run has a mutant in `PROJECT.json`: a plausible bug
in the mapped code, written beside the definition it replaces, that makes TLC
find the property violated.

### 3.1 Bounds, and why they are enough

* `Requests = {r1, r2}` in the pipeline: every race in the code is between two
  actors (a writer and a writer, a reader and an erasure); the theorems of
  `RestorationProofs` cover any number. Two spellings of one value and one other
  value give equal, differing and colliding writes.
* `TTL = 1`, `ClockBound = 2`: a record can be written late, expire while in
  hand, be renewed, and be swept. The clock's bound is in the guard of `Tick`.
* Policy: five rules that differ in what the engine looks at: an application's
  rule, a block and an allow that tie, a catch-all, a local rule. Two filters:
  one that outranks the policy, one whose name is taken. `Destinations` has one
  name nobody configures.
* Lifecycle: three requests on two slots is the smallest instance where a lost
  or doubled slot changes an admission.
* Transport: `MaxRetries = 2` as shipped, `Timeout = 3`, `MaxBackoff`,
  `ResolveTime` and reads small enough for a pause or a trickle to cross the
  deadline; `MaxTime` bounds the clock beyond the latest end of a call.
* Egress: a name that is public, private, both, shared, link-local, mapped or
  unresolved by turns; a literal, an allowlist, the override, local routing on
  and off; and four configurations that the constructor refuses.
* Worker: every failed job costs one worker, so two jobs need three.
* Isolated inspection: two requests are enough for a stale descriptor; an answer
  of two parts for half of it. With `Pool = 2` the property `EveryInspectionEnds`
  fails: two abandoned threads hold the executor on which the joins that would
  kill their children wait. The interpreter's default pool is at least five
  threads, so a pool that is not exhausted is the ordinary case; see 3.3.
* Exchange: histories of up to four items of six kinds; a document with a value
  in any two of nine places; about forty tool offers; some five hundred calls,
  each a case of its own (an option, a wildcard, a link, a header, a limit); a
  provider's stream of seven characters with a budget of six. `MaxNesting = 14`
  is above the deepest path of any document that is read (`RequestAssumption`,
  which TLC evaluates): the walk over a document is cut nowhere.
* Stream: a token of three characters (`Width = 1`) in deltas of one character,
  and one delta that ends a possible token and begins another; a value longer
  than its token (`ValueSize = 4`) that reaches `MaxOutput` by itself.
* Text: three characters are enough for a ligature between neighbours, a run of
  marks, a hidden character at either end, and three spans of which each
  overlaps the next.

### 3.2 Fairness, and why the code justifies it

* Pipeline: `WF` of each thread's step (the operating system runs threads), of
  the provider's step (every adapter has a deadline) and of the sweeper (a task
  that runs as long as the process). No fairness of `Tick`, `Cancel`, `Delete`.
* Lifecycle: `WF` of the handler's steps (body, detector and provider deadlines
  end every wait), of the total deadline and of the cleanup. Two waits have no
  deadline in `src/`: sending the response's headers and sending the error
  event. There the run assumes that a client reads or its connection breaks;
  this is listed as a hazard.
* Transport: the gateway's own steps, timers and the clock. Nothing of the
  upstream, nothing of a stream's consumer.
* Worker: the supervisor's own tasks and timers. Nothing of a worker.
* Isolated inspection: the event loop, the threads, the clock, and the death of
  a child that was sent SIGKILL. Nothing of a child otherwise.

### 3.3 What the runs show

The safety and liveness properties hold at these bounds. Two statements of the
documentation do not (the `findings` of `PROJECT.json` quote them):

1. The chat adapter retries any transport error, also after the upstream has
   received the request. Of the transport errors the native adapters retry
   `ConnectError` only.
2. A span of higher score inside a longer one displaces it, and the rest of the
   longer one goes out as it is.

Further observations that no run states as a property:

* Concurrent writes of one key are not identical, as `docs/adr/0014` says: the
  spelling may differ and the last write wins. Restoration is right all the same:
  it shows the request's own spelling and asks the vault only for confirmation
  (`OwnSpellingOnly`).
* A look-up is not repeated: when a conversation is erased, or a record written
  again, between the fetch of a record under the lock and its use, what was fetched
  is shown all the same. `RestoredIsBacked` excepts a record overtaken in that way;
  an expiry is not excepted.
* A production policy that names `mock` is served by the mock, since the mock
  counts as configured (`docs/adr/0017` speaks of a check that refuses it).
* Both kinds of adapter send a request again after a 429, 500, 502, 503 or 504,
  whatever the upstream has done with it: the status alone decides
  (`base.py:157`, `responses.py:147`). The class says that it retries where the
  upstream "demonstrably did not process the request, or explicitly asked us to
  come back"; a 500 or a 504 says neither. In the model a retryable status may
  follow processing, `declined` counts how often it does, and a completion may
  be processed `declined + 1` times (`NativeRepeatsWhenAsked`).
* What remains of the deadline goes to httpx as a limit of *each* operation, so
  the deadline of `docs/adr/0014`, "across all attempts rather than per attempt",
  is one for the start of attempts and for silence (`AttemptsAreDue`,
  `SilenceIsBounded`), not for the end of a call: an upstream that trickles
  outlives it. The native completion alone is inside an `asyncio.timeout`, which
  the model has as a timer that is not late; that it ends by then is not a
  property here, since it would restate that timer.
* A client of the playground may be told that a worker is recovering while none is.
* A cancellation that strikes while the cleanup of an inspection waits for the
  child skips the kill: a child that ignores SIGTERM stays (`NoOrphans` has that
  exception, and `EveryInspectionEnds` another for the thread it blocks).
* A successful answer is refused when its child ends between the poll and
  `is_alive`; `AnswersCount` says that this and a stale descriptor are the only
  ways to lose one.
* A comma in a value restored between the braces of an authored glob adds an
  alternative to it; `StructureIsAuthored` leaves commas aside for that reason.
  Two more forms are not among the inputs: `rg -e -F -e <token>`, where `-F` is an
  argument and still makes the restored pattern literal, and an authored
  backslash directly before a token in a regular expression.
* A value that begins like the version of a token (`:v1`) and is put behind an
  authored `<E` in the pattern of a search makes a text that looks like a token:
  a pattern is checked before its values are put in, and each value by itself. It
  is none; `EachCallIsWhole` excepts the look of a pattern (`PatternOf`), not
  placeholders in it.

## 4. Theorems

The proofs are in modules of their own. They assume what the modules' `ASSUME`s
say of the constants, which TLC evaluates on the runs' instances, and nothing
else. Some theorems state what no run lists as a property: `TypeCorrect`,
`StreamTypes`, `InspectionTypes`, `TripwireNeverFires`, `DestinationsConfigured`,
`FloorOnlyTightens`, `UpstreamIsClosed`, `DeliveryIsBounded`, `FoundIsReplaced`.
They follow from the same inductive invariants. `RestoreSplits`, `FeedRestores`,
`FlushRestores` and `RebuildsWhole` are about the operators of the models, for
every argument.

Some of the proofs need induction over data: what a recursive function computes
(the visits of a document, the value at the end of a path), what `FlattenSeq`
makes of a sequence of sequences, and that a finite set of numbers has one
ascending listing. The library's induction theorems take an
operator as a parameter, which the provers cannot instantiate; the proofs take
the least element of the set of counterexamples instead (`LeastNumber`, from the
well-foundedness of `<`, which is stated of a relation). `TextInspection` lists
a set with an operator of its own (`Ascending`), as the library's sorting is not
something the provers can look into.

**`RestorationProofs`** - `Invariance: Spec => []IInv`, and from it
`TypeCorrect`, `OnlyOwnSpellings`, `NoEarlyMiss`, the action property
`BackedWhenRestored`, and the refinement `ImplementsPromise`. `OwnSpellingOnly` and `MissesAreDue` are not inductive:
nothing in them says what a thread holds between two of its steps. `IInv` adds

* `PlacesOK`: which places of task and thread go together (a cancelled task with
  a thread anywhere among them), and what the thread holds there;
* `ProvenanceOK`: provenance names spellings of this request under their own tag;
* `ProgressOK`: a match is undecided exactly while the restorer has not come to it;
* `OwedOK`: what is owed is in the backend, live and of the right value - and so
  is a record that a thread has fetched and not yet opened;
* `HandsOK`: a record in hand that nothing has overtaken still stands in the vault
  as it was fetched, or has expired. `RestoredIsBacked` speaks of the vault at the
  step that hands a value out, while that step only looks at the thread's copy; it
  needs this invariant, which each write, sweep, expiry on read, erasure and
  restart of any actor has to keep (`HandKept`, `HandsStep`).

The argument for `MissesAreDue` is that nothing but the clock, an erasure, a
restart or a colliding write ends a debt, and that each of them is visible in
`owed`. `ImplementsPromise` shows that each step is a step of the promise for
one request, a closing of several (a process that dies), or a stutter.

**`EgressProofs`, the policy** - `RoutingInv` says that a served request was decided by the
engine from an accepted configuration. `FloorHolds`, `TripwireNeverFires`,
`DestinationsConfigured`, `BlockStopsRequest`, `FloorOnlyTightens` and
`MockNeedsItsName` follow from it for every policy. `BlockStopsRequest`
rests on the sort key: what comes before a block is a block or has a higher
priority.

**`AgentProofs`** - `LifecycleInv` adds `InPlace`, which says for each place who
has reported the request and who will; `NoSlotLeaks` counts: every step moves
one request and moves the counter with it (cardinality of `Holders`).

`FramesStayExact` is about the server-sent events. The reference of
`FramesAreExact` looks at the whole text; `SseInv` says that the parser's buffers
are what that reference says of the frame being read: its line is `LineAt` the
next place, its data and event lines are the values of the lines of that frame,
its bytes are `Charged`, and its skipped LF is the place before. Each lemma on
the way says how a reference definition changes when the text grows by one
character, or that it does not (`LineStays`, `FrameStays`, `BytesStay`). It is
proved for `SseSpec`, the parser by itself; `ExchangeProofs` takes it to the
exchange.

`HistoryStaysPaired` is about the history check, for histories of any length.
`HistoryInv` says that while the loop runs its three sets are those of the first
`n` entries, and that these are paired; `FitsMeansPaired` is the point of it: with
such sets, the next entry fits if and only if it goes with all entries before it.
A refused history is therefore unpaired, an accepted one paired. It is proved for
`HistorySpec`, the history by itself; `ExchangeProofs` takes it to the exchange.

**`ExchangeProofs`** - about `AgentExchange`, for every body, every answer, every
finding of the detectors and every verdict of the parsers: `Reads`,
`WithinLimits` and the three schema tests are constants without an assumption
that would say what they accept. Four assumptions remain, and TLC evaluates all of
them on the instance of `exchange`: a private leaf is a string or a number
(`PrivateAssumption`), `MaxNesting` is a number that no document read reaches
(`NestingAssumption`, `RequestAssumption`), and an answer that was read is an object
with its list of items (`AnswerAssumption`).

*Refinement.* `ExchangeKeepsHistoryPaired` and `ExchangeKeepsFramesExact` show that
every step of the exchange is a step of `CallHistory` or leaves its variables
alone, and the same of `SseFrames`; the two theorems of `AgentProofs` then hold of
the exchange.

*The answer.* `CallsAreAsDeclared` is `BatchAsDeclared`; `DeliveryIsBounded` is the
first part of `EachCallIsWhole` (all calls that were written, each within its
limit, the whole within the limit of an answer). Neither is inductive: both
speak of what was delivered, while the answer is restored part by part and its
calls lie among prose. `AnswerInv` adds that the registry is that of the request
(`bound`), that the batch was admitted as it was written, that restoration leaves
each item in its place with its name (`SameFrame`), and that the calls up to the
last restored part satisfy their schema *after* restoration and their limit
(`CallsAreRestored`). The crux is that the parts come in one order
(`NextComesFirst`), so that nothing is pending at delivery means that every call
was restored, and that a later part does not touch an earlier call (`PartKeeps`).

*The request.* `ContentOnlyChanges` is `OnlyContentChanges`; `FoundIsReplaced` says
that under a policy that replaces values no location that had one still has it.
Locations are computed once, before the first replacement, and each replacement
decodes, changes and encodes the documents on its path again; so what has to be
shown is that a path leads to the same place after other replacements. The
section on documents shows where a path leads (`NodesAgree`, `PathIsOfSteps`) and
that putting a scalar in the place of a leaf keeps every key and every other
scalar where it is (`PutNodes`, `PutLeaves`). `ContentInv` needs each of its parts:

* `OnlyStandIns`: what was replaced so far is a private text, and what stands there
  is its placeholder, which restores to that text;
* `ReplacedOrDue`: a location with a value is still due, and then its leaf is still
  there, or it has been replaced - without it a replacement could be of what an
  earlier one has put there;
* `OneSpelling`: with tools declared, all spellings found of a value are one, so
  that minting for a later location does not change what an earlier placeholder
  restores to;
* no value found at a structural place, and `NestsWithin`, so that the walk sees
  every location.

TLC checked `AnswerInv` and `ContentInv` on the instance of `exchange` before they
were proved.

**`StreamProofs`** - `ToolsStayPrivate`, `TextStaysRestored`,
`OutputStaysBounded`, `ClientAlwaysUnderstands` and `StreamTypes`, for both
protocols, every limit, and streams of any length. `PrivateInv` says that while
the upstream is there, all that was seen and all that is on its way is prose;
held calls join the way only at the step at which every call is complete.

The other three state facts about what has left the machine, which say nothing of
what it still holds. `StreamInv` adds

* `MachineOK`: items, parts and stages of the machine are in order - an item has
  the parts its protocol lets it have, a finished item has no part still open, and
  once a stop is on its way every item is finished;
* `AllText`: the text of each part is the restored beginning of what was read,
  up to a place no token crosses, and within the limit; the rest is in its buffer.
  `FeedRestores` and `FlushRestores` are the two steps a buffer can make;
  both rest on `RestoreSplits`: at a place no token crosses, restoring the whole
  is restoring both sides;
* `HeldInv`: whatever the texts of the calls turn out to be, the batch that
  `Release` lets go could be told, event by event, to a client that has heard of
  nothing else. It is the only part about events that do not exist yet;
* `Understands`: a client that has heard what was seen can be told everything
  that is on its way, event by event, and is then where the machine is, but for
  the calls.

That a client understands what it has heard is not inductive without the last
two: an event is understood or not in the state its predecessors leave the client
in, so the invariant follows the client through the whole queue, and through the
batch that enters it at once.

**`TextProofs`** - `ResolvesGreedily`, `RoundTripTakesWhole`, `NothingKeptIsSent`,
`OutboundStaysExact` and `InspectionTypes`, for texts of any length, any set of
detected spans and any scores. Four steps lead there.

1. `ResolutionInv` adds to `ResolvedGreedily` that what is kept outranks all that
   is pending and that what was dropped lost to something kept; from the first and
   from the order of the kept list it follows that a span which clears its two
   neighbours clears them all.
2. A text falls into clusters, and the view is a row of what they become
   (`ViewIsTiled`). The view of the text behind a row of clusters is that part of
   the view (`PartView`): nothing outside a cluster decides what it becomes.
3. So a stretch of the view re-derives its match exactly when it begins and ends
   between clusters (`RebuildsWhole`). A stretch that does not is refused because
   the view of its original is longer than the stretch.
4. `InspectionInv`: the view is that of the text; the spans of the original were
   mapped from spans that were found, are apart and re-derive their match. By 3
   they are apart in the original as well (`MappedApart`), so the two later
   resolutions drop none (`AllKept`) - without this, a span that the first one kept
   could be dropped there and its text be sent. During assembly, the fragments are what is
   expected from the cursor on (`OutputInv`); the invariant fails at a cursor
   inside a span, and the cursor is never there.

**`EgressProofs`, the transports** - `TransportInv` says how often the upstream can have
processed the request at each await: an attempt that has not been written has
added nothing (`Counted`), and a native adapter only comes to a new attempt when
what was done was also declined (`AskedOnce`). `Timing` relates the end of each
wait to the start of its attempt, through stages, pauses and retries. From them
follow `NativeSendsWhenAsked` and `SilenceEnds`; from the invariant and `ValidatedIsAllowed` (what `validate`
accepts is where the operator allows the destination to be) follows
`AttemptsStayAllowed`, for every set of targets and resolver answers.

**`WorkerProofs`** - `AnswersAreOwn` and `WorkersAreReaped`. `OwnAnswer` is not
inductive: it says nothing of what is in the pipes. `Owned` adds that whatever is
in the pipes of the current worker belongs to the one inspection that waits,
`Threaded` that a thread which may still use that worker is that inspection's.
`InOrder` counts: a worker is spawned for each failed inspection and for no other
reason, so there is always a fresh one, whose pipes are empty.

**`IsolatedProofs`** - `ChildrenAreReaped` and `AnswersAreLostTwoWays`. `NoOrphans` speaks of ended requests;
`Escalated` adds that the second join waits only for a child that is gone or is
being killed. The cleanup is the same for all that leads to it (`FinallyIsTidy`).
`AnswerInv` says that open descriptors differ, so that the thread of a request
that still waits for it reads that request's own pipe, and that such a thread
reports an end of file only when all that was written has been read.

### 4.1 What is only model-checked

* Liveness (`EveryRequestEnds`, `ExpiredMappingsLeave`, `SlotsComeBack`,
  `CallsEnd`, `InspectionsEnd`, `EveryInspectionEnds`): liveness under fairness
  needs `ENABLED`, which the prover does not handle.
* `NothingPrivateLeaves`: it depends on what the grammars of the two protocols
  admit at each place, and what a shape accepts is a recursive definition.
  `FoundIsReplaced` is the part of it that does not.
* The second part of `EachCallIsWhole` (no placeholder is left in a call),
  `StructureIsAuthored` and `CallsStayLocal`: they compare
  texts that were read, cut and joined by folds (patches, commands, patterns), by
  induction over data.

## 5. Plan

Done: the core and its proofs; policy; lifecycle; transport with its egress
checks; worker; streams; text; isolated inspection; the agent exchange
(contracts, tool calls, buffered answers, SSE frames); the proofs of the
transport, the worker and the isolated inspection; the proofs of the streams, of
the text inspection, of the server-sent events, of the replayed history, and of
the exchange (its history, its frames, its requests and its answers).
Sessions and keys were planned
and dropped: nothing in the running gateway adds or revokes a key (section 1.3).

What is left, in this order:

1. Composition of the agent route with the vault: `AgentLifecycle`'s prepare and
   stream steps over the minting and the lookups of `RestorationPipeline`, with
   an erasure between a request and its streamed answer.
2. The streamed calls of `StreamRestoration` with the outcome of `ToolCalls` in
   place of a choice.
3. Check digits of the recognizers against reference definitions.
