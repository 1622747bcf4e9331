# EventAtlas: a TLA+ model

EventAtlas is one Go process. It discovers what a NATS JetStream broker declares
(streams, subjects, consumers), keeps the last reconciled graph, receives OTLP traces, keeps
aggregates of what services were observed to do with destinations, and serves the join
of the two at `GET /api/v1/topology`. The specifications here model the parts of
it that decide, wait, fail and overlap; all definitions are translated from the Go source
(non-test files under `src/internal` and `src/cmd`).

Run any check from this directory: `tlc -config <cfg> <module>` for the runs
and `tlapm <module>.tla` for the proofs. `PROJECT.json` maps each definition to its lines
of source and lists the runs, the mutants, the hazards and the theorems.

## 1. The system

| Component | State it keeps | Operations | Interacts with | What is hard |
|---|---|---|---|---|
| NATS discovery (`discovery/nats`) | none between calls | `Discover`: list the streams, then open each and list its consumers, each list page by page; build nodes and edges | the broker; called by a refresh | The broker changes between the requests, which moves the rest of a list; any of them can fail. |
| Reconciliation (`application/reconciliation.go`, value types in `topology`) | none | `reconcileSnapshots`, `NewTopologySnapshot` | called by a refresh | Partial and full snapshots, clocks that are set back, edges that lose a node. |
| Refresh (`topology_service.go`, `periodic_refresh.go`, `main.go` `loadInitialTopology`) | where the attempt is, what it read, the ticker's channel | initial load, `Refresh`, `Run` | provider, store, signal | Three calls that are not atomic; timeouts, in-doubt writes, restarts. |
| Topology stores (`storage/postgres`, `storage/memory`) | the latest snapshot | `Replace`, `Current` | refreshes of any process, API requests | Row locks and isolation levels; calls whose client has given up. |
| Observation stores (the same two) | an aggregate for each identity | `UpsertBatch`, `ListActive` | OTLP handlers, API requests | Batches that lock rows in any order, deadlocks, partial failure. |
| OTLP receiver (`observation/otel/http_receiver.go`) | none | `ServeHTTP` | exporters, normalizer, store | Timeouts against late answers, retries of what was already recorded. |
| Span normalizer (`observation/otel/normalizer.go`) | the result of one call | `Normalize` | called by the receiver | The order of some ten checks, 64-bit time stamps, cancellation. |
| Topology view (`topology_view_projector.go`, `topology_view_service.go`) | the last successful view | `Current` | both stores; concurrent API requests | Three reads that are not atomic; slow requests finishing in any order. |
| HTTP runtime (`cmd/eventatlas/http_runtime.go`, end of `run`) | listeners, goroutines, one result channel | `runHTTPServers`, shutdown | the refresher, the stores | Failures that coincide with the signal; the budget running out; requests that still use the pool that is being closed. |
| Migrations (`postgres/migrations.go`) | the schema and its registry | `Migrate` | other replicas that start | Concurrent starts of different releases, interrupted anywhere. |
| Start (`config.go`, `stores.go`, `otlp.go`, `topology_view.go`, `main.go`) | the configuration, what is open and deferred | `loadConfig`, `run` up to `runHTTPServers` | environment, database, broker, signal | Sixteen variables against a dozen constructors; failures half way; silence of the other side. |
| API (`api`) | none | JSON conversion, documentation pages | the view service | Sequential; see section 7. |

A refresh calls the provider, then the store, reconciles, and calls the store again.
Handlers of OTLP requests call the normalizer, then the observation store. API
requests call the topology store, read the clock and call the observation store. They share
nothing but the stores, the kept view (under a mutex), and the context of the process.

What makes each of them correct:

- *Refresh*: a refresh is one observation of the broker or nothing; the graph in the store
  can always be reconciled with the next one, also when several processes write it; evidence is never
  narrowed and claims no sighting that never was; once started there is always a graph to serve;
  failures do not end the schedule.
- *Stores*: concurrent calls have the effect of calls one after the other, all or nothing; nobody waits for ever;
  what was given up does not overwrite what came later.
- *Ingestion*: acknowledged facts stay recorded; late and repeated ones do no harm but to the count; a body
  is taken as a whole or refused.
- *View*: every projection is accepted, exact and as fresh as its request; what was readable stays so.
- *Discovery*: a full snapshot has nothing that never was, and all that was there throughout as long as no list of the broker is longer
  than a page; of longer lists it misses no more than was deleted meanwhile.
- *Runtime and start*: an accepted configuration is usable, everything ends, stores are closed last, no start fails
  another one, nothing stays open.

## 2. The modules

| Module | Models | Its state and actions in the code |
|---|---|---|
| `Reconciliation` | `topology`, `reconciliation.go` | Operators only: what constructors accept (`SnapshotAccepted`, `EdgeBuilds`) and what `reconcileSnapshots` returns (`Reconciled`) or refuses (`ReconcileAccepts`). |
| `DeclaredGraphs` | `normalize.go` as the refresh sees it | What a broker can declare and the snapshots a provider makes of it: the inputs of both specifications of a refresh, with the assumptions on them. |
| `DeclaredTopology` | abstract | The known edges and their ranges, changed by whole observations. |
| `TopologyRefresh` | refresh and process life | `pc` is the call the process is about to make: `load`, `discover`, `current`, `replace`, or `wait` in the select of `Run`, or `down`. `incoming` and `current` are the local variables of `Refresh`; `store` is the store; `persisted`, `started`, `tick`, `cancelled` are the variables and channels of `main.go` and `Run`. Every call has a succeeding and a failing action. |
| `OverlappingRefreshes` | refreshes of several processes | `Refresh` call by call (`at`, `incoming`) over an instance of `TopologyRegister`, so that what a refresh asked for takes effect late, after its caller gave up, or between the calls of another process. |
| `EvidenceHistory` | | `TopologyRefresh` with a history variable, for one property. |
| `NatsDiscovery` | `discovery/nats` | `at` is the request that comes next, `offset` where its page begins, `opened` the stream that is open, `found` the streams read so far, `pending` those whose consumers were not listed yet, `twice` what `ErrStreamDuplicate` and `ErrConsumerDuplicate` will find. `during` and `gone` are history: the states the broker had, and what was deleted from each list. The broker creates, updates and deletes streams and consumers at any time. `NodesOf`/`EdgesOf` are `normalize`. |
| `TopologyRegister` | abstract; memory store | A value that calls replace and read at one instant each, and may do so after their caller was told that they failed. |
| `PostgresTopologyStore` | `postgres/topology_store.go`, `mapping.go` | One action per statement of `Replace` (READ COMMITTED) and `Current` (REPEATABLE READ); `tx[w].target` is the row version a `DELETE` waits for, `tables.by` the transaction that inserted the committed row. |
| `ObservationAggregate` | `observation/aggregate.go` | `Add`, `NewAggregate`, `Active`. |
| `ObservationStore` | abstract; memory store | `UpsertBatch` as one step. |
| `PostgresObservationStore` | `postgres/observation_store.go` | One action per upserted fact, with the row locks it takes; commit, rollback, deadlock victim. Instants are nanoseconds, a row keeps microseconds (`Stored`); `ListActive` is an operator, being one statement. |
| `RequestBody` | `http_receiver.go`, `readRequestBody` | Operators only: the checks of the headers, the limit on the wire and on the payload, the byte more that is read to tell them apart, the width of the counter. |
| `OtlpIngest` | `http_receiver.go`, `observation_service.go` | Exporters (`phase`, `sent`) and one handler for each attempt, which outlives the wait of its exporter; composed with `ObservationStore` and `RequestBody`. |
| `SpanNormalizer` | `otel/normalizer.go` | A state machine over the spans of a request (`next`, `result`); `Checks` is the sequence of checks of `normalizeSpan`. |
| `TopologyProjection` | `topology_view_projector.go`, `topology_view.go` | `Projected` is `Project`, `ProjectionAccepted` is `NewTopologyView`. Extends `Reconciliation` and `ObservationAggregate`. |
| `TopologyViewService` | `topology_view_service.go`, `api.go` | Calls of `Current` read the snapshot, the clock and the observations in three steps, then keep their view or fall back to the kept one. |
| `Startup` | `config.go`, `stores.go`, `otlp.go`, `topology_view.go`, `main.go` | `stage` is what `run` is about to do; `config` is what `loadConfig` made of `env`; `open` and `deferred` are the resources and the deferred calls that close them. Each constructor's demands are an operator. |
| `HttpRuntime` | `http_runtime.go`, the end of `run` | `main` is where `runHTTPServers` is; each server has a Serve and a Shutdown goroutine; `results` is the channel; `querying` are the requests that hold a connection of the pool, which the deferred `Close` of the stores waits for. |
| `Migrations` | `postgres/migrations.go` | One action per statement of `Migrate`; the advisory lock; processes with different sets of files. |
| `MC...` | | Finite instances of the module they are named after. |
| `...Proofs` | | Theorems, section 6. |

Abstract specifications and the modules that implement them:
`TopologyRefresh` ⟹ `DeclaredTopology`, `PostgresTopologyStore` ⟹ `TopologyRegister`,
`PostgresObservationStore` ⟹ `ObservationStore`.

How they compose: `OverlappingRefreshes` uses the register that `PostgresTopologyStore` implements, and
`OtlpIngest` the store that `PostgresObservationStore` implements. `TopologyRefresh` takes a call of
the provider as one observation of one broker state; `NatsDiscovery` is what goes on inside, and its theorem
`ProviderQualifies` is what the refresh assumes of a provider's graphs. `Startup` ends where the servers begin,
`HttpRuntime` begins there.

## 3. The runs

Each property of a passing run has a mutant in `PROJECT.json`: a plausible bug in one mapped definition
for which TLC finds the property violated. The mutants stand in the modules
before the definition they replace, and nothing else uses them.

**`refresh`** — *What do failures between the three calls of a refresh do, and does the schedule survive them?* A broker with
four possible graphs, full and partial reports, two instants in any order, two
broker changes, two faults (failed calls or crashes), one SIGTERM, a durable store.
`TypeOK`, `ServesATopology`, `EvidenceNeverNarrows`, `CompletenessDecidesWhatStays`,
`ImplementsDeclared`, the refinement, and `EventuallyMirrors`. A discovery is one observation here, of any of the graphs: what is checked is the side that reads,
reconciles and writes; what the broker does during a discovery is left to `discovery`. Two faults are enough for an in-doubt write that is followed by a crash or
by a failed retry; two changes for an edge that goes and comes back. The memory store
(`Durable = FALSE`) differs in what survives a crash and has no in-doubt writes; the theorems hold for both.

**`first_seen`** — a disagreement of a comment with the code, section 5.

**`overlapping_refreshes`** — *What do refreshes of two processes, and writes that come late, do to each other?* Two processes, three
refreshes in all, one broker change, full and partial reports, one refresh that fails or dies.
`ReconciliationNeverFails`, `RangesAreSighted`, `SuccessIsNotUndone`. Three refreshes are needed for a write that was given up to
come between the read and the write of the next refresh of its process while another process writes as well. A
later write of one process may undo that of another (both are full observations, and the next refresh repairs
it); what may not happen is that they lock each other out or make up a sighting.

**`discovery`** — *What does a full snapshot mean if the broker changes while it is taken?* Up to three streams, two subjects,
up to five consumers of a stream, pages of two entries, two changes, one failed request; discoveries follow each other. The broker is at first one of four
(`MCBrokers`): all lists on one page, a second page of streams, a second page of consumers, or nothing.
`NothingInvented`, `AbsenceIsRealOnOnePage`, `MissesNoMoreThanWasDeleted`, `EventuallyExact`. Two changes let a stream be deleted and created again, with another
subject, between two requests of one discovery. nats.go asks for the next page from the number of entries it
has, so what is deleted before that moves an entry that stayed out of the next page, and what is created there brings one twice. A consumer is
missed after one deletion; a stream only if the deleted one is created again before it
is opened, since the discovery fails otherwise, hence again two changes. A deletion and a creation can also hide each other, which a list of four with a fifth name shows:
an entry comes twice and another one is missed, and the check for duplicates fails the discovery. A page has 256 entries in nats.go; what matters
is whether a change comes before, in or after the page, which two entries tell apart, and the theorems hold for pages and lists of any size. A snapshot that the
constructor refused would leave `Finish` without a step, and `EventuallyExact` violated; `ProviderQualifies` (section 6) proves that there is none.
The types of `Reconciliation` are not used here, hence its empty `NodeId` and `EdgeKey`.

**`pg_topology`** — *Are concurrent `Replace` and `Current` transactions atomic?* Three calls of
`Replace` of two snapshots, one reader that reads again and again, two calls that fail or are given up. Three are needed
for two of them to delete the row of the first. `ImplementsRegister`: a transaction left behind by a client that
gave up takes effect before any later one or never. `NoCircleOfWaits`: they wait for each other at their `DELETE` and at their `INSERT`, and
never in a circle, though PostgreSQL would notice one and fail a call. So a call that waits waits for one that can go on, and no longer than until it ends or is given up
(`periodic_refresh.go:73`). The calls and the snapshots are interchangeable (symmetry; neither property is a liveness property).

**`pg_observations`** — *Are concurrent batches atomic, do all end, and what do microseconds cost?* Three writers, five batches in all, over two rows in
both orders and with a row twice in one batch; one failure; two instants to a microsecond. `ImplementsStore`, `EveryCallReturns`, `ListsTheActive`,
`MetadataOfTheLatest`. Two writers can deadlock over two rows; the third meets what the victim leaves.

**`otlp_ingest`** — *What is a 200 worth?* Two exporters with up to three attempts each, two faults
(timeouts, bodies cut off, failed writes, crashes), batches that share identities, bodies as long as the limit and longer, compressed,
broken, empty and such that the database refuses them. `AckedIsRecorded`, `CountIsBetween`, `EventuallyAcked`. A body that is cut off is
answered 400, which ends the sending; `EventuallyAcked` promises nothing of it. Nor does the run object to a refused batch that is sent again and again, only to any part of it being recorded. More attempts than faults, so that a retry is never cut off by its bound.
`MaxCount` is 4, so that repeated deliveries reach the largest count; the larger limit is `MaxInt64`, where one byte more would wrap.

**`view`** — *What does a response show if everything changes while it is put together?* Two concurrent requests,
two snapshots of which the second makes a name ambiguous, two ingested facts of
two identities, two readings of the clock in any order, a retention of 1. `ProjectionNeverFails`, `ProjectionIsExact`, `ShowsWhatWasKnown`,
`StaysReadable`, `NotFoundIsTrue`, `FallbackNeverGoesBack`. The requests are interchangeable.

**`normalize`** — *Does the order of the checks hold for every span?* All requests of one span that
differs from a good one in up to two fields, and of two of which the first differs in at most one,
cancelled at any span; `uint64` nanoseconds as words of three bits, so that 4 to 7 do not
fit the signed type. `ForeignSpansAreNotRejected`, `FactsAreDated`, `MetadataIsHonest`.
Each check looks at one or two fields, so two variations reach each pair of failing checks.

**`startup`** — *Which starts fail, and what do they leave?* All environments in which at most two of the sixteen variables are set, each to
a text of six classes; a database and a broker that answer, fail or keep silent; a signal at any time.
`AcceptedIsUsable`, `NothingLeaks`, `EveryStartDecides`. Each demand of a constructor is about one variable, so two at a time reach each pair of demands.

**`http_runtime`** — *Does every way to stop end, in order, with the right error?* Two servers, a request each, which may
hold a connection of the pool, every failure at every point. Closing the pool waits for the connections, so the process ends only because `server.Close` cancels
the contexts of the requests that outlast the budget. `StoresOutliveTheirUsers`, `ErrorsTellTheTruth`, `CancellationEndsTheProcess`.

**`migrations`** — *May replicas of different releases start at once?* Two processes with two migrations, one
with the first only, two interruptions. `SchemaIsRegistered`, `NoStarterFailsAnother`, `EveryStartEnds`.
Three, so that one waits for the lock behind one that waits. Two interruptions fail a start and its restart.

The type invariants of the other modules with variables hold on the same instances; those of `OverlappingRefreshes`,
`PostgresTopologyStore`, `NatsDiscovery`, `Migrations`, `TopologyViewService`, `PostgresObservationStore` (`TableTypeOK`) and
`OtlpIngest` are proved.

Deadlock is checked except where the modelled calls may all be over: `otlp_ingest`, `pg_observations`, `normalize`,
`overlapping_refreshes`, `startup`, `http_runtime`, `migrations`.

## 4. Fairness

No property assumes that a call succeeds unless it is stated here, only that it comes to an end.

- *Refresh* (`TopologyRefresh!Fairness`): load and attempt steps are weakly fair because
  each call has a context with a timeout (`main.go:161-180`, `periodic_refresh.go:73-75`); the
  ticker is a runtime timer; `Stop` is strongly fair because a `select` with two ready channels picks one
  of them at random, so it does not pass over `ctx.Done()` for ever. `BrokerChanges`, `Cancel`, `Crash` and
  `Start` are never forced; `EventuallyMirrors` is about a process that stays up. Failures are bounded by `MaxFaults`: the
  property is about what happens after the last one.
- *Discovery*: the requests are answered, and a process begins one discovery after the other, as the refresh schedule does. The broker settles
  because its changes are bounded; on one that never settles nothing is promised.
- *PostgreSQL observations*: a statement that is not blocked returns, an open transaction ends, a deadlock is
  detected. Nothing is assumed about who wins.
- *OTLP*: as long as there are handlers some handler runs, and as long as there are exporters that may send some exporter does; neither a particular one. Exporters
  retry 503, 504 and lost connections as the OTLP specification asks. Timeouts, crashes and failures are bounded by `MaxFaults`, not excluded.
- *Start*: what `run` does without waiting happens; a call with a deadline ends when the deadline has passed, at the latest
  (`stores.go:25`, `main.go:165`, `main.go:175`); the memory store answers. The database and the broker need not answer, nor does a signal come.
- *HTTP*: goroutines run and the budget expires (it is a timer). Requests need not end by themselves. `Serve`
  returns once its server was shut down, as `net/http` documents; after `server.Close` the contexts of its requests are cancelled, and a query whose context is cancelled
  gives its connection back (`s \in aborted /\ QueryEnds(s)`).
- *Migrations*: as for PostgreSQL; PostgreSQL queues the waiters for the advisory lock, hence strong fairness of `Lock`.

## 5. Where a comment and the code disagree

- `first_seen`: "FirstSeen returns when EventAtlas first learned this evidence" (`topology/evidence.go:86`).
  `reconcileEdges` keeps the history of an edge only as long as every full snapshot has it
  (`reconciliation.go:101-112`). An edge that one full refresh misses restarts with a later `firstSeen`.

Met while modelling, and built into the models as the code has it rather than shown by a run of their own:

- "TopologySnapshot is an immutable, point-in-time declared topology result" (`topology/topology_snapshot.go:100`): a
  discovery reads streams and consumers with separate requests, so a snapshot can mix states. `NothingInvented` says what does hold.
- "SnapshotCompleteness describes whether absence can be used for reconciliation" (`topology/topology_snapshot.go:68`), and
  full snapshots "define the complete graph" (`reconciliation.go:30`). What `lister.Info()` yields is taken as the whole list (`client.go:46`, `client.go:81`)
  and the snapshot is declared full (`normalize.go:202`), but the pages behind it need not add up to one: of a list of more than 256 entries, one that stayed
  is skipped if one before it is deleted between two pages. The next refresh sees it again, with evidence that begins anew. `AbsenceIsReal`, checked as an invariant
  of `discovery`, gives the trace; `AbsenceIsRealOnOnePage` and `MissesNoMoreThanWasDeleted` say what does hold.
- In PostgreSQL a fact that is older than another one by less than a microsecond replaces its metadata, in the memory store it
  does not. `MetadataOfTheLatest` is stated with that precision.
- A batch that the database can never store is answered 503, "temporarily unable", and sent again until the exporter gives up.
- A snapshot that reports an edge again keeps of its earlier evidence only what is of a source system the incoming edge has as well (`reconciliation.go:139-171`).

## 6. What is proved

`tlapm` checks the theorems of the eight modules `...Proofs` to the last leaf, for every value of the constants: any brokers,
graphs, times, kinds of store, environments, releases, lists of servers, and numbers of processes, calls, changes and faults.

Assumptions on the constants, each named in its module: instants are naturals (`TimeAssumption`), edge keys are triples
(`EdgeKeyAssumption`), `NoSnapshot` is no snapshot, the configuration is well typed (`SourceAssumption`,
`ConfigurationAssumption`), bounds are naturals (`BoundsAssumption`, `StoreAssumption`, `DiscoveryAssumption`), the names of streams and consumers are finitely many and stand for
their place in the order of listing, and a page has at least one entry (the same), the first state of the broker has streams and consumers of these names (`BrokersAssumption`), a broker declares graphs that pass the constructors
(`GraphAssumption`), an identity fixes the kind and the broker of its node (`IdentityAssumption`: `identity.go` hashes the
kind into the identity), there is at least one server (`ServersAssumption`), environments give each variable a text of one of six
classes (`EnvironmentAssumption`), and each process embeds a finite sequence of distinct migrations
(`MigrationsAssumption`). Of the observations: instants are positive and the largest count is (`AggregateAssumption`); a microsecond is
some positive number of instants, and truncating to it gives an instant (`PrecisionAssumption`); requests and calls carry finite sequences of facts
(`IngestAssumption`, `CallAssumption`; the exporters are finitely many, or their sum has no meaning), and configured limits are positive and at most `MaxInt64`
(`LimitAssumption`, `config.go`); time stamps are words (`WidthAssumption`, `TraceAssumption`), and the two sources of an environment are
distinct from the classes of texts (`ValueAssumption`). Of the view: the sort visits each aggregate
(`ProjectionAssumption`), different services have different node identities, being hashes (the same),
and stored snapshots pass the constructor and call what has the identity of an observed service a service (`ReadPathAssumption`:
the identity has a prefix of its own, `topology_view_projector.go:345-354`); `NoView` is no view (`NoViewAssumption`). Without `IdentityAssumption` the pipeline can lock itself out: a partial snapshot that changes the kind
of a node makes kept edges invalid, for good.

**Operators and graphs** (`ReconciliationProofs`): what type `Reconciled` has (`ReconciledType`), facts about
ranges, and `ReconcileNeverFails`: two valid snapshots of one source and scope can be reconciled if the incoming
one is full or if both agree on the kind and the broker of the nodes they share. `ReconciledAgain`: reconciling the
result with the same incoming snapshot once more changes nothing, `Reconciled(Reconciled(c, i), i) = Reconciled(c, i)`.
`ReconciledGenuine`: a snapshot is *genuine* if it passes the constructors, has the configured source and scope, agrees with every graph on
what its nodes are, and has evidence of one source system; what a provider discovers is genuine, and reconciling it with something
genuine succeeds and gives something genuine. Both refresh specifications rest on it.

**Refresh** (`TopologyRefreshProofs`): `TypeCorrect` (`TypeOK`), `NeverLockedOut` (`ReconciliationNeverFails`, of one process; `overlapping_refreshes` checks it of several), `AlwaysServesATopology`
(`ServesATopology`), `EvidenceNeverNarrowed`
(`EvidenceNeverNarrows`), `CompletenessDecides` (`CompletenessDecidesWhatStays`), `Refinement` (`Spec => ImplementsDeclared`). None is inductive by itself; `IInv` is `TypeOK` with

- `StoreInv`: what is stored is genuine. This is what makes the next reconciliation succeed.
- `AttemptInv`: `incoming` is a snapshot of a graph of the broker, though not of the present one.
- `BasisInv`: before `Replace`, `current` still is what is stored; one process writes at a time. Hence
  the refinement: what is written is one observation of what is known *then*.
- `StartInv`: a process that has started, or has loaded a snapshot, has one in its store.

For the refinement, a step that writes maps to `Observe`, a crash of a volatile store to `Forget`, everything else to a stutter.

**Overlapping refreshes** (`OverlappingRefreshesProofs`): `TypeCorrect`, `NeverLockedOut`, `NothingUnseenIsClaimed`
(`RangesAreSighted`), `SuccessStands` (`SuccessIsNotUndone`). `BasisInv` is false here; in its place `ContentInv` says of every snapshot
that is stored, asked for or read that it is genuine and that its ranges end at instants at which its edges were discovered, which survives whatever is
reconciled with whatever. `SequenceInv` says that the refreshes of a process do not overlap; `OrderInv`, that therefore every call of `Replace`
counts the earlier calls of its process among those that had returned, so that the register lets none of them take effect after it.

**PostgreSQL topology store** (`PostgresTopologyStoreProofs`): `TypeCorrect`, `Refinement` (`Spec => ImplementsRegister`) and `NobodyWaitsInACircle` (`NoCircleOfWaits`, from
`DeletedInv`: before the end of its `DELETE` a transaction has deleted nothing; so of several calls the one that got furthest waits for none of the others). The
hard step of the refinement is `COMMIT`, which must be an `Apply` that no later call has superseded. `ExclusionInv`: of two calls of which one began when the
other had ended, once the later one is past its `INSERT` the earlier one holds no inserted row, because it would hold the primary
key that the later one waits for. `ReadInv`: what a reader has is part of what its transaction can see.

**NATS discovery** (`NatsDiscoveryProofs`): `TypeCorrect`, `NothingIsInvented` (`NothingInvented`), `OnePageIsEnough`
(`AbsenceIsRealOnOnePage`) and `MissesAreBounded` (`MissesNoMoreThanWasDeleted`), for pages and lists of any size. The invariant says where each part of what was found comes from:
each stream with its subjects, and each consumer, from some state during the discovery (`Sighted`); if all lists stayed within a page, all streams with their subjects
from one state (`AtOnce`). What makes misses countable is `PageInv`: as long as nothing came twice, the offset of the next page is the number of entries found, and those found
that the broker does not have any more were deleted. So when the last page says that the offset has reached the number of entries, what stayed and was not
found is no more than what was found and deleted (lemma `Balance`); `Complete` keeps that of each list that was read. `ProviderQualifies`: whatever was found, the snapshot passes the
constructors, and any two snapshots agree on what their nodes are. It discharges, for this provider, what `GraphAssumption` and
`IdentityAssumption` ask of the graphs of the refresh.

**HTTP runtime** (`ProcessProofs`): `StoresCloseLast` (`StoresOutliveTheirUsers`) and `ExitStatusIsTrue` (`ErrorsTellTheTruth`). The
collection of results is a barrier because of a count (`CountInv`): results received and waiting are as many as there are servers that stopped, so
as many as there are servers only if all stopped. `ShutdownInv` relates the errors to the servers that had to be closed by force.

**Start** (`ProcessProofs`): `ConfigIsUsable` (`AcceptedIsUsable`) and `EverythingIsClosed` (`NothingLeaks`). `ConfigInv`: what is not read
from the environment any more was accepted, so that every constructor accepts it. `ResourceInv`: at each stage what is deferred is what is open, in
the order in which it was opened.

**Migrations** (`ProcessProofs`): `MigrateTypeCorrect`, `RegisteredAlways` (`SchemaIsRegistered`), `StartersCoexist` (`NoStarterFailsAnother`).
The schema can be what the registry says only if what a transaction found missing is still missing when it commits, which
no state of the schema alone tells. The invariant adds `Exclusion` (a transaction is past its first statement exactly if it
holds the lock) and, for each transaction, `Progress`: the migration it is about to run is in neither the registry nor
its own records, what it has run is what it has recorded except for the one it is at, and appending that to
the schema runs nothing twice. The commit of one process keeps `Progress` of the others because, by
`Exclusion`, they have not looked at the registry yet.

**PostgreSQL observation store** (`ObservationProofs`): `TableTypeCorrect`, `ListsTheActiveAlways` (`ListsTheActive`),
`MetadataOfTheLatestAlways` (`MetadataOfTheLatest`) and `PostgresImplementsStore` (`TableSpec => ImplementsStore`). Statements of concurrent batches
interleave, so no state of the table alone tells what a transaction has done. `HoldsInv` says it: a transaction holds the lock of each row that
it has written, and *of any rows that agree with its own on those* its facts so far make what
it has made. Other transactions write other rows only, so this survives their commits, and at its own commit the facts are the whole batch and
the rows are the committed ones, which is one `UpsertBatch`. `RowsInv`: a row *reflects* the committed facts of its
identity: none is later than the end of its range, and its end and its metadata are those of one of them.

**Delivery** (`ObservationProofs`): `IngestTypeCorrect`, `AckedIsRecordedAlways` (`AckedIsRecorded`) and `CountIsBetweenAlways` (`CountIsBetween`).
`IngestInv`: a handler that records has taken the whole body (`TakenWhole`: by the byte that is read beyond the limit), and one that is about to answer 200 has its facts in
the store. `DeliveryInv` adds the two bounds of the counts in a form that steps preserve: below, exporters count as *settled* from the moment a handler decides to answer 200, not when
the answer arrives; above, an attempt counts once it is past the store (`Over`), not once it is sent. It rests on lemmas on sums over finite sets (`SumWithout`,
`SumGrows`, `SumOfMore`) and on `BatchCounts`: a batch adds to a count the number of its facts with that identity, up to the largest count.

**Normalization** (`ObservationProofs`): `ForeignSpansAreNotRejectedAlways`, `FactsAreDatedAlways`, `MetadataIsHonestAlways` (the three properties of `normalize`), for
requests and time stamps of any length. `NormalizeInv`: the facts so far are those of the accepted spans so far, in their order.

**Topology view** (`TopologyViewServiceProofs`): `TypeCorrect`, `ProjectionNeverFailsAlways`, `ShowsWhatWasKnownAlways`, `ProjectionIsExactAlways`,
`StaysReadableAlways`, `NotFoundIsTrueAlways`, `FallbackNeverGoesBackAlways`, that is each property of `view`. `IInv` says of each call in
flight what the reads it has done still mean (`Sound`): its snapshot is not older than what was known at its start, what it knew
of the observations is covered by what is stored now (`Grown`), its view shows what it knew, and a view that it returned is not newer than the kept one.
`ProjectionIsExact` is about a fold over the aggregates in their order; its lemmas say of each prefix of the order what the evidence of an edge is made of.

Inductions over data (the facts of a batch, the aggregates of a projection, the elements of a finite set) are proofs by a least counterexample
(`LeastNumber`, `FiniteSetsByInduction`), because the library's theorems of induction have an operator as a parameter, which the
provers cannot instantiate. The functions they are about are recursive functions, whose existence is proved the same way (`RunExists`, `SumExists`).

Only model-checked: liveness (`EventuallyMirrors`, `EveryCallReturns`, `EventuallyAcked`, `EventuallyExact`, `EveryStartDecides`,
`CancellationEndsTheProcess`, `EveryStartEnds`), which the provers cannot reach under fairness, and the absence of deadlocks of the model. Each safety
property of a passing run is a theorem.

## 7. What is not modelled

- JSON rendering, documentation pages, packaging and dashboards: sequential or output only. Of the configuration, what a text parses to is
  one of six classes, not its value.
- Metadata of facts beyond one value each (but for what `MetadataIsHonest` is about); filters, attributes and counts of consumers; the order of lists.
- Blank names, which the broker does not report, and the constructors of value types that reject them; the models take
  identities and names as given.
- Lost updates between two processes: `OverlappingRefreshes` lets one process overwrite what another one has just written; that the next
  refresh makes up for it is `EventuallyMirrors` of one process only.
- Several source systems for one edge, and a source whose providers report partial snapshots of different scopes: the
  only provider reports full snapshots of one system. The refresh specifications nevertheless include partial ones.
- Expired observations, which nothing deletes: growth without bound is not a property of a bounded model.
- The NATS provider gives destinations no logical name; the projector handles them, and so does its model.

## 8. The plan

In the order in which the parts matter to the users of the graph. Done: `Reconciliation`,
`TopologyRefresh` with `DeclaredTopology`; the observation path (`ObservationAggregate`,
`ObservationStore`, `PostgresObservationStore`, `RequestBody`, `OtlpIngest`); the topology store
(`TopologyRegister`, `PostgresTopologyStore`) and the refreshes that overlap on it (`OverlappingRefreshes`); the read path
(`TopologyProjection`, `TopologyViewService`); `SpanNormalizer`, `Startup`, `HttpRuntime`, `NatsDiscovery`, `Migrations`; the theorems of section 6.

Next:

1. Replace the atomic `Discover` of `TopologyRefresh` by the mixture of broker states that `NatsDiscovery` allows
   (`Sighted` in `NatsDiscoveryProofs`), and state `ImplementsDeclared` for observations over an interval.
2. Theorems about what concurrent stores do to the order of facts: the range and the count of `WithBatch` do not depend on the order of the facts, only the
   metadata of facts of one instant do.
3. A refinement from `OverlappingRefreshes` to observations of several processes, which needs (1).
