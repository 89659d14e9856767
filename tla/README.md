# Verification of MeshKit

MeshKit is the Go library behind Meshery: messaging, a registry of models and components, generation of
that registry from packages and spreadsheets, Kubernetes helpers, and small command-line utilities. This
directory holds TLA+ models of its concurrent and stateful parts, the TLC configurations that check them on
small instances, and proofs, checked by TLAPS, of what holds for every instance. Every definition is
translated from the Go source; `PROJECT.json` names the lines for each.

Contents: 1 inventory · 2 modules and how they correspond to the code · 3 runs and bounds · 4 fairness ·
5 proofs · 6 what is only model-checked · 7 disagreements found · 8 what is not modelled · 9 plan

## 1. Inventory

| Component | State it keeps | Operations | Interacts with | What is hard about it | What makes it correct |
|---|---|---|---|---|---|
| In-process broker, `broker/channel` | map subject → queue → buffered channel under an RWMutex; one delivery goroutine per subscription | Publish, PublishWithChannel, SubscribeWithChannel, Unsubscribe, CloseConnection | publishers, subscribers' channels | a blocking send under the read lock against closing; several consumers of one queue; timeouts | no send on a closed channel, exactly-once in publisher order, truthful error, calls return |
| NATS handler, `broker/nats` | connection, subscriptions per subject, one wait group | the same interface over NATS | NATS client callbacks | auto-unsubscribe after subscribing, the shared wait group, an Unsubscribe in between | a call waits for its own message, every subscription can be undone |
| Broadcaster and event streamer, `utils/broadcast`, `utils/events` | set of subscriber channels owned by a goroutine, or a list under a mutex | Register, Unregister, Submit, Close; Subscribe, Publish, Unsubscribe | callers' channels | unbuffered channels in both directions; a goroutine per message | no deadlock with readers that keep reading, no delivery after leaving |
| Generation, `registry/model.go` | semaphore, wait groups, a worker and a generation goroutine per model, per-model timeout, done channels, progress counters, tracker, Artifact Hub rate limit, spreadsheet channel, directories on disk | InvokeGenerationFromSheetWithOptions, GenerateDefsForCoreRegistrant, RateLimitArtifactHub | sheets, network, files, the spreadsheet goroutine | goroutines that outlive their timeout, closing a shared channel, crash between two files | summary adds up, successful models are complete and published, the call returns, rate respected |
| Sheet parser, `utils/csv` | two channels of one place, a context that Parse cancels | Parse, and its callers' select loops | ComponentSheet, RelationshipSheet | cancellation races the last row; errors and rows on different channels | parsing ends; what may be lost is bounded |
| Components tab, `registry/component.go`, `spreadsheet_update.go` | batch counters and registrant map that outlive a call, map of known components, the tab | ParseComponentsSheet, ProcessModelToComponentsMap, VerifyandUpdateSpreadsheet | Google Sheets, generation | appends that fail, state of earlier calls, partial parses | nothing is forgotten; nothing is repeated that was seen |
| Relationships tab, `registry/relationship.go` | file-name column, relationship files, collector goroutine | ParseRelationshipsSheet, ProcessRelationships, UpdateRelationshipSheet | Google Sheets, files | row numbers counted while parsing and used later; names made up before they are saved | names reach their rows; files are not shared |
| Registry manager, `models/meshmodel/registry` | hosts, entities and registry rows in a database; memoized reads | RegisterEntity, UpdateEntityStatus, GetRegistrants, GetEntities, GetEntitiesMemoized, Cleanup | database | three writes without a transaction; a memo that nothing invalidates | no entity without its model, no empty answer from the memo |
| Registration, `models/registration` | a packaging unit read from a directory, an error store | Register | registry manager | one of several registrations failing, several callers | every file is accounted for, what is reported can be found |
| Operator and charts, `models/controllers/meshery_operator.go`, `utils/kubernetes/apply-helm-chart.go` | cached status under a mutex; downloads, temporary credential files, releases | GetStatus, Deploy, Undeploy, ApplyHelmChart | Helm, the cluster | check then act over a long call, a status read before an Undeploy and written after it, broken downloads | an operator that was undeployed stays so; no credentials left; whole charts |
| Broker and MeshSync status, `models/controllers` | cached status | GetStatus, GetEndpointForPort, GetBrokerEndpoint, ConnectivityTest | cluster, network | two copies of one search with fallbacks, answers of different times | status and data connection agree |
| Port forwarder, `utils/kubernetes/portforward.go` | stop, done and ready channels, reconnect loop | Start, Stop, run, forwardOnce | Kubernetes API | a tunnel that is never ready, Stop at any time | no goroutine is left per attempt |
| Manifests and services, `utils/kubernetes/apply-manifest.go`, `expose` | objects and services in the cluster | ApplyManifest, Expose | other clients of the cluster | errors that are passed over, a configuration the callback changes | what is reported is in the cluster |
| Schema validator, `schema` | registrations by version, type and asset version; compile cache | New, Register, Validate… | embedded assets | the lock is taken anew for each step; latest registration wins | a document is judged by the schema of its version |
| errorutil, `cmd/errorutil` | next code in `component_info.json`, codes in the Go files | analyze, update | source tree | files and counter are written at different times | codes unique |
| syncmodutil, `cmd/syncmodutil` | go.mod of source and destination | SyncRequire | files | replaces in two forms, of both files, from earlier runs | one replacement per module, a second sync changes nothing |
| File intake, `files`, `utils/kubernetes/kompose` | extraction directories; `~/.meshery/temp.data`, `result.yaml`, `.env`; the logger's exit function | SanitizeFile, IdentifyFile, Convert | kompose | files and a global that all conversions share, `Fatal` in a library, a process killed in between | a manifest is of the file that was given, nothing is left behind |
| Walkers and generators, `utils/walker`, `generators`, `utils/component` | clone, buffered writer, goroutine per directory, wait groups | Walk, GetPackage, GenerateComponents | git, HTTP, Artifact Hub | an unlocked writer, removal of the clone, recursion over goroutines, circular schemas cut in map order | nothing is missed, doubled or read after its removal |

Parts without a state that a property could be about (the thread-safe map, configuration, OCI, logging, tracing,
database, error types, pure conversions) are in `PROJECT.json` with the reason. Its section "hazards" lists what
is hard to test, at its line.

## 2. Modules

| Module | Models | Extends / instantiates |
|---|---|---|
| `Mailboxes` | the abstract promise of a broker queue: bounded FIFO, closed for good | |
| `ChannelBroker` | `broker/channel/channel.go` with the RWMutex's writer priority | instantiates `Mailboxes` |
| `ChannelBroker_proofs` | all its safety properties and the refinement of `Mailboxes`, for every instance | extends `ChannelBroker` |
| `ModelGeneration` | `InvokeGenerationFromSheetWithOptions` and its goroutines | |
| `ModelGeneration_proofs` | its five safety properties, for every instance | extends `ModelGeneration` |
| `SheetParse` | `csv.Parse` and the select loop of its callers | |
| `ComponentSheet` | the Components tab over several calls | extends `SheetParse` |
| `RelationshipSheet` | the Relationships tab over several calls | extends `SheetParse` |
| `Sheets` | either tab, one per behaviour, over one parser | extends `ComponentSheet`, instantiates `RelationshipSheet` |
| `Sheets_proofs` | the safety properties of both tabs, for every instance | extends `Sheets` |
| `NatsBroker` | `broker/nats/nats.go` over a NATS client | |
| `Broadcaster` | `utils/broadcast/broadcaster.go` | |
| `EventStreamer` | `utils/events/event.go` | |
| `Messaging` | NATS handler, broadcaster and event streamer beside one another | extends `NatsBroker`, instantiates the other two |
| `Messaging_proofs` | the safety properties of the three, for every instance | extends `Messaging` |
| `Selections` | what is picked from a sequence, and sequences one after another | |
| `Selections_proofs` | the lemmas on them | extends `Selections` |
| `RegistryManager` | the tables, filters and the memo of `models/meshmodel/registry` | extends `Selections` |
| `Registration` | `models/registration` | extends `RegistryManager` |
| `HelmCharts` | `utils/kubernetes/apply-helm-chart.go` | |
| `Operator` | `models/controllers/meshery_operator.go` | extends `HelmCharts` |
| `ClusterStatus` | `meshery_broker.go`, `meshsync.go`, `helpers.go`, `utils/kubernetes/service.go` | |
| `PortForwarder` | `utils/kubernetes/portforward.go` | |
| `ApplyManifest`, `Expose` | `utils/kubernetes/apply-manifest.go`, `utils/kubernetes/expose` | |
| `SchemaValidator` | `schema/registry.go`, `validator.go`, `compiler.go` | extends `Selections` |
| `ErrorCodes` | `cmd/errorutil` | |
| `ModSync` | `cmd/syncmodutil` | extends `Selections` |
| `FileIntake` | `files/sanitization.go`, `identification.go`, `utils/kubernetes/kompose` | |
| `Sources` | `utils/walker/git.go`, `generators`, `utils/helm`, `utils/component` | extends `Selections` |
| `SchemaRefs` | `clearSchemaRefs` of `utils/component/openapi_generator.go` | |
| `GithubWalk` | `utils/walker/github.go` | extends `Selections` |
| `Library` | the thirteen components that share no state, beside one another | extends `Registration`, `SchemaValidator`, `ModSync`, `Sources`, `SchemaRefs`, `GithubWalk`; instantiates `Operator`, `ClusterStatus`, `PortForwarder`, `ApplyManifest`, `Expose`, `ErrorCodes`, `FileIntake` |
| `Registration_proofs` | inductive invariants of registry and registration | extends `Registration`, `Selections_proofs` |
| `Parts_proofs` | those of validator, module sync, generators, references and GitHub walk | extends these, `Selections_proofs` |
| `Library_proofs` | those of the other components, and the safety properties of all, for every instance | extends `Library`, `Registration_proofs`, `Parts_proofs` |
| `MCLive` | the two components whose liveness is checked together, see section 3 | extends `ModelGeneration`, instantiates `ChannelBroker` |
| `MC…` | the constants of each run | extend the above |

What the code collects in a loop over a list (the definitions of a kind, the requirements in blocks, the documents of the files walked) is
`Those` and `Joined` of `Selections`, recursive functions of how far the loop got, so that their results can be proved something about:
`SelectSeq`, a recursive operator, and the folds of the libraries have no definition a prover could unfold.

**ChannelBroker.** `storage` is `h.storage`; `buf[c]` the contents of channel `c`, `closed` the closed
ones. `readers`, `rqueue`, `writer` are the RWMutex: a writer that waits (`Announce`) parks later readers,
and its unlock lets every parked reader in. Publish is `CallPublish` (lock asked for), `PublishEnter` (the
map is read), one `PublishSend` or `PublishTimeout` per queue in any order, `PublishReturn`. The write-locked
bodies are one action each, since nothing else runs inside them. A delivery goroutine is `Receive`,
`Deliver`, `DeliveryEnd`; the subscriber may stop reading (`StopReading`), observed only when a message waits
for it. `PublishWithChannel` is a forwarder that publishes what its channel yields. Sends on closed channels
and double closes set `panicked`. A buffer of size zero (the code's default is larger) is not modelled, and
a timer fires only while the buffer is full. `Subscribe` and `DeepCopyInto` do nothing in the code;
`ConnectedEndpoints`, `Info`, `IsEmpty` only read.

**ModelGeneration.** `Dispatch` is the loop's `Acquire`, `wg.Add` and the two `go` statements; `Report` and
`Timeout` are the two branches of the worker's select (either may be chosen if both are ready), followed by
the deferred `WorkerDone` and `WorkerRelease` in the order Go runs them. A generation goroutine is `CoreModel`,
`CoreComponent`, `CoreEnd` for meshery's own models, and `NewGenerator`, `LimitLock`, `LimitPass`, `Fetch`,
`WriteModel`, `WriteComponent`, `Send`, `Track` for packages; `Put` fills the one-place `done` channel. Error
returns are alternatives of the step they leave from. `BuildMap`, `HandleRow`, `UpdaterEnd` are the spreadsheet
goroutine; what it does with a row is in `ComponentSheet`, and that Google Sheets answers it is the assumption `SheetsAnswer` (section 4).
A `model.json` that differs from the new one is written again and one that does not is left, which is the same for `disk`. `disk[m]` is the directory of the version upstream
offers; `Restart` begins a new process, keeps only the files, and may find a newer version without a
directory. Model names are taken to differ, and a process makes one call: the tracker and the rate-limit count,
which are package variables, are not carried into a second call of the same process.

**SheetParse** has the parser goroutine (`ReadRow`, `SendRow`, `SendError`, `ParseEnd`, `ParseBreak`,
`SendBroken`) and the caller's select (`TakeRow`, `TakeError`, `TakeDone`). A row is its number; it may be
well-formed or not, and the file may break off anywhere. **ComponentSheet** adds the tab: `HandleData` is one
iteration of `VerifyandUpdateSpreadsheet`, with both batch counters; an append writes all rows or none.
`entriesToBeAddedInModelSheet` is always empty in the code, so the Models tab never changes; once
`modelBatchSize` is used up, `updateModelsSheet` indexes an empty slice and panics, which the model has as
`panicked`. **RelationshipSheet** adds row numbers, names and files: `Processing` names a row for its first
version, `WriteVersion` and `FailVersion` are the outcomes for one version, `SendUpdate` and `Collect` the
unbuffered channel and its collector, `UpdateRelationshipSheet` the batch write. The five random letters of a
file name are taken to differ each time. Reading of the Models tab (`ParseModelsSheet`) is not modelled.

**NatsBroker.** A subscription has the name of the goroutine that made it. The client is external: `Arrive` puts
a message into any set of a subject's subscriptions (queue groups decide which), a subscription's own goroutine
takes it (`TakeMessage`) and runs the callback, `Copy` for Subscribe and `Forward` for streams. `wg` and `parked` are
the wait group all calls share; `Wake` is a waiter that runs again after it was released. Subscribe is
`Subscribe` (the `Add`), `SubscribeMade` or `SubscribeFails`, `AutoUnsubscribe`, `Wait`; the callback may run as soon as the
subscription is made. `items` is `n.subs`; Unsubscribe is `Unsubscribe` (the `take`), one `TearDown` per
subscription, `UnsubscribeReturn`. The history variable `owed` holds the streams of the subject whose call had
returned and which no other Unsubscribe had in its hands. **Broadcaster.** `at`, `current`, `todo` are the goroutine `run`; a rendezvous on
an unbuffered channel is one action (`Meet`, `Send`, `Register`, `Unregister`); `input` is the buffered channel. `due`
is what was broadcast while a subscriber, as it sees it, was registered. A message is its submitter and its number;
`MaxBroadcasts` bounds the calls of Submit of all submitters together.

**EventStreamer.** `clientChannels` is the list: a channel has as many numbered places in it as it was subscribed. `sending` holds the
goroutines that `Publish` started, one per place and message; they run in any order, so the order of the list is left out. `promised`
remembers how often each client was subscribed when a message was published.

**RegistryManager and Registration.** A table is the sequence of its rows: `models`, and
`rows[type]` for the other types of entity. `RegisterEntity` takes the outcome of its writes: all, only the registrant,
registrant and entity without registry entry, or none. A filter is its fields; matching by LIKE is the constant `Like`. `memo` maps filters to
what was answered first. `PackagingUnit` reads a directory in order, archives in depth, the last model winning; `RegisterModel`,
`RegisterDefinition`, `SkipComponent`, `Finish` are the steps of `register`, which other callers interleave. `CleanupMeanwhile` drops the tables between any two of them, and `Restart` ends the
process: `cut` holds the models of which a Cleanup cut a call that had registered the model and was at the rest, `lost` how many units of a caller
were registered before it. Of several models in a directory the last stays, and `Replaced` are the others.

**HelmCharts and Operator.** `step[p]` is where a call of `ApplyHelmChart` is: `fetch`, `head`, `tail` (the download), `load`, `prepare` (the credential
files), `decide`, `run`. `ApplyHelmChart` ends with the `os.Stat` of the file; `Fetch` is `http.Get` and `os.Create`, which empties what another call has
made since; `Copy` is `io.Copy`, half by half, each at the place this call has reached. So two callers can miss one file, truncate it under one
another's hands, and mix two charts with one file name. `downloads` has the origin of each half; a file is loaded only if both are of one URL. `spoiled`
holds the files that a call reported it could not complete since they were made. `GetStatus` is a read of `status` (`ReadStatus`), the query of the
cluster without the mutex (`Query`), the write of what was read under it (`SetStatus`), and the second read without it (`Reread`). `stale` holds the calls that began before the last
Undeploy ended. **ClusterStatus** reads a cluster record that may change between requests; `GetEndpointForPort` and `GetBrokerEndpoint` are
operators over it, written apart as the code writes them apart. `Unanswered` are the returns of GetStatus without a client or with one
that fails; `SearchMisses` says when the search of the status finds nothing although the data connection is up. **PortForwarder**: an attempt is `ResolvePod`, `Dial`, `TunnelUp`, `TunnelDown`,
`Backoff`; `loggers` are the goroutines that still wait. **ApplyManifest** deals with a document in `Decode`, the namespace, then
`CreateObject` (with its update when the object exists) or `DeleteObject`, any of which may fail. **Expose**: `Visit` is the traverser's fetch of a resource,
`CreateService` the callback, which puts the namespace of its object into the configuration that all the others share when it has none.

**SchemaValidator.** A call is `BeginValidate`, `DetectRef`, `ResolveRef`, `Compile` and `Visit`, with other calls and registrations in between;
`verdict` remembers by which schema a document was judged. Words are pairs of stem and ending, since singular forms matter. **ErrorCodes**: one action
per Go file (`HandleFile`; an error ends the walk as `WalkError` has it), `WriteComponent` at the end, `Export` after a second walk; `Kill` and `Edit` between any two. A variable specification has
names and one value: all its names look at `Values[0]` (`Gets`), so with force each gets a code and the last one stays; a specification without a
value makes the utility panic (`Panics`), which ends the job as `Kill` does. **ModSync** is
one action per sync over parsed files: `Synced` computes requires and replaces as the code does, with its three patterns.

**FileIntake.** The type is decided in the code's order; the conversion is the steps that touch shared files (`WriteInput`, `Kompose`,
`ReadResult`, `RemoveFiles`) between the replacement and restoration of the exit function. An archived design is checked for its
schema version as a plain one is (`IsDesign`). `Outcomes` is what kompose may do with the file it finds.
**Sources.** An origin is a record that says what the walker will meet. `pending[w]` are the documents a writer has still to write (writer 0 is the
walker); two writes that overlap in the buffer lose or tear text, or join it to text that decodes (`Mixed`), or make `bufio` panic
(`PanicInWrite`, `EndWalk`). An archive is extracted and every entry at its top converted in turn up to the first error (`InOrder`); in a recursive walk
the files of a directory are visited besides the directory, so a chart counts once more for each of them (`Visited`). **SchemaRefs** is the recursion of `clearSchemaRefs` with its stack made a variable.
**GithubWalk** has one walker per path; a directory's `Spawn`, `EntryDone` and `InterceptDir` are the `Add`, `Done` and `Wait` of its wait group.

## 3. Runs and bounds

| Run | Instance | Checks |
|---|---|---|
| `broker` | 1 subject, 2 queues, buffer 1, a caller (1 message), a forwarder (2), a manager, 2 subscriptions | `NoPanic`, `ChannelsTracked`, `ExactlyOnceInOrder`, `PublishReport`, refinement of `Mailboxes` |
| `generation` | a core and an Artifact Hub model, two components, 1 permit, 2 processes | `PanicOnlyAfterTimeout`, `SummaryAddsUp`, `SuccessIsPublished` |
| `live` | broker: 1 queue, two managers, 1 subscription; generation: 2 Artifact Hub models, 1 permit, limit 1 | `CallsReturn`, `DeliveryEnds`; `RateRespected`, `CallReturns`, `GenerationEnds` |
| `sheets` | components: 3 of 2 models and 2 registrants, 2 calls, batches of 2 and 2 or 3; relationships: 3 rows, 2 models, 2 versions, 2 calls | `LosesAtMostOneRow`, `RepeatsOnlyUnseen`, `HandledIsAppended`; `FilesDistinct`, `NamesRecorded`; `SheetsReturn` |
| `messaging` | 2 Subscribe calls and 3 messages; 2 streams and an Unsubscribe; a forwarder; broadcaster with 2 submitters, 2 subscribers, 2 messages, buffer 0 or 1; event streamer with 2 clients | `OwnMessage`, `UnsubscribeComplete`, `ExactDelivery`, `CallsReturn` |
| `library` | the thirteen parts below | `NoOrphans`, `RegistryConsistent`, `NeverHidden`, `HelmSafe`, `StaysUndeployed`, `BrokerReached`, `KubernetesObjects`, `RightSchema`, `CodesUnique`, `OneReplacement`, `CleanConversions`, `SourceComplete` |
| `broker_leak` | 1 queue | violation of `UnsubscribeEndsDelivery` |
| `generation_timeout` | a core and an Artifact Hub model | violation of `TimeoutIsPerModel` |
| `component_repeat` | as in `sheets` | violation of `NoRepeatedRows` |
| `relationship_filter` | as in `sheets` | violation of `FilenamesUpdated` |
| `nats_subscribe` | 1 call, 2 messages | violation of `SingleShot` |
| `compose_race` | 2 callers, 2 Compose files | violation of `OwnManifest` |

Every run but the violations also checks the types. Components that share no state are checked in one run, one per behaviour: the first state picks the `part`, the actions of the
others are disabled, and an invariant is the conjunction of those of its parts, or is asked of one part only: `ExactDelivery`
is that of the broadcaster and of the event streamer, `RegistryConsistent` says that every file is accounted for and every unit
reported can be found, `BrokerReached` that status and data connection agree and that no logging goroutine is left behind,
`KubernetesObjects` is about manifests and services, `RightSchema` also about inlined schemas, `SourceComplete` also about
the walk through GitHub's API. Nothing is lost: without shared
state an interleaving of two of them is a pair of behaviours.

Parts of `library`: *registration* (2 callers, 4 directories, two calls or one and a Cleanup in its middle, a restart, tables of 3 rows and one further query), *operator* (2 callers, 3 calls, one of 4 other
charts), *cluster* (66 states of cluster and network, one change), *forwarder* (4 targets, 4 attempts), *manifest* (up to 2 documents, the first of 5,
another client), *expose* (one resource of 6 and one of 2, another client), *validator* (2 callers, 5 assets, one registration in between), *codes* (4 Go files, 2 jobs,
an edit, kills), *modsync* (go.mod files of at most 2 requires and 2 replaces, 2 syncs), *files* (11 kinds of file, 2 callers, a kill), *sources*
(24 origins, 2 packages), *references* (all graphs of 3 schemas with up to 6 references), *github* (a tree of 6 paths).

Why the bounds suffice. Broker: with a buffer of one, three messages are more than a queue and its delivery
goroutine absorb, so sends block, time out, and meet a closing manager; two subscriptions cover two consumers
of one queue, two queues of one subject, and a queue made again after it was closed. Generation: one permit
forces the second model to wait for the first, and its worker to leave early by a timeout while its
generation goes on; two processes cover a crash at any step and a rerun over what it left; URL lengths 7, 8
and 10 are below, at and above the code's guard. A limit of one makes every call after the first pause; larger limits
are covered by the theorem `RateCorrect`. Sheets: two calls cover everything that outlives one (batch counters, names,
failed appends); three rows let a row in the middle be malformed, filtered or withheld with one on each side.
The initial `modelBatch` is any number up to three, as the process may have met other registrants before.

Messaging: two calls suffice for one to be woken by the other's message or failure, three messages for a callback
that runs twice besides; two streams of one subject for one to be taken and one recorded while Unsubscribe runs.
The parts of the NATS handler meet only in the connection, which each has, so they are checked one at a time;
what is proved is proved of all together. A buffer of one is full with one message.

Library: two callers are enough for one to read what the other is about to change; where others change the cluster, the registrations or the files, one
change meets every step. Three operator calls are a Deploy, an Undeploy and what comes between or after. Two syncs show what the second
leaves and what it still changes; two jobs with an edit between are what gives codes out twice after a kill. Inputs are chosen so that the branches of the code
are taken, but for calls of `Register` that return before they write because the model has no registrant, is to be ignored or has nothing
with it: these only the theorem `CallsTellAll` covers. A component without a status is there, so a caller panics with its unit half
registered. The directories, documents, origins and go.mod files are in `MCLibrary`, with what each is for.

Deadlock is not checked: each system legitimately stops (a call returned and the bound on calls reached, a
panicked process, a subscriber that left).

## 4. Fairness

Weak fairness stands for Go's scheduler: a goroutine that can go on does. Timers fire, hence weak fairness of
`PublishTimeout` (inside `PublishLoop`) and `Timeout` (inside `WorkerStep`). Strong fairness is used only
where waiters are served in turn: a writer waiting for the RWMutex (Go's `Mutex` starvation mode), and generations
waiting for `artifactHubMutex`, and for the cases of the broadcaster's select, among which Go chooses at random,
and the submitters waiting for its buffer. Of the environment one thing is assumed, `SheetsAnswer` of
`ModelGeneration` and of `Sheets`: Google Sheets answers. The appends and the batch update run with `context.Background()` and no timeout
(`spreadsheet_update.go:186`, `:269-273`), the call waits for them (`model.go:1070-1074`) and so does whoever sends to the spreadsheet goroutine. It is
a conjunct of its own beside the scheduler's `Fairness`; without it `CallReturns`, `GenerationEnds` and, for the Relationships tab,
`SheetsReturn` do not hold, and the code does nothing that would make them. Nothing else is assumed: nobody has to call, no
subscriber has to read (one that has not stopped reads on), `Fetch` may hang for ever, nothing has to restart.
After a panic nothing is fair. In `live`, `sheets` and `messaging`, a component's fairness is stated of its actions while it is the
part that runs. `library` has safety properties only: nothing there waits for something that has to come.

## 5. Proofs

All proofs hold for every value of the constants under the named assumptions of the modules, which TLC evaluates in each run.
`BrokerAssumption`, `GenerationAssumption`, `NatsAssumption`, `MessagingAssumption`, `ComponentAssumption` and `RelationshipAssumption` ask for
finite sets, disjoint names and positive sizes. `LibraryAssumption` says what inputs can be: Helm configurations have their fields, objects that
can be exposed are in a namespace and the configuration of a call has a name and a namespace field, the list of the broker's names is not empty
(it is written out in `meshery_broker.go`), what accepts a TCP connection has a host, the resources to be exposed are a sequence, and Go files are
sequences of variable specifications with sequences of names. It also
says that the codes that a component has before the first modelled run of the utility are unique and below the next one: the utility
keeps that, it cannot establish it. `RegistrationAssumption`,
`ModSyncAssumption` and the assumptions of `Sources`, `SchemaRefs` and `GithubWalk` say of what kinds files are, that lists are lists, and that the
host requires a module once in its blocks. `PartsAssumption` is needed for the types only: the parts are those of the module, every URL that an index or another
user of Helm names stands for a chart (possibly a broken one), the empty string stands for none, a cluster answers about each workload it can be asked about, and bounds are numbers. A bound on calls or messages is a constant like others; the theorems hold for every bound.

The step of an invariant is proved action by action. What several proofs need of the operators is proved once: sequences that grow and shrink
(`AppendedTo`, `Appended`, the lemmas on `ToSet` in `ChannelBroker_proofs` and `Sheets_proofs`), what `Those` and `Joined` contain
and keep (`Selections_proofs`), what a search among candidates finds
(`Reached`), how codes are numbered (`Ranks`, `GivenCodes`), that both tabs are parsed by the same steps (`SameParse`).

*Broker* (`IInv` in `ChannelBroker_proofs`). `NoPanic` is not inductive: one needs to know that a publisher in
its loop holds the read lock while a manager in its body does not share it (`LockInv`), that the map holds only open
channels, each once (`StoreInv`), that what a loop has still to visit is stored (`LoopInv`), and that delivery goroutines
range over channels that were made (`DeliveryInv`). Theorems: `TypeCorrect`, `PanicFree`; and
with `BufInv` (a buffer is the end of what its channel accepted), `Refinement` (each
step is a step of `Mailboxes` or a stutter) and `Tracked`. `DInv` adds what lies between Publish and the
subscribers. `ReportInv` says of a publisher in its loop that the queues of its subject are those still to visit, those that took the message and
those that timed out, and that exactly the second have it: `ReportTrue`. `OrderInv` and `FlowInv` say that a delivery goroutine has got
nothing that is not older than what its buffer holds of the same publisher, that nothing accepted is lost between buffer, hand and subscriber, and
that no two goroutines of a queue got the same: `DeliveredOnceInOrder`.

*Generation* (`IInv` in `ModelGeneration_proofs`). `CounterInv` ties the wait group, the semaphore and the
summary to the sets of workers they count; it makes `wg >= 0` and `permits <= Permits` inductive. `CallInv` places
the call: after `wg.Wait` no worker is before its `wg.Done`, and the channel is closed only then.
`GenInv` says that a worker that heard a result has a generation that ended, so one that still runs when the channel is
closed must have timed out: `NoPanicWithoutTimeout`. `SummaryCorrect` follows since each worker's verdict is
counted once and all selected models have one at the end. `OutInv` follows a generation through its files
(what is not wanted any more is on disk), the hand-over and the tracker: `SuccessCorrect`, across crashes. `HubInv`
says who is inside the rate limit's mutex and that the count and the calls since the pause agree modulo the limit:
`RateCorrect`, with lemmas on quotient and remainder.

*NATS* (`IInv` in `Messaging_proofs`). `CountInv`: as long as no callback ran twice, the wait group counts the calls
past their `Add` that have neither failed nor heard. So at zero everybody who is counted has heard, and `WakeInv` carries
that to the waiters that were released but have not run: `OwnMessageCorrect`. `StreamInv` (a recorded stream is in
the table, in the hands of an Unsubscribe, or closed) and `TableInv` (what an Unsubscribe owes is in its hands or
closed) give `UnsubscribeCorrect`.

*Messaging* (`MessagingInv` in `Messaging_proofs`). It joins the NATS handler's `IInv` with `BInv` and `EInv`; a step of one part leaves the
variables of the others alone. `BInv`: what a subscriber is due is what it got, and the message under way while the broadcast has not reached it
(`DueInv`); along a submitter's call, the buffer and what is due, no message overtakes an earlier one of the same submitter (`OrderInv`).
`EInv` counts: a client has as many places as subscriptions, and the sends in flight and the messages received make up what was
promised. Theorems `DeliveryExact`, `MessagingTyped`.

*Sheets* (`SheetInv` in `Sheets_proofs`: `CInv` or `RInv`, whichever tab the behaviour is about). Both contain `ParseInv`: every row the parser
has passed was received, could not be read, or is the one in the channel, and the caller stops only after the parser has: `ParseCorrect`. `CInv`
ties the map of known components to the tab, the list to be appended and what failed appends dropped (`HandledCorrect`), and to the rows nobody saw
(`RepeatsCorrect`). `RInv` knows where each named row is (in memory, on its way to the collector, in a file), that its number is that of
its row as long as every row was counted, and that no two rows use one name: `FilesApart`, `NamesKept`. Both say so only as far as the
code does: rows that could not be read or were filtered away make numbers `crooked`, which the run `relationship_filter` shows.

*Library* (`Registration_proofs`, `Parts_proofs`, `Library_proofs`). Each component has an invariant of its own, and one lemma says that a step of
the library is a step of the component or leaves its variables alone.
 - `RegistryInv`: every entry of a model has its row, and a call past `RegisterModel` can rely on the entry of its model until it ends unless a Cleanup
   has cut it, whose model is then in `cut`; tables that are dropped hold no orphans: `ModelsRegistered`. `AnswersFresh` needs no invariant, only that a hit is not empty.
 - `TablesInv` adds that a model's name has one row and its entry's registrant is one of the hosts, and that writes keep what is there (`Keeps`).
   `CallsInv` follows a call: what it has still to register, what it registered and what it put in the error store make up the packaging unit,
   and the unit with what was skipped and what could not be read makes up the directory, archives included. So a call that returns has
   accounted for each file and, but for the units begun before the last Cleanup (`lost`), can point to rows and entries for what it says it registered:
   `CallsTellAll`.
 - `HelmInv`: each half of a file of the download directory is missing or came from a URL with its name, and what is missing of a file nobody reported is
   still being written by some call (`Halves`, `Fills`): two calls that truncate one another's file both go on to write all of it. Before the
   credentials are written a call has no temporary files: `ChartsWhole`. `OperatorInv`: while the status is Undeployed, every call that can still overwrite it or apply the chart is
   forced or `stale`: `NoComeback`.
 - `ProbesInv`, `ForwarderInv`: both searches try four places, the same ones but for the port of the last two and for a load balancer that does not
   answer; `Agree` shows that the status misses the broker in these cases and in no other. A goroutine that waits belongs to an attempt
   that was made: `BrokerFound`.
 - `ManifestInv`: the namespace of the document at hand is that of the call and exists before the object is touched. `ExposeInv`: all services of
   a call have one name and one namespace, so a second one meets the first; what is missing, others removed. `VisitInv`: what was visited has a
   service or an error, and the namespace in the configuration is the one asked for or that of a resource visited. Together `ObjectsInCluster`.
 - `CodesInv`: codes in the files are unique and below the next code of the pass under way or else of the component, unless the files are ahead of
   the counter; what a pass gives, one code for each name that gets one, lies between its next code before and after, in
   increasing ranks: `UniqueCodes`.
 - `SyncInv`: what a sync wrote is `Replaces` and `SyncedRequires` of the source and of some destination. Merging keeps the first replacement of each
   module and begins with what it merged before (`Begins`, `FirstOf`), so it has all of the source's, and merging its result again behind the same
   source changes nothing; a line that was changed reads like the requirement that changed it last, and then no other one touches it unless
   two modules are confused (`FollowedSettles`): `ReplacedOnce`.
 - `ValidatorInv`: a registration is found under its own keys, and what a call resolved its reference to has the version that was asked for, whatever
   is registered until the document is judged; `RefsInv` has a set `F` of schemas that calls have returned from, which is closed under what is left
   of the references, and whose members are outside what they reach; a reference is cut only if its target is on the stack, and the stack is a
   path in the original document: `SchemasRight`.
 - `SourcesInv`: what the file holds and what writers have still to write are, unless writes overlapped, the documents of the entries passed, each
   once and in one place, and nobody writes after the walk; from the file on it is the operators `Generate` and `OfGithub` of which lemmas say that
   no component is lost or doubled. `GithubInv`: a wait group counts the walkers below it that are active, so a directory is
   intercepted when all its entries were: `SourcesWalked`.
 - `IntakeInv`: undisturbed, at most one conversion is under way and the shared files and the exit function are as it has left them so
   far: `ConversionsClean`.
 - `AllTyped` joins all of these and, where types need more, says it: what a call has still to register is the end of its unit's definitions (`EndOf`), a
   table has room for the row that is added, only charts that a URL stands for are downloaded, and what is compiled is in one caller's hands. `LibraryTyped`
   follows, because what is not of the part that runs stays as it was.

TLC has checked each of these invariants on the instances of the runs, apart from conjuncts like `\E T : s \in Seq(T)` that it cannot evaluate.

## 6. Only model-checked

 - Liveness (`CallsReturn`, `DeliveryEnds`, `CallReturns`, `GenerationEnds`, `SheetsReturn`) is out of the prover's reach.

Every invariant of a run is also a theorem.

The proof of `SourcesWalked` failed at first for a good reason: `WalkComplete` promised the charts of archives in which the code does not
look, since it passes over large files before it knows what is in them. The property and the instance were corrected.

## 7. Disagreements between code and text

* `broker_leak`: the comment on `Unsubscribe` says that closing the queue channels ends the delivery
  goroutines; one whose subscriber has stopped reading blocks in its send for ever.
* `generation_timeout`: the timeout is documented as per model, but a generation that outlives it may send on the
  closed spreadsheet channel, which panics the process.
* `component_repeat`: the last row may still be in the channel when the caller's select takes the cancelled
  context; its component is appended to the tab again, which the update says it checks for.
* `nats_subscribe`: the auto-unsubscribe is said to keep a later message from firing the callback again, but it
  comes after the subscription: messages that arrive in between fire it again and panic the wait group.
* `compose_race`: Convert is said to convert the given file, but all conversions write and read the same two files in the home
  directory, and append to the first: two at once return a manifest of the other's file, or of both.
* `relationship_filter`: with a model name given, row numbers count only the rows of that model, and file
  names are written to other rows.

Others are not runs of their own; a passing property states exactly what the code does instead:

* *Several models in one directory.* `models/registration/dir.go:26-29` says that "A directory containing multiple `model` will be invalid", and the message
  at `:58` that one and exactly one must be present. The code checks only that there is one: a later file replaces an earlier model
  without a word, and everything is registered under the last. `RegistryConsistent` names these models (`Replaced`); part *registration* has such a directory.
* *Probes that disagree.* `models/controllers/meshery_broker.go:233-235` says that the status probes "the same way the data connection does", so it
  "can't report "not connected" while the data path is actually up". It can: when a load balancer does not answer, the lookup of the service fails and the
  internal address is not tried; and with a node port, the fallbacks to the Docker and API hosts use that port only, while the data
  connection uses the service's. `BrokerReached` says that the search fails in these cases (`SearchMisses`) and in no others, both ways.
* *The namespace of an exposed service.* `utils/kubernetes/expose/expose.go:67-72` says: "It defaults to the namespace of the target resource". It does for
  the first: the callback stores that namespace in the configuration of all (`expose.go:118`), so a resource of another namespace gets its service in that of
  an earlier one, where it selects nothing. `KubernetesObjects` says so; part *expose* has two resources of different namespaces.
* *Directories of manifests.* `utils/helm/helm.go:66` says that a directory of "multiple manifests" is converted into one. The branch for it (`:83-95`)
  is never reached, since `IsYaml` cannot read a directory: its manifests yield nothing, without an error. `Manifest` in `Sources` says so, and the
  instance has such directories with documents that would count.

Two smaller ones, of which no text speaks: a file shorter than 512 bytes is not seen as YAML, since `readData` leaves zero bytes behind it, which are
taken for binary (`IsYaml`, `utils/unarchive.go:46-56`), so in `Sources` it is a `binary`; and errorutil panics on an error code variable without
a value (`node.go:127`), after files were written and before the counter is.

Beside these, `TestIdempotent` has a second sync as a no-op. `OneReplacement` says when it is: a line is looked for by the module's name and a
space after it (`sync.go:61`), so where the name of one required module ends in that of another (as `k8s.io/x` and `sigs.k8s.io/x` do), a sync
changes the line of one into a line of the other, and the next one may change it again. The property excepts these sources (`Confused`).

## 8. Not modelled

The contents of definitions, cells and documents; logging; the network and the file system beyond success,
failure and hanging; partial writes of one file; the Models tab (`ParseModelsSheet`: at its first row error the parser goroutine is left blocked,
which changes nothing); documentation and markdown output; categories and sort orders of the registry; the errorutil documentation
command; the bulk scanner of Artifact Hub; converters between design formats; and the components that `PROJECT.json` lists as not modelled.

Abstractions to know of: a downloaded file is two halves, and an archive is opened at one moment; a directory of a repository holds files but no
directories, and a plain one has a file for each of its documents; an archive that is itself a chart, whose files each stand for the whole chart, is walked
but excepted from `SourceComplete`, as recursive walks are; after two writes overlapped nothing is claimed of the text.

Some behaviours are in the models and no property speaks of them, because nothing in the repository says otherwise: `updateModelsSheet` panics on
the hundredth registrant; under `LatestVersionOnly` a model whose generation was cut short is never completed; the broadcaster's calls
block or panic after Close; a chart whose download broke off is found and refused
until somebody removes the file; an update of error codes that is killed gives its codes again.

## 9. Plan

1. An abstract registry (entities with their registrant, registered at once or not at all) and the cases in which `Registration` implements it.
