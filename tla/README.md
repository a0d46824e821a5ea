# A TLA+ verification of k8s-pod-manager-graphql

The program is a GraphQL server in Go in front of a Kubernetes cluster: queries
list pods and workloads, mutations restart and delete pods and scale workloads,
subscriptions watch pods and stream their logs. These modules model the parts of
it in which something can go wrong that a unit test would hardly reach, check
them with TLC on small instances, and prove the most important facts about them
with TLAPS for every value of the constants.

Line numbers below are those of `src/`. `PROJECT.json` maps every definition to
the lines it stands for.

## 1. The system

| Component | State | Operations | Hard about it | Module |
|---|---|---|---|---|
| Subscriptions: `graph/schema.resolvers.go:437-578`, `internal/services/pod_service_impl.go:163-204, 293-327, 352-458` | two buffered channels, two goroutines, the request's context, the cluster's stream | `watchPods`, `watchAllPods`, `streamPodLogs`, cancellation, end of the stream | two goroutines that close each other's channels, cancellation at any point, slow clients, goroutines that never end | `Subscription`, `AbstractStream` |
| Scaling: `schema.resolvers.go:111-242`, `deployment_service_impl.go:66-143`, `statefulset_service_impl.go` (same lines) | the workloads in the cluster, the audit table | `scaleDeployment`, `scaleStatefulSet` | read-compare-write against other writers, conflicts, lost replies, a lost audit row | `Scale`, `AbstractScale` |
| Restart and delete: `schema.resolvers.go:14-109`, `restart_orchestrator.go`, `pod_service_impl.go:100-161`, `graph/resolver.go:166-195` | the pod in the cluster, the audit table | `restartPod`, `deletePod` | the pod examined need not be the pod deleted; failing lookups, lost replies | `Restart`, `MCRestart` |
| Controller detection: `controller.go` | none | `DetectController`, `CanRestart`, `GetRestartMethod` | owner references, labels, annotations and lookups that may fail decide what a restart does | `ControllerDetector` |
| Rate limiter: `internal/middleware/rate_limiter.go` | two maps under a mutex, a ticker, a stop channel | `Allow`, `Reset`, `cleanup`, `Stop` | clock readings made before the mutex is taken | `RateLimiter` |
| Cached health service: `graph/health.go:122-171` | a response and its time, unguarded | `GetHealth`, `GetReadiness`, `GetSystemInfo` | a data race between all requests | `HealthCache` |
| Audit logger: `graph/audit.go` | rows in PostgreSQL | `LogMutation`, `LogSubscription`, `LogQuery` | a row that cannot be stored is only printed | a step of `Scale`, `Restart`, `Subscription`, `Server` |
| Validation: `graph/validation.go` | none | `Validate...` | bounds of the replica count | a step of the same modules |
| Middleware: `internal/middleware/` (`builder.go`, `gin_adapter.go`, `request_id.go`, `error_handler.go`, `logging.go`, `audit_logger.go`) | a request's places in Gin's list and in the chain, its response, its context | request id, recovery, error handling, logging, rate limiting, a wrapped Gin handler | what still runs after a refusal or a panic, errors crossing the middleware, an audit entry written asynchronously | `Middleware`, `MCMiddleware` |
| Process lifecycle: `main.go`, with `internal/database/connection.go`, `internal/kubernetes/client.go`, `config/config.go`, `services/factory.go` | where main and the goroutine of `gracefulShutdown` are, the connection pool | start, serve, signal, shutdown, close, exit | `ListenAndServe` returns when the shutdown begins, not when it is over; the operations under way are cut off | `Server`, `MCServer` |
| Executor: `graph/generated.go` | the fields of an operation, their nulls, the response | fields of a query at once, of a mutation one by one | one null takes the data of all siblings along | `Server`, `Schema` |
| Queries and errors: `schema.resolvers.go:244-436`, `graph/errors.go`, `services/errors.go`, `namespace_service_impl.go` | audit rows | `health`, `readiness`, `info`, `namespaces`, `pods`, `pod`, `allPods`, `deployments`, `statefulsets` | what an error code tells of what was done | `Server` |
| Converters: `pod_converter.go`, `graph/converters.go`, `graph/resolver.go` | none | cluster objects to answers | statuses matched by place, ages at their edges, empty strings that must not become nulls | `Converters` |

How they interact: gqlgen calls the resolvers of a query in a goroutine per
field and those of a mutation one after the other. A resolver
validates its arguments, calls a service through `PodServiceAdapter`, turns the
error or the result into its answer, and writes an audit row with its own call
to `database.DB.Create` before it answers. Services keep no state: they read and
write the cluster through client-go. So concurrent requests meet in three
places: the cluster, the audit table, and the health cache. A subscription
moreover has two goroutines of its own, which meet in two channels. All of them
live in the process that `main` ends: at a signal, the database is closed and
the process exits without waiting for them.

## 2. Modules

**Subscription** is one subscription. `phase` is the resolver call, `ppc` the
place of the producer goroutine (the service call and its deferred function),
`cpc` that of the converter. `serviceBuf/serviceClosed` and
`eventsBuf/eventsClosed` are the two channels; `phand` and `chand` are what each
goroutine has in hand. A `select` is one action per case that is ready; a send
on a closed channel is ready too, and panics (`ProducerSendPanics`,
`ConverterSendPanics`), after which nothing moves: the process has died. Watches and logs share the
pipeline and differ where the code does: `streamPodLogs` checks the context
after each line (`CheckContext`), a watch skips objects that are not pods
(`SkipObject`), `watchAllPods` has nothing to validate (`Reject`). gqlgen's side
and the cluster's stream are external. gqlgen cancels the context of an
operation when it completes, which is `ClientStops`.
`received` and `delivered` are history: what went in and what came out. `audit`
has the rows that were stored: `LogSubscription` stores a row or loses it, and
the resolver and the producer go on either way (`audit.go:134`).

**AbstractStream** says what a subscription promises its client, with one queue
in the place of two goroutines and two channels: the client is sent the oldest
item it has not seen or nothing, lags behind by at most `2 * Cap + 2` items, is
told of the end once and sent nothing afterwards; and an end it did not ask for
costs it at most `Cap + 1` items (a full channel and the item the converter had
in hand: the code closes `eventsChan` under them). `Subscription` refines it,
with `received` as `taken`, the closed `eventsChan` as `closed`, and `ended` for a
running subscription whose client has stopped.

**Scale** is any number of scale requests on one Deployment and one StatefulSet
with other writers. `pc` is a request's goroutine, `seen` the object its `Get`
returned, `res` its result, `row` its audit row; `obj` and `revision` are the
cluster. `Write` is the API server's rule that an `Update` of an old
`resourceVersion` is refused. `UpdateFails` covers every error that changed
nothing, `UpdateReplyLost` an error after the change. `replaced` is history: the
counts a request's write replaced. `Replicas` are the counts a request may ask
for; the other writers (`kubectl`, an autoscaler) are not bound by the API's
validation and set any of `OtherCounts`, which a request then reads and reports. The services' second audit call goes to a
stub that does nothing (`factory.go:114-126`) and is left out.

**AbstractScale** says what a scale request promises: it is decided in one
instant, in which it replaces the present count and answers with exactly it, or
finds nothing to do, or fails; only an answer of failure leaves open
whether the change was made. `Scale` refines it, with
the workload's replicas as `spec` and `res` as `outcome`.

**ControllerDetector** gives the pure decisions of `controller.go` over the
abstract shape of a pod: the kind of its controlling owner, whether that has a
parent of the kind that is looked up, what the labels say, whether it is static.
An owner is known by its kind alone (`controller.go:109` takes any kind for a
type), so a custom kind called "Deployment" or "Standalone" is an owner of its
own, which can be restarted; "Other" stands for the kinds that are no type.

**Restart** is any number of `restartPod` and `deletePod` requests for one pod
name. `pod` is the pod that bears the name now, with a `uid`; it may go, and
another of any shape may come. A deletion is graceful: it is accepted, and the
pod goes at once or bears the name until its grace period is over (`PodGoes`),
so that another request may have the same pod deleted again. `examined` is the
pod a restart's `Get` returned, `deleted` (the pods whose deletion was accepted)
and `rolled` are history. **MCRestart** fixes the shapes: every kind of
owner, the two that are looked up with and without a parent, and for pods without
an owner every label, static or not.

**RateLimiter** makes each critical section one action, and each clock reading,
which the code makes before it locks, an action before it. `clock` advances by
`Tick`. `admitted[k]` is history: the times at which requests of key `k` were
admitted, oldest first, as far as they are at most a window old (`Recent`).

**Middleware** is one request through a stack of `builder.go`, in any order and
in both installs the package offers: each middleware a Gin handler
(`ToGinHandler`), or all of them one (`BuildChain`). `index` is Gin's place in
its list, `link` the chain's; `waiting` are the `Handle`s that called `Next`,
which is the stack of the goroutine. Each `Handle` is an action up to its `Next`
and one after it; `Return` hands an error to the middleware around it in a
chain, and to `ToGinHandler` otherwise. Gin itself (the loop, `Abort`, the
status fixed by the first body), the application and the wrapped third-party
handler are external. `entry` is the
record that the logging middleware writes after `Next`, from which it makes the
audit entry if it has an audit logger (`auditor`: none, the database, or one that
stores nothing); the entry is stored by a goroutine of its own (`LogRequest`). The
id is in the log record; the audit row has no column for it
(`audit_logger.go:38`). `bodies` and `panics` are history. `main.go` installs no
stack, so the model is of the package. **MCMiddleware** gives the stacks: every
order of up to three kinds, the prepared stack, and that with a wrapped handler
in front and behind.

**HealthCache** makes each read and write of a field a step. The stored time is
a `time.Time`, of two words that are written one after the other, so a
caller may see the first without the second: a data race, modelled by its
outcomes. A response is identified by the time at which the wrapped service
looked at the system.

**Schema** holds the schema as `generated.go` executes it: for every type and
field what it holds, whether it is a list and whether null is permitted, and
the arguments of the root fields. `MarshalList` and `Dispatch` say what becomes
of a null where none is permitted: the object around it is null, and so on to
the top. A Go pointer is a sequence of at most one value (`Null`, `Ref`): the objects of
an answer, the members of its lists and its optional strings are pointers, all
else are values. A function of a type (`_PodInfo` and the like) is `Dispatch` of its
type; the types nest three deep, which is why marshalling needs no recursion.

**Converters** takes objects of the cluster to objects of the answers, field by
field: the service layer's converters, the adapter's result maps and what the
resolvers `Pick` of them by key, the type converter. An age is a sequence of
pairs of a count and its unit, "1/2" a pair, and no text is put together. A
content may be anything that has the shape of cluster objects
(`ContentsAssumption`): lists of pods, namespaces and workloads, for each pod as many
container statuses as containers at most, restarts that are natural numbers,
ages that are integers (negative ones when clocks differ), and labels of strings.

**Server** is the process. `main` and `quitter` are the places of main and of
the goroutine of `gracefulShutdown`, `pool` the database's connections; any step
of the start but `Load` may fail, the listener may fail while it serves, and a
signal may come at any time. `served` says that clients may hold connections that
were opened while the server served: `Shutdown` closes the listener but not the
websocket connections, over which operations go on arriving until the process
ends (`Accept`). Each root
field of an operation is a slot `<<request, position>>` that goes from `idle`
(waiting for its turn) through `resolve` (arguments, validation, the service
call), `log` (the audit row) and `marshal` to `done`, or to `stream` and back for
a subscription. `Respond` is the executor's wait for the fields and the rule that
a null root field makes the data null. `content` is what the cluster holds,
external and constant, and `answer` what each field answers of it, converted and
marshalled. `effect` (the cluster was changed), `why` (the API server's reason)
and `lost` (the database refused the row) are history. What concurrent calls do
to each other is the business of `Scale`, `Restart` and `Subscription`; here a
call succeeds or fails, with or without an effect. **MCServer** fixes the
operations (every root field alone, and pairs) and two contents: pods that were
just created, that run, that are over; statuses in another order than the
containers; ages at the edges of the units.

Definitions whose comment begins with "Mutant:" are plausible mistakes in the
code; they are part of no specification. Each is put in place of the
definition after it to see that the property named in `PROJECT.json` fails.

## 3. What is checked, and what it shows

| Run | Checks | Shows |
|---|---|---|
| `Subscription` | `TypeOK`, `ConservedInOrder`, `BoundedBacklog`, `NoPanicWhileLive`, `StopLoggedAfterClose`, `StreamIsOneQueue`, `CancelEndsProducer`, `LiveDelivery`, `ReturnCompletesClient` | nothing is lost, repeated or reordered on the way; at most `2 * Cap + 2` items are held back; no panic before the context is cancelled or the service call has returned; the end is recorded at most once, and only after the channel is closed (items in its buffer may still be read), whichever rows are lost; a stream that ends by itself costs the client at most the `Cap + 1` items that the close overtook; a cancelled subscription releases its producer even when both channels are full and nobody reads; a client that keeps reading gets everything while the subscription lives, and learns of its end |
| `Scale` | `TypeOK`, `ReportedPreviousIsReplaced`, `NoHiddenChange`, `SuccessRowIsTrue`, `ScaleIsAtomic` | concurrent scaling is atomic against writers that set any count; its answers are true, and so are its audit rows as far as they are stored |
| `Restart` | `TypeOK`, `UnsupportedPodsAreLeftAlone`, `SuccessMatchesEffect`, `RefusalChangesNothing` | a restart does what its answer says and at most that, also when a pod that terminates is deleted again; a restart that examined a pod of a Job, a CronJob, a node, a tool or an unknown controller does nothing, whether owner, labels or annotations tell, and whatever lookups fail |
| `RateLimiter` | `TypeOK`, `BurstBound`, `CleanupKeepsOpenWindows`, `ExpiredWindowsGo`, `StopEndsCleanup` | fewer than three quotas pass in any window's time; open windows survive the cleanup, windows that are over leave the maps; `Stop` ends the goroutine |
| `Middleware` | `TypeOK`, `AnsweredOnce`, `PanicsAreRecovered`, `AuditedAfterAnswer`, `IdIsKnown`, `FailureIsTold` | a request nothing stops is answered once, whatever the stack and the install; the first panic behind a recovery is answered; a request leaves its record in the log, and hands its audit entry to the logger if there is one, after its answer; the record names an id the client knows (the audit row has none); an error in the record was told to the client |
| `HealthCache` | `TypeOK`, `NeverNil`, `SerialAnswersAreFresh` | no method returns nil in spite of the race; while calls do not overlap no answer is older than the TTL |
| `Server` | `TypeOK`, `AllOrNothing`, `MutationsAreSerial`, `AuditMatchesAnswer`, `CodesTellEffects`, `ListsAreFaithful`, `OperationsAreAnswered`, `ShutdownEnds` | the data of a response is null exactly when a field failed, so no content of the cluster puts a null where the schema has none; a mutation takes effect after those before it are on record; each audited field leaves a row with its verdict unless the database refuses it; only `SERVICE_ERROR` and `TIMEOUT` leave open whether a mutation was done; counts, restarts, ready containers, labels and ages in lists are those of the pods; every operation is answered, unless the process ends, and every signal ends it |

Where the code and what the repository says of it disagree, a run shows it:

| Run | Refutes | How |
|---|---|---|
| `Subscription_nopanic` | `NoPanic` ("proper channel management", `schema.resolvers.go:438`) | an event waits in `serviceChan`; the user cancels or the stream ends; the producer closes `eventsChan`; the converter sends on it and the process panics |
| `Subscription_leak` | `ConverterReleased` (same comment) | after a cancellation the converter waits on `serviceChan`, which only it would close |
| `Middleware_refused` | `RefusedIsNotServed` ("blocks request when over limit", `middleware_test.go:357`) | the limiter answers and returns nil; nothing aborts Gin's list, and the application runs too |
| `Server_drain` | `EffectsAreAudited` ("Complete audit trail in PostgreSQL", `README.md:88`) | a pod was deleted when a signal comes; `ListenAndServe` (`main.go:77`) returns as soon as `Shutdown` begins, main closes the database and exits, and no row is left |
| `Server_notfound` | `MissingPodIsNotFound` ("not found error should return proper error code", `graph/graphql_integration_test.go:868`) | `GetPod` (`pod_service_impl.go:91`) replaces the API server's error by its own, which `HandleServiceError` does not recognise: `SERVICE_ERROR` |

More promises do not hold, which is plain without a run:

- "Complete audit trail in PostgreSQL" (`README.md:88`): `graph/audit.go:57`
  prints the error of a row that cannot be stored (`Scale!LogMutation`,
  `Subscription!LogSubscription`); the
  `pod` query leaves no row (`Server!Audited`), and the row of a list that failed
  is that of an empty success (`Server!Row`).
- "Rollout restart (zero-downtime)" for Deployments (`README.md:83`): when the
  lookup of the ReplicaSet fails (`controller.go:156`), the pod is taken for a
  ReplicaSet's and deleted (`ControllerDetector!DetectController`).
- "Cache health checks for 30 seconds" (`graph/resolver.go:65`): when calls
  overlap, an old response may be kept under a newer time
  (`HealthCache!StoreReading`).
- "Continuous log streaming with automatic reconnection" (`README.md:78`):
  `StreamLogs` returns at the end of the stream and nothing calls it again.
- `"type": "deployment"` in the response of `restartPod` (`docs/examples.md:122`):
  the adapter writes `controller_type` (`graph/resolver.go:177`), the resolver
  reads `type`, which is always "" (`Restart!AdapterKeys`,
  `Converters!RestartResponse`). Likewise the `action` of a scaling
  (`docs/examples.md:234`) is always "scale", and neither answer names its
  workload.
- The state of a container is its own only if the statuses come in the order of
  the containers (`pod_converter.go:113`, `Converters!ExtractContainerInfo`).
- `controllerType` is the kind of the direct owner in a list and that of the
  workload in the `pod` query (`Converters!DetectBasicController`).
- "Standalone pods: Deletion with warning" (`README.md:85`) for an unowned pod
  labelled `app.kubernetes.io/managed-by: DaemonSet`, which is deleted by the
  method for DaemonSets (`controller.go:190`).
- A status of 429 or 500 from the middleware (`middleware_test.go:387`): through
  Gin, `GinHTTPResponse.JSON` (`gin_adapter.go:74`) sends 200.

What the properties do not say is worth saying: a restart may delete a pod that
is not the one it examined (delete goes by name), and `SuccessMatchesEffect`
holds all the same. A mutation that fails takes the answers of its siblings
along, although they were carried out and those behind it still will be
(`AllOrNothing`, `MutationsAreSerial`). A panic that recovery has answered does not
end the request either: Gin goes on with the handlers behind the one that
panicked, outside of the recovery, which is why `PanicsAreRecovered` speaks of
the first panic. In a chain, a refused request runs the application after the
whole chain has returned, so its record and audit entry are made before and a panic of it
is not recovered; and an adapted Gin handler is not run in a chain but fails
(`ErrIncompatibleContext`). `AnsweredOnce` and `AuditedAfterAnswer` name these
cases.

## 4. Bounds

- Subscription: `Cap` is 100 in the code. With 1 the channels fill and drain
  within `MaxSeen` 5 items, more than the backlog `2 * Cap + 2` can hold, so each
  blocking case happens; the proofs of section 6 cover every `Cap`.
- Scale: two requests may meet on one workload or be spread over both kinds;
  with `MaxReplicas` 1 a count can be changed, changed back and be the one wished for
  already. `OtherCounts` 0 and 2 give the other writers a count that a request may
  ask for and one that it may not; the proofs cover any set of natural numbers. `MaxRevision` 2 lets others write twice, enough to change a count
  and restore it between a `Get` and an `Update` (the case that needs versions).
- Restart: two requests and `MaxUid` 2 pods: the examined pod can be gone and
  replaced when the delete comes. `MCShapes` has every kind of owner and,
  for pods without one, every label, static or not; that labels do not matter for
  a pod with an owner is left to the proofs, which are for every shape.
- RateLimiter: three callers with a limit of 2 fill a window while the third
  holds an old clock reading. `Window` 2, `Interval` 3 and `MaxClock` 7 let two
  cleanups and four windows happen. `MaxLag` bounds how late a goroutine gets the
  mutex: `2 * MaxLag <= Window + 1`, about half a window, which for a window of a
  minute and critical sections of a few map accesses is generous. The proof of
  `BurstBound` asks for it, and it is needed: windows of a key may open
  `Window - MaxLag + 1` apart, so that with a longer lag three of them, a quota
  each, open in one stretch (TLC shows it with `Window` 4, `MaxLag` 3 and `Limit` 1).
  Counts from `MaxRequests` (more than the limit) on are not told apart.
- Middleware: one request, since requests share nothing here but the limiter,
  whose verdict is arbitrary. Three middlewares give every pair of kinds in both
  orders with a third before, between or behind; the prepared stacks are whole.
  No builder is asked twice for the same kind.
- HealthCache: two callers, and a clock that runs four times the TTL.
- Server: one operation, since operations share nothing in this module but the
  process, which can be at any stage of its start and end; the proofs cover any
  number. Two fields are the least in which one can fail and the other not, or
  one wait for the other; the proofs cover any `MaxFields`. Of the reasons, two
  name what happened and one leaves it open.

`CHECK_DEADLOCK FALSE` is set in every run: requests end, the process may have
panicked, time and the cluster's events are bounded.

## 5. Fairness

`Subscription`: the Go scheduler runs a goroutine that can run, so
`ProducerStep` and `ConverterStep` are weakly fair as wholes; which ready case a
`select` takes is not constrained. An API call whose context is cancelled
returns (`ctxDone /\ OpenFails`), which is what client-go guarantees. The cluster and the client owe nothing; `LiveDelivery` and
`ReturnCompletesClient` assume a client that keeps reading (`FairClient`) by
themselves. `RateLimiter`: time
passes, whoever waits for the mutex gets it, the cleanup runs when it can, and its `select` takes at random among the
ready cases, so a closed stop channel is taken in the end (strong fairness of
`CleanupReturns`, enabled whenever the goroutine is back in the `select`).
`Server`: main, the goroutine of `gracefulShutdown` and each field's goroutine
run when they can, a call to the API server or the database returns one way or
the other, the wait of `Shutdown` is bounded by its 30 seconds, and a stream ends
once its client has left (`gone /\ StreamEnds`; `CancelEndsProducer` shows that of
a producer). Signals and clients owe nothing, and no failure is forced: `Fatal`
has no fairness.

## 6. What is proved

All for any values of the constants that satisfy the `ASSUME`s of the modules
(`Cap`, `MaxReplicas` and `MaxUid` positive numbers, `OtherCounts` any natural numbers, `TTL` a number, `Shapes`
shapes a pod can have, `Stacks` stacks that name no kind twice, `Operations`
operations the schema permits, `Contents` of the shape of section 2, `MaxLag` about
half of a `Window`). Every safety invariant and every action property that a
passing run checks is a theorem.

**SubscriptionProofs**: `TypeCorrect`, `Conservation`, `Backlog`,
`LiveSubscriptionDoesNotPanic`, `ConverterExit`, `AuditOrder` and `Refinement`
(`Spec => StreamIsOneQueue`). The inductive
invariant is `TypeOK /\ Control /\ ConservedInOrder`. `Control` ties the places
of the goroutines to the channels and the audit: a goroutine has an item in hand
exactly where it checks or sends (or after it gave up, which needs a cancelled
context), `eventsChan` is closed exactly when the
producer is past its close, the rows in `audit` are those of the steps taken so far
or fewer, `serviceChan` exactly when the converter is done,
and the converter leaves its loop only when the context is done. It is needed
because `ConservedInOrder` alone is not inductive: a receive or a give-up keeps
the sequence only if the hand is empty or full as its place says. The
conservation proof rests on a few lemmas on concatenation (head, tail,
associativity), and `BoundedBacklog` follows from conservation and the lengths in `TypeOK`.
For the refinement, `LagIsInFlight` counts what is behind the client, which bounds
`Take` and `End`, and `HeadIsNext` says that the head of `eventsChan` is the oldest item
not delivered; a step that only moves an item on is a stutter.

**ScaleProofs**: `TypeCorrect`, `PreviousIsReplaced`,
`UnreportedChangesAreFailures`, `VersionsIdentifyObjects`, `SuccessRows` and
`Refinement` (`Spec => ScaleIsAtomic`). The inductive invariant `Inv` adds to
the type that no version exceeds `revision`, that a request at its `Update` has
seen an object that existed, with a count other than the wanted one, and that
equal versions mean equal objects; that is what makes the compare-and-swap of
`Update` an atomic read and write. The refinement proof maps each step: the
deciding steps to `Scale`, `NoChange`, `FailAfterChange` or `Refuse`, the other
writers to `Others`, and the rest to stuttering. `TypeCorrect` says of the counts
that only a request's own, the new one of its answer, is within the validated
range.

**RestartProofs**: `TypeCorrect`, `UnsupportedSurvive`, `SuccessIsExact`,
`RefusalsChangeNothing`, and a fact that no run lists, `WarningsAreDue`. `Good(r)` gathers what is said of one request; its part
`Control(r)` says that a request has done nothing before its call, and that a
restart comes to its call only with a type of the pod it examined that can be
restarted (`DetectFacts`, over all shapes and both outcomes of the lookup). A
step of one request leaves the others' `Good` alone (`OthersStayGood`), so each
action is looked at for one request. `SuccessIsExact` needs `UidsGrow`: the pod that
bears the name when the delete comes is the one the request examined, or has a
later uid.

**HealthCacheProofs**: `TypeCorrect`, `NoNilAnswer`, `SerialFreshness`.
`CacheFilled` says that a caller past its check for nil, or past its store,
finds a response; nobody ever empties the field. `Serial` says that without an
overlap one caller is active at most, and that its time, which becomes the
cache's, is no later than its response.

**ServerProofs**: `TypeCorrect`, `MutationsFollowEachOther`, `RowsMatchAnswers`,
`CodesAreReliable`, `ResponsesAreAllOrNothing`, `ListsTellTheCluster` and `CountsHold`,
for any number of requests and any content. The invariant `Inv`
says of every slot alone that its record is consistent (`GoodRecord`: nothing is
known before the resolver is called; then row, code and effect agree with the
outcome, and in the end the null does), that it holds the field of its place in
the operation (`Placed`), of slots together that a mutation that was begun finds
those before it done (`InTurn`), of a response that its fields are done and its
data are null exactly if one of them is (`Responded`), and that `answer` is
`Marshalled(content)`. `StepKeepsInv` reduces a step of a slot to its new record.

What is answered matters in one step, the marshalling of a field, and there
`AnswersAreData` says that it is not null: type by type, the converters of every
content give a pointer wherever the schema wants a value, and `Dispatch` of such an
object is not null. With it, a null is a failure, which is `AllOrNothing`.

`ListsAreFaithful` follows from what the converters and marshallers make of any
content, object by object. The sums are a recursive function: `TotalsExist` and
`TotalsAreOne` show, by induction, that it has the values its equation gives, and
from them come that the restarts a pod's containers add up to are those of its
statuses, however these are ordered, and that the ready ones are counted. The ages
are read back by cases of the units that are not zero. The row of a list counts
the same objects, which is an invariant of its own (`RowsCount`).

The induction is over natural numbers and is spelled out: `LeastExists` gets from
the library's `WFMin` that a set of naturals has a least member, and a proof takes
the least place at which a claim fails.

**RateLimiterProofs**: `TypeCorrect`, `OpenWindowsStay`, `HistoriesHold`,
`BurstsAreBounded`. The invariant `Inv` adds to the type that the reading of the
cleanup, and of each request that waits for the mutex, is not ahead of the clock
and the latter not older than `MaxLag`; what the cleanup finds over is over.
`BurstBound` is about the past, so it needs to know where it can be cut:
`History(k)` says that there are two times, where the last window of the key
opened and where the one before did, more than `Window - MaxLag` apart, such that
the requests admitted before, between and after them are less than a quota, a
quota, and a quota, and the limiter's entry counts the last ones. Time that
passes takes requests from the front (`CutAges`), an admission adds one to the
last part or opens a window and moves both cuts on; and the oldest window has
then lost a request to the past, because two windows and a bit are longer than
`Window` (this is where `2 * MaxLag <= Window + 1` is used).

**MiddlewareProofs**: `TypeCorrect`, `OneAnswer`, `FailuresAreTold`, for any
stacks and both installs. The positions in `waiting` climb and stay below the
place of whoever counts them (`Nested`), a middleware is called only in front of
the application, and Gin's index stays below what `Abort` and the returns can
make of it (`Bounded`), which needs that a stack is no longer than there are
kinds (`StackIsShort`, by an injection). From this follow the answers: who has
answered so far (`Recorded`), and that an error goes outwards until someone
answers it.

**MiddlewareOrderProofs**: `RecoveriesRecover`, `EntriesFollowAnswers`,
`IdsAreKnown`, on top of that invariant. `Ordered` says who is around whom: a
middleware that always calls `Next` is waiting while a later one runs
(`Covered`), so a recovery in front of a panic is there (`Unwound`), a logging
middleware is still to come, waiting or back (`Accounted`), and an id made in
front is in the context behind (`Identified`). `Handed` says that the record and the hand-over
to the audit logger are made together.

## 7. What is only model-checked

- Liveness (`CancelEndsProducer`, `LiveDelivery`, `ReturnCompletesClient`,
  `ExpiredWindowsGo`, `StopEndsCleanup`, `OperationsAreAnswered`,
  `ShutdownEnds`): the prover does not reason about fairness and `ENABLED`.
- That the hazardous cases occur: that channels fill, windows open out of order,
  replies are lost and shutdown meets a mutation is seen in the runs, and a
  theorem does not show it.

## 8. What is not modelled

- Of the executor: selection sets (all fields are selected), introspection,
  complexity limits, deferred fragments, the transports. They change which
  fields are asked for, not what a field answers.
- Of pods: conditions, annotations and resources, which `ConvertPod` computes and
  `ConvertPodInfo` drops. `CachingTypeConverter` and `CompositeValidator` have no
  caller.
- Names: their format is a verdict chosen at random; the models do not tell two
  valid names apart. Wording of messages, columns of rows, users and addresses.
- Inside gorm and client-go: a call succeeds or fails. A call that waits for a
  connection of the pool is one that has not returned yet.
- Values of the configuration, the file the Kubernetes client reads: a step
  that succeeds or fails. CORS and the constant routes of `main.go` keep no state.
- `internal/handlers`: excluded from the build (`//go:build ignore`).
- `RolloutRestart` and the lists of the workload services have no caller: the
  orchestrator patches and the adapter lists by themselves.
- That a status set before `JSON` does not reach the client (`gin_adapter.go:74`)
  is in the model of `Middleware` as it is, and no property is about it.

## 9. Plan

Written, in this order: `Subscription`, `Scale`, `Restart`, `RateLimiter`,
`HealthCache`, `Middleware`, then `Schema`, `Converters` and `Server`; every
state machine has proofs. What could follow:

1. An abstract limiter for `RateLimiter` to refine, with which `Middleware` can be
   composed: it admits or refuses, and fewer than three quotas in a window's time.
2. An abstract specification of the executor for `Server` to refine: an operation
   is answered at one instant, by all of its fields or by null.
3. The process of `Server` composed with the goroutines of `Subscription`, whose
   panic would end it, and with the audit goroutine of `logging.go`.
