# Formal models of ioshelfer

This directory holds TLA+ models of the ioshelfer service (`src/`), the TLC
configurations that check them on small instances, and TLAPS proofs of the
properties that matter most. Every definition is translated from the Go code;
`PROJECT.json` names the lines of each one (`map`), the question each run asks
(`runs`), a plausible bug that each property catches (`mutants`), the hazards
of the code (`hazards`), the disagreements between code and documents
(`findings`) and the theorems worth knowing (`theorems`).

Contents: 1 the system, 2 the models, 3 the runs, 4 the proofs, 5 the findings,
6 abstractions and what is left out, 7 the plan.

To check: `tlc -workers 2 -config X.cfg M` for the run of module `M`, and
`tlapm M.tla` for `FileStorageRefinement` and the modules whose names end in `Proofs`.

## 1. The system

ioshelfer watches RAID controllers, disks and network interfaces for
sub-health: a device that still works but gets slow or unreliable. It reads
metrics through eBPF and SMART dumps, keeps their history in files, judges them
by thresholds and service level objectives, isolates and recovers RAID
controllers, and answers HTTP requests about all of that.

**The repository is not complete and does not build.** `internal/core` itself
(`core.NewEngine`), `config`, `api.NewServer`, `detection.NewDetector`, the
detector and predictor methods the API and the client call (`CheckRAIDHealth`,
`CheckHealth`, `PredictDiskFailure`, `CheckDevice`) and the error constructors `NewNotFound` and `NewNetworkFailure` are used and not defined, and
`*ebpf.Monitor` is a pointer to an interface. Every `*_test.go` is an empty
package, `tests/integration_test.go` is written against mocks that do not
exist, and `api/v1/disk.go` ends before the end of its last handler. What is there is modelled as it stands. What is missing is external: it is
modelled from its uses, as a call that returns a result or an error.

### Inventory

| Component | Source | State | Operations | What is hard | What makes it correct |
|---|---|---|---|---|---|
| File storage | `internal/infra/storage` | one JSON file per device, an `RWMutex` | `NewFileStorage`, `Store`, `Query` | readers and writers, crash inside `os.WriteFile`, failing file operations, missing directories | no lost update, no torn read, history only grows, every call returns |
| SMART monitor | `pkg/disk` | none of its own; the history in the storage | `ParseSMART`, `MonitorPerformance`, `GetHistoricalData` | stamp and store are two moments, damaged dumps, values that change type on disk, two sets of thresholds | order of the history, prediction agrees with health, wear is never a decrease |
| Health detectors | `internal/core/detection` | thresholds | `CheckSubHealth` of RAID, disk, network | rules overwrite each other | coherent and monotone verdicts |
| RAID controller | `pkg/raid` | thresholds, firmware version | `CheckHealth`, `GetMetrics` | a second copy of the rules, the firmware rule has the last word | agrees with the detector |
| SLO validator | `internal/core/slo` | table of objectives | `GetSLOConfig`, `ValidateSLO` | lookup by a composed key, four assignments per check | the configured objectives are used, the answer is coherent, critical is stricter |
| RAID remediator | `internal/core/remediation` | configuration; the paths it isolates | `Isolate`, `Recover` | concurrent callers, metrics that change between check and action, failing reads | no action on a stale diagnosis, enough paths left, errors tell what failed |
| Errors | `internal/common/errors` | none | `New`, `Wrap`, `Is`, constructors | `New(msg, nil)` is `nil`; `Is` sees the outermost code only | codes survive wrapping, and a cause's code is not taken for the error's |
| Network API, webhook | `api/v1/network.go` | a mutex, an HTTP client with a timeout | `handleHealth`, `sendWebhookAlert` | many handlers, one mutex, a slow or silent receiver | every client is answered, order and uniqueness of notifications |
| RAID and disk API | `api/v1/{raid,disk}.go` | none of their own | four handlers | devices come and go, wrapped errors, values JSON cannot hold | the status code is true of the device |
| Service process | `cmd/ioshelfer` | engine, server goroutine, signal channel | `main`, `gracefulShutdown` | signals at any time, failing parts, a goroutine nobody joins | orderly start and stop, the process always ends |
| eBPF monitor | `internal/infra/ebpf` | none (placeholder) | `Get*Metrics`, `Close` | | a source of readings |
| Failure predictor | `internal/core/prediction` | none (placeholder) | `PredictFailureProbability` | | |
| Traffic analyzer | `pkg/network` | none | `AnalyzeTraffic`, `MonitorLatency` | the trend of one reading | a worse reading never gets a better trend |
| Metrics collector | `internal/infra/metrics` | Prometheus gauges | collectors | | |
| Chaos experiments | `internal/chaos` | none | `Execute`, `Validate` | timer against cancelled context, an injected fault without an error | the result tells what became of the fault, every experiment ends |
| Logger | `internal/common/logger` | one global | `Init`, `Get` | unsynchronised creation, `Init` against `Get` | a configured logger stays |
| Enumerations | `internal/common/types/enum` | none | `String` | | |
| Client | `cmd/cli` | configuration, a detector and a predictor that may be missing | `healthcheck`, `predict`, `status`, `list`, `config` | devices that fail or hang under one deadline, parts that are nil | no device is lost, exit code and output agree, a health check ends |

How they interact. `main` starts the engine and the server. An HTTP handler calls
a detector, which reads the eBPF monitor. The remediator calls the RAID detector
and acts on its answer. The SMART monitor and the predictor call `Store` and
`Query` of the storage, which is the only shared data of the system. The network
handler posts to a webhook. Handlers and experiments share the global logger. The client
is a process of its own: it asks the service nothing, but makes its own detector and
predictor. There are no callbacks besides the signal channel;
the goroutines are HTTP handlers, callers of the library packages, and the one
that `main` starts.

## 2. The models

| Module | Models | Kind |
|---|---|---|
| `MetricLog` | what the storage promises: an atomic, append-only log per device | abstract specification |
| `FileStorage` | `FileStorage` of `storage.go`, statement by statement | detailed, implements `MetricLog` |
| `SmartMonitor` | `SMARTMonitor` of `smart.go` over an atomic log | state machine and pure analyses |
| `HealthRules` | the detectors' and the controller's rules | pure operators |
| `SLORules` | the table of objectives, its lookup, `ValidateSLO` | pure operators, extends `HealthRules` |
| `HealthReadings` | readings that change, judged by both rule sets | state machine over `SLORules` |
| `Remediation` | `RAIDRemediator` with concurrent callers | composes `HealthRules` and `Errors` with the callers |
| `NetworkWebhook` | `handleHealth` and its webhook | state machine |
| `Lifecycle` | `main` and `gracefulShutdown` | state machine |
| `Errors` | errors, their codes, `Wrap` and `Is` | pure operators |
| `Logger` | the global of `logger.go` | state and actions, for its users |
| `DeviceAPI` | the handlers of `raid.go` and `disk.go` | state machine over `Errors`, `Logger` |
| `Chaos` | `Execute` and `Validate` of `experiment.go` | state machine over `Errors`, `Logger` |
| `SharedLogger` | handlers and experiments in one process | composes `DeviceAPI`, `Chaos`, `Logger` |
| `Cli` | a run of the client, `cmd/cli/main.go` | state machine |
| `Programs` | the service and the client on one host | composes `Lifecycle`, `Cli` |
| `MC*` | values of the constants for TLC | |
| `*Proofs`, `FileStorageRefinement` | theorems and proofs | |

### FileStorage and MetricLog

`pc[p]` is the next statement of goroutine `p`; `req`, `buf` and `rsp` are the
arguments, the local `metrics` and the result of its call. A metric is abstracted
to its time stamp, and the answer of a `Query` to the positions it returns, so
that equal metrics stay distinct. `disk[f]` is what is at a path: nothing, a
complete JSON array, or torn bytes. The statements of `Store` are `Lock`,
`Drained`, `StoreRead` (ReadFile and Unmarshal), `StoreOpen`, `StoreWrite` and
`Unlock`; those of `Query` are `RLock` or `RBlock`, `QueryRead`, `QueryFilter` and
`RUnlock`. Two things are finer than the code's lines, because the hazards are
there:

- `os.WriteFile` is two steps, the truncation at open and the write. A crash or an
  error between the two leaves a torn file. Nothing repairs it, as `Store` parses
  the old contents first.
- The `RWMutex` is the one of package `sync`: a writer that has taken the writers'
  mutex keeps new readers out while it waits for present ones (`Lock`,
  `Drained`), and `Unlock` admits the readers that queued meanwhile.

`NewFileStorage` creates only `baseDir`. `Prepared` is the set of per-type
directories that somebody else has created; the run `StoreSavesMetric` starts with
none, which is what the program does.

`MetricLog` says what callers may rely on: a call takes effect atomically between
call and return, or fails without effect; a failing `Store` or a crash may
poison its own device's log for ever, and no other. `ImplementsMetricLog` is
checked with the refinement mapping `log <- Log`, `poisoned <- Poisoned`,
`phase <- Phase`. During a `Store`'s write the file is torn, and the mapping takes
the log from the local variable of the goroutine that writes: this is the
reason why a crash at that moment is the abstract crash that poisons one log.
TLC checks the refinement on the run's instance, and `FileStorageRefinement` proves it.

### SmartMonitor

A collector parses a dump (`ParseSMART`: the stamp is taken before parsing) and
stores the sample later (`Store`, `StoreFails`: a failing Store is only logged).
`Dumps[w]` are the texts smartctl may print at wear level `w`, as sequences of
lines: the "Device:" line, others that are not used, and attribute lines that are good,
garbled (rejected) or short (a zero attribute, as `errors.New(msg, nil)` is nil). An empty text is
answered by (nil, nil) and stores nothing. A dump without a "Device:" line is stored under the
empty name, `NoDevice`, so `log` is indexed by `IDs`, the disks and that name: the samples of all disks
mix there, as they do in the code, and `CollectorOrder` and `PredictionAgreesWithHealth` hold of
that history too. The properties about wear are of the disks, for any number of collectors each:
two samples are compared when both are of whole dumps and the second is not a late one
(`InOrder`: its stamp is later, or it is of the same collector). `MonitorPerformance`, `analyzeErrorTrend`,
`predictFailure` and `GetHistoricalData` are operators on the stored history. A `Query`
answers the positions of metrics in the history; `Oldest` and `Latest` are the two ends that
the analyses look at. `WearAssumption` says what the dumps of a wearing disk have in common:
the SMART counters of reallocated sectors and of read errors only grow, so a whole dump at
a higher level shows no less, and whole dumps of one level show the same. Garbled and short
dumps, temperature and the failing flags are free.
`kind` tells `FileStorage`, through which a value comes back as a map and fails the
type assertion, from a storage that returns what it got. The log is the atomic
one that `FileStorage` is shown to implement, with values added to the stamps.

### HealthRules, SLORules, HealthReadings

The verdict rules are chains of `Override(applies, verdict, before)`, one per `if`
of the code and in its order. `CheckHealth` is the controller's own copy, with
the `math.Min` on the confidence (`Lesser`) and the firmware rule last. In
`SLORules`, `configs` is the table of `initDefaultConfigs`, a key being the pair of
parts of its string; `LatencyTrend` is the one decision of `MonitorLatency`; `String` is `DeviceType.String`; `GetSLOConfig` is the lookup
with its fallback. `HealthReadings` lets every reading change freely, so a step is
any pair of readings; that is what monotonicity is about.

### Remediation

A call is `Call`, then `Refuse` (wrong type, AutoIsolation off), `CheckFails` or
`CheckSubHealth`, then `Act`. Check and act are separate steps, without a lock, as in
the code; `Drift` changes the metrics between them. `since[p]` is a history
variable: every health there was during `p`'s call. `isolated` is the state that
the placeholder actions announce in the log.


### NetworkWebhook

One goroutine per request: `MethodNotAllowed`, `Check`, `Stamp`, `Encode` or
`EncodeFails`, `Lock`, `Post` or `PostFails`, then `Answered` or `Timeout`, `Unlock`. The
network delivers a post (`Receive`), loses it (`Lose`), or delivers it after its
client gave up. The response is small, so net/http flushes it when the handler
returns: `reply` is set by the last step.

### Lifecycle

`main` is the next statement of the main goroutine, `server` the goroutine of
`apiServer.Start`, `quit` the channel with its buffer of one. `SignalArrives`
distinguishes signals that are relayed from those that kill. `log.Fatalf` and
`os.Exit` end the process without deferred calls, which is why `Exit` changes
nothing else. The path of `-version` is included.

### Errors

An error is the sequence of its layers, outermost first; `nil` has none. A layer is
a code, or `Plain` for errors of other packages. `Wrap` copies the code and the cause of
an outermost `CustomError` and puts a plain layer around all else, so `Wrap(nil)` is
`nil`; `New` is `Wrap`. `Is` compares with an error that the caller has just made:
codes if the outermost layer has one, else pointers, which differ. `Foreign` is a
wrapper of another package, which hides the code below it.

### Logger, DeviceAPI, Chaos, SharedLogger

`logger` is the global, `getting` the goroutines in `Get` between the test for nil and
the assignment. A goroutine that logs takes `GetFinds`, or `GetFindsNil` and later
`GetFallsBack`; `Configure` is a successful `Init`. Only the first log of a call is
modelled, since the global never becomes nil again.

`DeviceAPI`: one goroutine per request: `Arrive`, `Reject` (method, missing ID) or `Ask`,
`Log`, `Answer`. `Plug` lets devices come and go at any time; `met[h]` is a history
variable, whether the device was there at some moment of the request. `Ask` answers with
measurements, one of which may be a NaN, or with an error that its callers may have
wrapped (`OnItsWay`). `Code` is the choice of the status code; `json` tells the handlers
that encode JSON from those that print text. A window that does not parse becomes 24
hours; it is only passed on, and left out.

`Chaos`: `CallExperiment`, `LogStart`, `CheckContext` or `CancelledBefore`, then
`RefuseConfig`, or `Validate`, or `Inject` and the `select`, which `Complete` (the timer) or
`Interrupt` (the context) leaves. `Cancel` comes at any time. `fault` is what has become of the
injected fault.

### Cli and Programs

`step` is the next statement of the client. `ReadConfig` and `InitComponents` may leave the
configuration empty and the parts nil; `Dispatch` chooses the command, and flags are
chosen where they are first looked at (`--all` or an argument, any of `Devices`, in `ChooseTargets`, the format in
`OutputResults` and `OutputFails`). In the loop over devices each one answers
(`DeviceAnswers`), fails (`DeviceFails`), or hangs until the deadline (`Expire`) makes it give
up (`GiveUp`). `targets`, `todo`, `results` and `skipped` account for the devices.
`NilDetector` is the panic of the commands that look at no part before they use it. What a
command prints is abstracted to its items. The lists of devices, of the host and of the
configuration, may name a device twice; `PartOf` therefore accounts for positions in the list and
not for names. `Programs` lets a client run beside the service; the two share no state.

## 3. The runs

| Run | Expect | Properties | Shows |
|---|---|---|---|
| `FileStorage` | pass | `TypeOK`, `RWExclusion`, `NoSpuriousError`, `AppendOnly`, `PoisonIsPermanent`, `ImplementsMetricLog`, `CallsReturn` | the lock protects the read-modify-write; history grows or is ruined as a whole; the abstract log is implemented, crashes and errors included; no call starves and none deadlocks |
| `StoreSavesMetric` | violation | `StoreSavesMetric` | on a new storage every Store fails |
| `HistorySurvives` | violation | `HistorySurvivesOneFault` | one crash ruins a device's history |
| `SmartMonitor` | pass | `TypeOK`, `CollectorOrder`, `PredictionAgreesWithHealth`, `WearNeverDecreases`, `PredictsFailureInMemory` | how stamps, order, thresholds and analyses fit together |
| `PredictsFailure` | violation | `PredictsFailure` | over FileStorage no failure is ever predicted |
| `HealthReadings` | pass | `VerdictType`, `VerdictsCohere`, `ControllerAgrees`, `ValidationCoheres`, `CriticalIsStricter`, `NeverMilderWhenWorse` | verdicts are coherent, agree, and are monotone |
| `JudgedByItsSLO` | violation | `JudgedByItsSLO` | every SLO lookup falls back to the loosest objectives |
| `Remediation` | pass | `TypeOK`, `ErrorsKeepTheirCode`, `EffectsAreJustified` | no call acts on a diagnosis older than itself |
| `PathsPreserved` | violation | `PathsPreserved` | two isolations leave no path |
| `NetworkWebhook` | pass | `TypeOK`, `InOrderUnlessLate`, `NotifiedAtMostOnce`, `SameForClientAndWebhook`, `EveryClientAnswered` | notifications and answers over an unreliable network |
| `Programs` | pass | `ProgramsTypeOK`, `ServesOnRunningEngine`, `SuccessMeansStopped`, `KilledOnlyAtStart`, `SignalEndsProcess`, `ServerFailureEndsProcess`, `DevicesAccountedFor`, `OutputMatchesExit`, `HealthcheckEnds` | the service starts and stops in order and ends; the client loses no device, its exit code and output agree, and a health check ends |
| `SharedLogger` | pass | `TypeOK`, `ResultTellsOfTheFault`, `CodesAreTrue`, `ConfiguredLoggerStays`, `WorkEnds` | status codes and results tell the truth, a configured logger stays, all work ends |

### Bounds, and why they are enough

- `FileStorage`: three goroutines are the least at which a reader, a writer that
  holds the lock and one that waits meet; three metrics per file (`MaxLen`, counting Stores under
  way) show an append to nothing and to something; a clock of two ticks with a
  window of one puts a metric exactly at the edge of the window; one mishap is what
  the fault properties speak of. There is one device: with two, the run takes more
  than its time with its liveness property in it. That one device's fault leaves the others
  alone is a theorem for any number of them (`StorageImplementsLog`, section 4), as is every
  property of the run but liveness.
- `SmartMonitor`: prediction needs three metrics, so `MaxLog` is 3; three wear
  levels (healthy, between the two sets of thresholds, failed), and two collectors on
  one disk for samples out of order; dumps with and without a "Device:" line, and an empty one.
  Store beyond `MaxLog` fails, which the code may
  do at any time anyway.
- `HealthReadings`: each metric takes the value on both sides of its
  threshold; availability also takes those around the five-percent line. Rules only compare,
  so other values behave as one of these; the theorems cover all of them. Network latency
  also lies around the two constants of the trend.
- `Remediation`: two callers are enough for a race between an isolation and a
  recovery; two controllers for the last path; a reading for each verdict.
- `NetworkWebhook`: two posts in either order, with a rejected request; two seconds,
  as stamps are printed in seconds.
- `Programs`: both signals, three in all: one to begin the shutdown, one to
  fill the buffer and one to be dropped. Two disks, so that one may fail before and one
  after another; configurations that are empty, lack a part, or are whole.
- `SharedLogger`: one handler and one experiment race for the logger, with each other and
  with `Init`; handlers and experiments share nothing else, so more of them repeat the same. One
  device, as a request asks for one.

Symmetry (goroutines; callers and controllers) is used only in runs without
liveness properties, and the symmetric constants occur in no other definition.
Deadlock is checked except in `Programs`, where both processes end. No other run
stops: in the other models time, readings or callers can always go on, or all requests are
answered while the readings change, so the liveness properties, not the
deadlock check, say that nobody is stuck.

### Fairness, and why the code justifies it

- `WF` of a goroutine's own steps: the Go scheduler runs every runnable
  goroutine, and the file operations return.
- `SF` of taking a mutex that is free again and again (`Lock` in `FileStorage` and
  `NetworkWebhook`): `sync.Mutex` hands itself to the oldest waiter after a
  millisecond of starvation. `WF` is not enough, since others may take the mutex in
  between. The mutant `LockWhenFree` shows that without the writer's precedence over new
  readers a `Store` starves even so.
- `WF` of `Timeout` in `NetworkWebhook`: the HTTP client has a timeout of ten
  seconds. Nothing is assumed of the receiver: `Answered`, `Receive` and `Lose` are not
  fair. The mutant without a timeout leaves clients unanswered.
- `Programs`: `WF` of the main goroutine and of `Fatalf` after the server's failure, which
  assumes that `engine.Start`, `engine.Stop` and `server.Stop` return; this cannot be
  seen in this repository. Nothing makes the server return or a signal come. `WF` of the
  client's own steps (`CliStep`), the timer of its context among them; devices need not
  answer, so `DeviceAnswers` and `DeviceFails` are not fair. That `CheckDevice` returns once its context is done (`GiveUp`) is the
  contract of a context. The mutant without a deadline leaves a health check hanging.
- `SharedLogger`: `WF` of each handler's and each experiment's own steps; the timer of a
  fault fires, but no context need be cancelled, and nobody has to initialise the logger.

No fairness is given to clocks, crashes, failures, devices that come and go, or new calls.

## 4. The proofs

Every theorem holds for all values of the constants allowed by the `ASSUME` of its
module: any number of goroutines, devices, collectors, callers, controllers, requests,
handlers, experiments and signals, any thresholds, readings and dumps. The assumptions
give the constants their types, and say that `Nobody` is no goroutine or request and
`NoDevice` no device or disk; the one about the world outside is `WearAssumption` (section 2), on which only `WearIsNeverADecrease`,
`AlarmStaysInMemory` and `NoFalseRecovery` rest.

| Module | Theorem | Statement | Argument |
|---|---|---|---|
| `FileStorageProofs` | `TypeCorrect` | `[]TypeOK` | by action |
| | `CallsKeepTheirKind` | a goroutine is at a statement of the operation it called | `CallInv` |
| | `MutualExclusion` | `[]RWExclusion` | inductive `LockInv`: whoever is at or past `drain` is `writer`, `readers` are exactly those inside the read section, and past `drain` there are none. `RWExclusion` alone is not inductive, for it says nothing of the lock |
| | `SomebodyCanGoOn` | while a call is under way, some call waits for nobody: no deadlock, crashes and errors included | `LockInv` with the inductive `HolderInv`: the writers' mutex is held by a goroutine that is on its way to `Unlock`, and a blocked reader has a writer to wait for. Then either a reader inside can go on, or the holder can, or the mutex is free |
| | `FilesStayAsRead` | between its read and its write a Store's file is what it read | `FileInv`, from the exclusion: this is why no update is lost |
| | `OnlyMishapsFail` | `[]NoSpuriousError` | inductive `ResultInv` (no result before the unlock) and `TornInv` (without a mishap a file is torn only while its writer writes it), with the exclusion |
| | `NoWayBack` | `PoisonIsPermanent` | `StepsOnLogs` |
| | `NothingIsLost` | `AppendOnly` | `StepsOnLogs`: every step leaves a log alone, appends to it, or poisons it |
| `FileStorageRefinement` | `StorageImplementsLog` | `ImplementsMetricLog` | `NothingReadChanges` (what a Query has read stays in the file until it is filtered) joins the invariants above. One lemma per abstract action states it in terms of the mapping (`Logs`, `Poisons`, `Phases`), one per kind of step shows which of them it is: a move inside a call is a stutter, `StoreWrite` the abstract Store, a failing write a ruin, a crash the crash that ruins at most the log of the one Store that writes |
| `HealthReadingsProofs` | `VerdictsAreTyped`, `VerdictsAlwaysCohere` | `[]VerdictType`, `[]VerdictsCohere` | each detector's verdict is one of a few whole verdicts (`RAIDVerdict`, `DiskVerdict`, `NetworkVerdict`, `ControllerVerdict`), and each of these is `Coherent` |
| | `ControllerAlwaysAgrees` | `[]ControllerAgrees` | both copies, case by case |
| | `NeverMilder` | `NeverMilderWhenWorse` | one monotonicity lemma per rule set |
| | `ValidationsAlwaysCohere`, `CriticalAlwaysStricter` | `[]ValidationCoheres`, `[]CriticalIsStricter` | for all indicators; the second by the six rows of the table |
| `RemediationProofs` | `TypeCorrect` | `[]TypeOK` | by action |
| | `NoStaleDiagnosis` | `EffectsAreJustified` | inductive `DiagnosisInv`: during a call the present health is in `since`, and between check and action `since` holds a health that justifies the action, with AutoIsolation on for an isolation |
| | `ErrorsTellWhatFailed` | `[]ErrorsKeepTheirCode` | inductive `ErrorInv`: an answer carries `nil` or the detector's error, which `Wrap` keeps (`ErrorValues`) |
| `ProgramsProofs` | `Safety` | the service: `[]Inv` | `Inv` is the four invariants of the run and `ProgressInv`: what has been started, stopped and asked for at each statement of `main` |
| | `ServesWhileRunning`, `SuccessIsHonest`, `KilledOnlyEarly` | `[]ServesOnRunningEngine`, `[]SuccessMeansStopped`, `[]KilledOnlyAtStart` | from `Inv` |
| | `CliSafety` | the client: `[]CliInv` | `CliInv` joins the types, `DevicesAccountedFor` and `OutputMatchesExit` to `StepInv` (what is known at each statement: no devices before they are chosen, which commands have a loop) and `LoopType` (the four lists are sequences of device names) |
| | `NoDeviceForgotten`, `ExitTellsOfOutput` | `[]DevicesAccountedFor`, `[]OutputMatchesExit` | from `CliInv`; `Accounted` keeps the set of positions that have a result, and `PartGrows` adds the next one behind them; `AccountStep` moves the next device to the results or, by `AccountIsSymmetric`, to the skipped ones |
| | `BothTyped` | `[]ProgramsTypeOK` | from `Safety` and `CliSafety`, since a run of both is one of each (lemma `EachRunsAsAlone`) |
| `NetworkWebhookProofs` | `TypeCorrect` | `[]TypeOK` | by action, with `CheckedInv`: after its check a request has a verdict |
| | `NeverTwice` | `[]NotifiedAtMostOnce` | `OnceInv`: what is on the wire and what has been received are of different requests; `SentInv`: a request that has not come to its post has nothing there |
| | `SameStory` | `[]SameForClientAndWebhook` | `SentInv` (what is sent is the request's verdict) and `ReplyInv` (no reply before the end) |
| | `OrderedUnlessLate` | `[]InOrderUnlessLate` | `MutexInv` (whoever posts, waits or unlocks has the mutex) and `OrderInv`: as long as nobody is late, the post on the wire is that of the holder, who waits for it, and is not older than any received. The received list alone says nothing of the wire, so it is not inductive |
| | `SomebodyCanGoOn` | while a handler is not finished, some handler does not wait for the mutex: no deadlock | inductive `HeldInv`: the holder is at the post, waits for its answer, or unlocks, on every way out of `sendWebhookAlert` |
| `SharedLoggerProofs` | `TypeCorrect` | `[]TypeOK` | by action |
| | `InitIsLasting` | `ConfiguredLoggerStays` | `Settled` (a configured logger and nobody in `getting`) is kept by every step; it is its own strengthening |
| | `ResultsAreHonest` | `[]ResultTellsOfTheFault` | `FaultInv`: no fault before the `select`, at which the result claims success already |
| | `CodesAreHonest` | `CodesAreTrue` | `MetInv` (the device's present state is in `met`) and `ResultInv` (what `Ask` brought is of a device that was there, or of one that was missing); then the choice of the code, case by case |
| `SmartMonitorProofs` | `TypeCorrect` | `[]TypeOK` | a dump's last accepted line is one of its lines (`LastPosition`, by well-foundedness of the naturals), and its sample is stored under the disk or under no name |
| | `CollectorsStayInOrder` | `[]CollectorOrder` | `PendingInv`: a collector's parsed sample is not older than anything it has stored, under any ID, nor than what is before that in the history. The history alone does not say what is pending, so it is not inductive |
| | `PredictionAlwaysAgrees` | `[]PredictionAgreesWithHealth` | `AssessedInv`: every sample, pending or stored, is `Coherent`, its status being what its own counters give; then the two sets of thresholds are compared (`ThresholdsAgree`) |
| | `WearIsNeverADecrease` | `[]WearNeverDecreases` | inductive `WearInv`: whole samples show counters of a dump at a level of wear the disk has reached (`OriginInv`), so none with a later stamp, or stored later by the same collector, shows less (`GrowthInv`, between stored samples, between stored and pending ones and among pending ones). Growth in the history alone is not inductive: a sample that is parsed before another and stored after it must be known while it is pending. `OrderInv` is part of it: a new stamp is not before any other |
| | `AlarmStaysInMemory` | `[]PredictsFailureInMemory` | `WearInv`: the latest sample, if it is whole and in order, is at least as alarming as a whole one before it |
| | `NoFalseRecovery` | of a disk's whole samples, none in order after a Failed one is better | `WearInv` and `AssessedInv` |

Only model-checked: the liveness properties (`CallsReturn`, `EveryClientAnswered`,
`SignalEndsProcess`, `ServerFailureEndsProcess`, `HealthcheckEnds`, `WorkEnds`), since liveness under fairness and
`ENABLED` are out of the prover's reach. Every other property of a passing run is a theorem. The
two theorems on deadlock are the safety half of `CallsReturn` and `EveryClientAnswered`. What a
recursive definition or a fold computes for every input cannot be proved with the installed
provers, as induction theorems with operator parameters cannot be instantiated; no proof needs it:
the models speak of positions in a sequence where the code loops over one. No module declares
a RECURSIVE operator. The fold in `Room`, a bound, appears in no proof.

## 5. Findings

Each is a run that TLC must refute; `PROJECT.json` quotes the lines.

1. `StoreSavesMetric`: `NewFileStorage` creates only the base directory, `Store` writes
   into a subdirectory, and on a fresh storage every Store fails.
2. `HistorySurvives`: the only copy of the history is rewritten in place; one crash
   ruins it for good, while the architecture document promises that history
   survives a single fault.
3. `PredictsFailure`: values come back from JSON as maps, the type assertions fail,
   and no failure is ever predicted nor any trend seen.
4. `JudgedByItsSLO`: objectives are stored under `Disk_critical` and looked up under
   `disk_critical`; every service gets the fallback.
5. `PathsPreserved`: the ratio and the minimum of paths to keep are never read.

Beside these, the models contain behaviour that no document speaks of: `errors.New`
with a nil cause yields nil, so a refused remediation and a short attribute line
return no error; the deferred `Close` of the eBPF monitor never runs; and a
health check may be notified after a newer one.

## 6. Abstractions, and what is left out

- Real numbers are integers: percentages and hundredths of a percent, raw SMART
  counters (a rate is the raw value over a million). Comparisons are the code's, float
  rounding is not modelled.
- The answer of `Query` is a set of positions, given in the file's order.
- A crash is the death of the process: the operating system keeps what was
  written. Power loss without `fsync`, after which even a Store that has
  returned may be missing, is not modelled.
- An error of `Close` after a complete write is not modelled: `Store` would answer an error
  for a metric that is stored.
- One `FileStorage` per directory: no code of the repository makes a second one.
- The violations of an SLO validation are a set of kinds, not formatted strings.
- The `Error` field of a `RemediationResult` is the error itself; messages are left out.
- `IOPSVariance` and `LatencyP95` are copied from the eBPF metrics by
  `MonitorPerformance` and not modelled; nor is its early return when `Query` fails, which
  changes no state.
- The order of health checks themselves, as opposed to that of their stamps, is
  not constrained by the webhook's mutex and not claimed.

- The window of a prediction, the text of metrics, tables and JSON, and the flags
  that only choose what is printed are left out of `DeviceAPI` and `Cli`.
- An error that encodes only part of a JSON body is not modelled: the encoder writes the whole value
  or nothing. That writing to a client fails is not modelled either.
- A second `Init` of the logger and one that fails are the same as one: the first sets the same
  value, the second nothing. `Init` has no caller in the repository; it is modelled as
  a call that may come at any time.
- `AnalyzeTraffic` halves a latency and converts bytes; the throughput it reads is in no
  metric of the repository.

Not modelled, with reasons in `PROJECT.json`: the predictor (always 0.75, without a caller), the
Prometheus collector (one gauge per call, without a caller), the protocol buffers (no
implementation), build files and configuration. Nothing else of the
repository keeps state, decides or waits.

## 7. The plan

The order was: storage first, since it is the only shared and persistent state;
then its main user; then the verdicts; then what acts on them; then the edges of
the process, the handlers, the experiments and the client. All of it is done, and section 4
lists what is proved; what stays open are the abstractions of section 6 and the liveness
properties, which only TLC checks.

The number of runs is kept small on purpose: one per question.
