# Verification of the SecretUsage controller

The SecretUsage controller watches every object of a Kubernetes cluster that can
name a Secret and keeps, for each Secret name, one `SecretUsage` object that says
whether the Secret exists and who references it. This directory holds TLA+ models
of the controller, TLC configurations that check them, and proofs that the TLA+
proof system (TLAPS) checks. File names below are relative to the repository.

## 1. The system

| Component | State | Operations | Modelled in |
|---|---|---|---|
| Reconcile loop (`internal/controller/secretusage_controller.go`) | the request under work and its local variables; the stored objects | `Reconcile`, `secretExists`, `collectUsages`, `deleteSecretUsageIfPresent`, create, status update, label patch, status patch | `SecretUsageController` |
| Watches, handlers, queue (same file, `SetupWithManager`, `enqueue...`) | informer caches, events not seen, the deduplicating rate-limited queue | `For`, `Watches`, `enqueueForSecretConsumer`, `enqueueOwnKey` | `SecretUsageController` (when), `ConsumerTracking` (which keys) |
| SecretUsage object (`api/v1alpha1`, the CRD) | labels, status | desired labels and status, truncation, comparison, merge patch, decoding of replies, required fields | `UsageObject` |
| Per-Secret metrics (`metrics.go`) | three gauges per Secret | `recordSecretMetrics`, `clearSecretMetrics` | `SecretUsageController` |
| Aggregate metrics (`runAggregateMetrics`) | two cluster-wide gauges | a 30 s timer over the cached objects | `AggregateMetrics` |
| Reference extraction (`secret_refs.go`) | none | `referencesForObject`, deduplication, index, status entries | `ConsumerTracking` |
| Owned Pods (`PodIsCoveredByController`, `skipPod`) | none | the decision to skip a Pod | `ConsumerTracking` |
| Custom resource rules (`rules.go`, `setupRules`) | the compiled and the installed rules | `LoadRules`, `CompileRules`, `kindIsInstalled`, indexing | `ReferenceRules` |
| Startup and flags (`cmd/main.go`) | the process | load rules, set up, start, exit | `ReferenceRules`; flags are constants |
| Leader election (`--leader-elect` in `cmd/main.go`) | who leads; the standby's informers | win and lose the lease | `LeaderFailover` |
| Chart, manifests, RBAC, generated code, lab script | none | none | not modelled: nothing changes state there |

### How the parts interact

Users change Secrets and consumers in the API server. One informer per kind applies
the changes to its cache, in order for each object and at its own pace for each
kind, and calls the event handlers, which add Secret names to the queue. The one
worker takes a name and runs `Reconcile`: it reads whether the Secret exists, reads
the consumers of one kind after the other from their caches, decides, reads the
`SecretUsage` object from the cache, and makes at most two calls to the API server.
An error puts the name back after a delay. The writes come back to the controller as
events of `SecretUsage`, of which only creations and deletions are looked at.

### What is hard

- A reconcile is not atomic. Its reads come from caches that advance between them.
- Consistency rests on the queue: whatever made a read old must bring the key back,
  although the queue merges keys, and although handlers run after the cache changed.
- The object a reconcile compares with and patches is a cached copy, which may not
  show the controller's own last write; nothing re-queues a key when it catches up.
- Create and the first status write are two calls; labels and status are two patches.
- A reply may be lost, a watch may be interrupted, the process may restart.
- A leader that lost its lease may still have calls on their way, and its successor
  starts from informers that may lag behind.
- A comparison that never succeeds, or a call that is refused, may keep a key in the
  queue for ever.
- A Pod may be covered by its controller before an event and not after it.
- One list of rules meets a cluster whose definitions come and go.

The full list, with lines, is under `hazards` in `PROJECT.json`.

### What makes each component correct

- Reconcile loop and queue: a key nobody will reconcile any more is up to date
  (`GaugesSettled`, `PresenceSettled`, `FreshReadSettles`), every change leads there
  (`EventuallyPresent`, `EventuallyExact`, `IndexCatchesUp`), and the retries end
  (`EventuallyAtRest`). All of it together: it implements an index that lags behind and
  catches up (`ImplementsIndex`). On the way there no object is created or removed in
  vain (`WritesJustified`).
- SecretUsage object: after a reconcile that read the latest one, the count is the total
  and the flag says whether the list is (`FreshReadCounts`), at, below and above the limit,
  and a limit of zero stands for the default and never cuts a list to nothing.
- Leader election: presence, gauges and the promise of the index with two processes writing
  (`PresenceSettled`, `GaugesSettled`, `FailoverImplementsIndex` in `Presence`).
- Aggregate metrics: whenever all is quiet and every last read was current, the timer would
  count right (`SummaryExact`), and the two gauges end up right (`EventuallySummarised`).
- Handlers: they skip no more than the collectors do (`EnqueueCoversChange`).
- Extraction: no reference is counted twice (`NoDoubleCount`); with owned Pods skipped,
  every other Pod is recorded (`UncontrolledRecorded`); with owned Pods tracked, nothing
  is lost (`NothingLost`).
- Rules: a file that cannot be read or has an invalid rule never gets a process running, and
  a process that runs tracks all of its file that is served (`AllOrNothing`), no kind is tracked
  twice at one version (`NoKindTwice`), and a valid file gets the process running (`ValidFileRuns`).

## 2. Modules

`UsageObject` has no variables. It defines the object and the pure part of
`Reconcile`: `desiredStatus`, `desiredLabelsFor`, `truncateUsages`, the two
`reflect.DeepEqual` comparisons, what `client.MergeFrom` sends and what the server
makes of it, and which status patches the CRD's required fields let through. Two
conversions are modelled by what they do. An empty list or map is omitted from the
JSON and comes back as nil, so it never compares equal to the allocated one that a
reconcile builds. The reply to a patch is decoded into the object the worker holds,
so an omitted field keeps its value there, and all of them do when the reply has no status
(`decodedInto`).

`SecretUsageController` extends it with the state machine.

| Variables | In the system |
|---|---|
| `secrets`, `specs`, `usages` | what the API server stores |
| `secretWatch`, `specWatch`, `usageWatch` | per object, the states its informer has not seen |
| `secretCache`, `specCache`, `usageCache` | the informer caches, which serve all reads |
| `notify` | `q.Add` calls the event handlers have still to make |
| `dirty`, `backoff` | the queue: keys to take, keys waiting for their retry |
| `worker` | the program counter and local variables of `Reconcile` |
| `gauge` | the per-Secret series |
| `fresh` | history: whether the last read of the object saw its latest state |

| Actions | In the system |
|---|---|
| `ChangeSecret`, `ChangeSpec`, `UserDeletesUsage` | users |
| `ObserveSecret`, `ObserveSpec`, `ObserveUsage` | an informer takes an event, or jumps over `n - 1` of them after a relist |
| `ResyncSecret`, `ResyncSpec` | the periodic resync |
| `Enqueue`, `RetryDue` | a handler's `q.Add`; the end of a rate-limited delay |
| `secretExists` | the worker takes a key and makes the first read |
| `collectUsages` | one collector lists one kind |
| `Forget`, `Delete` | `deleteSecretUsageIfPresent`, then `clearSecretMetrics` |
| `Get` | `recordSecretMetrics`, the read of the object, the comparisons |
| `Create`, `Publish`, `PatchLabels`, `PatchStatus` | the four writes, answered or with the reply lost |
| `Rejected`, `CallFails` | AlreadyExists, NotFound or Invalid; any other failure of a read or call |
| `Restart` | a crash or a rollout; caches filled, initial Create events queued |

`SecretUsageController` has three specifications. `Spec` has everything. `SpecInOrder` leaves out relists of
`SecretUsage`, so that the handlers see each of its events. `SpecUndisturbed` has those
relists and leaves out users who delete its objects. Section 4 says why no more is
promised with both.

`LiveIndex` is what the controller promises, with no caches, events, queues or calls: each
key has a view (what the cluster calls for), a series, and an object or none. A key is
stale from the moment its view moves or its object is touched. Only stale keys are written,
and a key stops being stale only in a step that leaves its series and its object right.
`SecretUsageController` instantiates it: the view is what a reconcile would compute from
the caches now (`viewOf`), and a key is stale unless it is quiet (`staleKeys`): nothing
will reconcile it and no event of its object is outstanding. The content of an object is
no part of the abstraction, because the code does not keep that promise (`StaleRead`).
In `SharedSpec` somebody else writes objects too, which makes their keys stale (`Meddle`).

`AggregateMetrics` adds the timer of `runAggregateMetrics`, which at any moment counts the
cached objects by their status. A restart zeroes the gauges; a list that fails leaves
them, so it is no step.

`LeaderFailover` composes the controller with a second process. The standby has the
consumers' informers running, because `SetupWithManager` registers their field indexes and
thereby creates them before the manager starts, and lists Secrets and `SecretUsage`s when it
is elected. `Failover` ends the leader in the middle of whatever it does; if its reconcile
was at a write, that reconcile stays behind in `late` and goes on at any later time, through
the actions of `SecretUsageController` instantiated with `late` for the worker (`Earlier`).
Leader and late calls together are to implement `LiveIndex`'s `SharedSpec`
(`FailoverImplementsIndex`).

`ConsumerTracking` is the other half: what an object contributes to the references
of a Secret, and which keys its events add. An object is the list of its slots
(image pull secrets, volumes, containers, ...); a slot holds a name, perhaps empty,
and everything that tells references apart. Its actions are the events that change
what is recorded: template edits, creation and deletion of Pods, ephemeral
containers, adoption and orphaning.

`ReferenceRules` is the life of the process with respect to the rules file: read and parse
it (`LoadRules`), compile one rule after the other (`CompileRules`), look each kind up
(`setupRules`), index the fields of those that are served (`IndexRules`), start, run, exit,
start again (`Restarted`), while definitions are installed and removed and discovery fails
for either loop. The file does not change: `readable` says whether it can be read and has
known fields only, and a rule may lack its apiVersion or kind (`NoGVK`), have an apiVersion
that does not parse (`BadGVK`), or have no path or one that does not parse.

The `MC...` modules bound these modules for TLC; the `...Proofs` modules hold the
theorems. Operators whose comment begins with "Mutant" are plausible errors in the
definition that follows them. They are used by no specification: each property is
known to fail when one of them replaces the definition, so that each property is
known to depend on the code.

### Abstractions

- One namespace: keys of different namespaces share nothing but the worker.
- A consumer is a rank in the order of `usageReferenceLess`, and names a Secret at most
  once in `SecretUsageController`. Several references of one object to one Secret are
  the subject of `ConsumerTracking`.
- Taking a key and the first read of `Reconcile` are one step. Both are local to the
  process; an event between them is an event before them.
- Jumps over events are allowed for every object at any time. This covers every
  relist, and more.
- `Restart` lets no call of the old process arrive late; `Failover` in `LeaderFailover` does.
  There one earlier leader at a time has calls on their way: a second failover waits until
  they arrived or were given up. It writes at most the calls left in its reconcile.
  Reads of the earlier leader have no effect and are left out, and so are its queue and
  its metrics, which nobody scrapes for long.
- `Status().Update` after `Create` is accepted while the object is the one that was
  created. The server compares a `resourceVersion` and a UID; an object that was removed and
  created again with the same labels and no status in between counts as the same here.
- Users do not edit the labels or status of a `SecretUsage`. The controller does not
  watch updates of it, so it repairs such edits only when the key comes back.
- `status.secretName` never differs from the key, and is left out. So are the width
  of `usageCount` (`int32`) and the text of references. A decoded reference list is
  one value, whereas Go's decoder may merge fields of list elements.
- The client library, the informers, the queue and the API server are outside the
  repository. They are modelled by what the controller relies on and are marked
  `external` in the map.

## 3. Runs

Unless said otherwise there is one Secret, two consumers of two kinds, room for one
reference (so the second one truncates), unused Secrets tracked, owned Pods skipped and
per-Secret metrics on. The bounds are budgets: how many changes, user deletions, faults, crashes
and relists a behaviour may have. What the controller itself does is not bounded.

| Run | Shows | Budgets |
|---|---|---|
| `Races` | types; gauges, presence, content and count at rest, in every interleaving with a user who deletes the object and a failed or unanswered call; no write in vain; the inductive invariants of the proofs; each step is one of `LiveIndex` (`ImplementsIndex`) | 2 changes, 1 deletion, 1 fault |
| `Relists` | presence, and content after a current read, with interrupted watches, resyncs and restarts; the inductive invariants of the gauges and of what a relist can skip (`RelistInvariant`) | 2 changes, 1 fault, 1 crash, 1 relist |
| `MovedReferences` | two keys, one consumer that names neither, one or both; unused Secrets not tracked, one name too long for a label; `--max-usages 0`, where the default must leave every list whole (`FreshReadCounts`) | 1 change, 1 fault |
| `Presence` | two replicas: presence and gauges at rest while an earlier leader's calls arrive late; each step is one of `LiveIndex` with a second writer; liveness: objects end up existing exactly where they should, the retries end, and each key is right again and again | 1 change, 1 fault, 1 failover |
| `Resync` | liveness: with the resync, every object ends up exact, and the two cluster-wide gauges with them; what the cached objects add up to is right whenever all is quiet and every last read was current; no per-Secret metrics | 2 changes, 1 crash |
| `SkipOwned` | handlers against collectors with owned Pods skipped (the default) | 1 workload, 1 Pod, up to 2 slots, 2 names, 2 paths |
| `Rules` | rules files against a changing cluster: an invalid file never runs and a valid one is taken as a whole, nothing is watched twice, and liveness: a valid file gets the process running | 2 kinds, 2 versions, 2 rules, 2 changes, 2 faults |

Why the bounds are enough. Every race of the core is between one reconcile and the
changes after its reads. One change can make a read old and a second one can undo
it, which is what a comparison with a stale copy needs; two consumers of two kinds
are the least that a collector can read in between. Keys interact through consumers
that name two Secrets and through the one worker, hence two keys. One failover is enough
for two writers: the earlier leader's reconcile and its successor's, with a standby that
has or has not seen the change. `ConsumerTracking` has
one workload because coverage relates one Pod to one owner; an owner of a kind that
is not tracked and no owner at all are in as well. Two slots are the least that
duplicates need. Two rules hold a good one and a bad one in either order, or a duplicate.
The theorems of section 5 have no bounds.

Runs that are expected to fail, each the evidence of one finding below:
`StaleRead`, `TornStatus`, `EmptyStatus`, `PodsLost`, `TwoVersions`.

Deadlock is not checked where the system may rest: with the budgets spent and all
keys settled, nothing is left to do. `ConsumerTracking` never rests, and there it is
checked.

### Fairness

`Fairness` in `MCSecretUsageController` asks of the environment what Kubernetes gives a
controller that is left running: informers deliver the next event of each object,
handlers run, delayed keys come back, a reconcile goes on and its calls are answered
(weak fairness). Failed calls are not fair: the budget bounds them, so the network
works in the end. Taking a key is strongly fair for each key: whether a key can be taken
goes on and off with the worker, and the queue is first in, first out. The resync and the timer
of the aggregate gauges are fair only in `MCSummarySpec`; informers resync every ten hours by
default, the timer fires every 30 seconds. Users, crashes, failovers and relists are never
fair, and nothing makes the earlier leader's calls arrive (`MCFailoverSpec`): a late
call may come in the last moment or never. `ReferenceRules` assumes that the process goes on and that Kubernetes
restarts it when it exits.

Three liveness properties (`EventuallyExact`, `EventuallyAtRest`, `EventuallySummarised`) hold
unless an object is left without a status for ever. That exemption is the finding
`EmptyStatus`: such an object is retried, and refused, without end.

## 4. Findings

Each one is a behaviour TLC produced in the run named here, checked against the
code; `PROJECT.json` quotes the sentence it contradicts.

- `StaleRead`: the reconcile compares with the cached copy of the `SecretUsage`. When that
  copy is older than the controller's last write and equals what is wanted now,
  nothing is written, and the update event that would reveal it is not watched. The
  object stays wrong until the key comes back for another reason. `Resync` shows that
  the periodic resync repairs it and `FreshReadSettles` that nothing else is needed.
- `TornStatus`: merge patches computed from a stale copy carry only the fields that
  differ from that copy, so the stored object mixes two reconciles: a count that
  disagrees with its list. Labels mix in the same way.
- `EmptyStatus`: when the first status write fails, the retry patches the difference to
  the zero status, which leaves out `exists: false` or `usageCount: 0`; the CRD requires both.
  Until the Secret is both present and used, the patch is refused again and again.
- `PodsLost`: a covered Pod is skipped even when its references are not those of its
  controller's template. In TLC's trace `kubectl debug` adds an ephemeral container that names a
  Secret; so it is after the template was edited and before the Pod is replaced, and
  after an adoption.
- `TwoVersions`: duplicates are recognised with their version, so a rule for another
  version of a tracked kind is accepted and its objects are counted twice.

Three limits of the code show in the bounds rather than in a run. `Relists` has no user
deletions: an object that the controller created and a user removed while the watch was
down is in no list the informer makes, no handler is called, and `PresenceSettled` is
false (with one of each, TLC finds it). `Presence` does not check content: a patch of the
earlier leader may arrive after its successor's reconcile, and the object stays as the
patch left it until the key comes back. And a reconcile of an unused Secret ends with an empty
status patch, since its `usages` never compares equal (nil against empty);
`EventuallyAtRest` shows that this does not bring the key back.

## 5. Proofs

`SecretUsageControllerProofs`, for any Secrets, any finite set of consumers, any number of
kinds and any flags, with no bound on changes, faults, relists or restarts:

- `TypeCorrect`: `TypeOK` is invariant. It is inductive together with `WorkerOK`, which says
  that a worker past the collectors has listed all kinds, that it has a key when it
  writes, and that it holds an object when it patches.
- `GaugeInvariantHolds` and `NoLostWakeUp`: `GaugesSettled` is invariant. Alone it is not
  inductive: the gauges are computed from what the worker read some steps ago, and
  nothing in `GaugesSettled` says how that relates to the caches now. `ReadsCurrent` says it:
  what the worker has read so far is what the caches hold, or else its key is
  pending (some handler has a `q.Add` to make, or it is queued, or delayed). `GaugeRecorded`
  carries the values from `Get` over the writes, and `NoGaugeUnlessEnabled` covers
  the flag. The proof has one step per action; steps outside the worker share lemma
  `OutsideSteps` (what changes for a key makes it pending) and those of the worker share
  `WorkerSteps`. The run `Relists` checks the same invariant with TLC.

`SecretUsageObjectProofs`, about the stored objects, for the specification `SpecInOrder`, in
which the events of a `SecretUsage` are seen in order. (Relists of everything else are
in. Relists of `SecretUsage` together with users who delete its objects make the theorems
false, see section 4; `RelistProofs` has the relists without the deletions.)

- `NoWriteInVain`: the action property `WritesJustified`, for `Spec`, with relists and deletions.
  `ReadsCurrent` says of each call that creates or removes an object that it was decided on
  what the caches say now, or that the key is pending. Nothing else in a step of the
  worker changes whether an object exists.

- `PresenceInvariantHolds` and `NoOrphansNoGaps`: `PresenceSettled` is invariant. It speaks of
  stored objects, while a reconcile decides by the cached one, so the inductive
  invariant relates the two. `WatchEnds`: cache and watch together end at the stored object.
  `PresenceAtRest`: a settled key is right in the cache, or an event that tells of a
  creation or a deletion, and hence brings the key back, is on its way (`~Flat`).
  `PresenceInReconcile`: a reconcile that nothing overtook still has the cached object it
  decided on, and one that created the object has its creation event ahead of it. Steps
  outside the worker share lemma `OutsidePresence`, those of the worker `WorkerPresence`. Both
  need that reads are current, so the proof carries `GaugeInvariant` along (`Sound`).
- `ExactInvariantHolds` and `FreshReadsAreExact`: `FreshReadSettles` is invariant. Between the
  read and the patches the object may only have been removed (`ExactInReconcile`), a patch
  computed from the stored state leaves what was wanted (`PatchOfLatest`), and an
  object that compares equal is what was wanted (`EqualIsWanted`, which needs that an
  object without a status has an empty one, `UnwrittenEmpty`).
- `FreshReadsAreTruthful`: `FreshReadCounts` is invariant. By `FreshReadsAreExact` the stored
  status is the desired one, and the desired one is truthful whatever was found
  (`DesiredIsTruthful`), and not empty when it was cut, since no limit is zero. That needs the length of a list that was cut: the references whose
  position is within the limit are exactly as many as the limit (`RecordedLength`), by
  the smallest set of references of which it is false, without its last member (`LastRank`).

`LiveIndexProofs`: `ControllerImplementsIndex`, that `SpecInOrder` implies `LiveIndex`'s
specification under the refinement mapping. Each step of the controller is classified: one that
makes keys stale, one that writes a stale key, one that settles a key, a restart, or
a stutter. That a settling step leaves the key right is `GaugesSettled` and
`PresenceSettled` of the next state.

`RelistProofs`, for `SpecUndisturbed`, where watches of `SecretUsage` are interrupted at any time and
the controller alone removes its objects:

- `RelistInvariantHolds`: what the controller has not seen of an object is at most one creation or
  one removal (`ChangesOnce`). It removes only what its cache shows and creates only what
  its cache does not show; what keeps this inductive are the two conjuncts about a worker at
  "create" and at "delete": a call that will take effect agrees with the cache. So a relist
  that skips events without changing whether the object is there skipped none
  that told of it (`RelistedWatch`), and the rest of `PresenceInvariant` survives.
- `RelistsLeaveNoOrphans`, `RelistsKeepExact` and `RelistsImplementIndex`: `PresenceSettled`,
  `FreshReadSettles` and `ImplementsIndex` under `SpecUndisturbed`. All steps but the relist are
  those of `SpecInOrder`, whose lemmas are cited.

`LeaderFailoverProofs`: `FailoverLeavesNoOrphans` and `FailoverKeepsGauges`, which are `PresenceSettled`
and `GaugesSettled` across any number of failovers. To the successor a late call is what a user's deletion is, a change of one object
that its informer will tell of (`LateCallSound`, from the lemmas for steps outside
the worker); and it starts with every key queued that its caches, however old, have
something to say about (`FailoverSound`). `FailoverIsAnIndex`: leader and late calls
implement `LiveIndex`'s `SharedSpec`. A step of the leader is classified as in `LiveIndexProofs`, a
late call meddles with one key or changes nothing there (`LateCallMeddles`), and a failover is
a restart of the index.

`AggregateMetricsProofs`: `SummaryIsExact`, that `SummaryExact` is invariant, for any number of
Secrets. An object of a quiet key that was read fresh is the desired one, which is counted
as missing or as unused exactly if its Secret is (`CountedAsWanted`), and an object that
should not exist is not listed. The theorems about objects hold beside the timer, which
touches nothing of theirs (lemma `TimerAside`).

`ReferenceRulesProofs`, for files of any length and any kinds: `RulesInvariantHolds`,
`FileTakenAsAWhole` (`AllOrNothing`) and `NeverWatchedTwice` (`NoKindTwice`), with `RulesTypeCorrect`.
`AllOrNothing` says of a process that runs that its file was valid (`validFile`), and what it
tracks. `RulesInvariant` says for each of the loops how far it has come, what it has taken
over from the list before it, and that what was compiled are the file's rules up to there,
each complete, with good paths and of a kind of its own; neither property says that of the
states on the way.

`ConsumerTrackingProofs`, for any workloads, Pods, names and slots:

- `EveryChangeEnqueued`: the action property `EnqueueCoversChange`, by cases on whether
  each side of an event is skipped.
- `NeverCountedTwice`: `NoDoubleCount`, from deduplication within one object.
- `UncontrolledAlwaysRecorded` and `NothingLostWhenTracked`: what is always recorded. Both
  follow from `TypeOK` (`TrackingTypeCorrect`) and `CollectedRecorded`: deduplication keeps
  a reference equal to each one it drops, namely the first (`FirstPosition`, from the
  well-foundedness of the natural numbers). `NothingLost` holds when owned Pods are
  tracked; with the default it does not (`PodsLost`).

Assumptions are those named in the modules: consumers are natural numbers and finitely
many, long names are names, a workload is not a Pod, the empty name is not a name, and
the marker for "absent" is neither a Secret nor an object, and the bound on the length of a
rules file is a natural number. TLC evaluates them in
every run.

Only model-checked: the liveness properties (`EventuallyPresent`, `EventuallyExact`,
`EventuallyAtRest`, `EventuallySummarised`, `IndexCatchesUp`, `ValidFileRuns`), which fairness
puts out of the prover's reach. Every other property of the passing runs is a theorem.

## 6. How to run

    tlc -config Races.cfg MCSecretUsageController
    tlapm SecretUsageControllerProofs.tla

`PROJECT.json` lists the module of every configuration. The longest passing run takes two to
three minutes with two workers. Runs named in section 4 stop at a counterexample.

## 7. Not modelled

- Several references of one consumer to one Secret in `SecretUsageController`: there a
  consumer counts once. `ConsumerTracking` has them, and `NoDoubleCount` is why the sort has one
  result: no two recorded references are equal in `usageReferenceLess`, so `sort.Slice`,
  which is not stable, always gives the same list and `truncateUsages` the same cut.
- Which Go field each slot comes from (`referencesForPodSpec`, the functions for volumes,
  containers, service accounts and Ingresses): tables without control flow. What each
  does with a field, `appendReference` and then `dedupeReferences`, is modelled. The index and the status entries are computed from the same list.
- The width of `usageCount`: the total of a Secret would have to exceed 2^31.
- The evaluation of JSONPath (`references` in `rules.go`) and the collector of custom
  resources (`collectCustomResourceUsages`): an object of a rule's kind has a list of slots, any
  list in `ConsumerTracking`, as a workload has. A path that does not fit an object yields none.
- Why a rules file cannot be read, and which of its fields is not known: `readable` in
  `ReferenceRules` stands for both.
- `envInt`, `envBool` and the flags: their results are constants here. So are the namespace to
  watch, the probes and the metrics server.
- The election itself, which is client-go's: `Failover` is one step, and who holds the lease
  is not modelled.
- The chart, the manifests, RBAC, generated deep copies and the end-to-end script: nothing
  there keeps state.
