------------------------ MODULE SecretUsageController ------------------------
(***************************************************************************)
(* The SecretUsage controller and everything its reconcile loop races      *)
(* with: users changing Secrets and consumers, informers that feed one     *)
(* cache per kind at their own pace, the deduplicating work queue with its *)
(* retries, the single worker whose reconcile is a sequence of reads and   *)
(* calls, calls that fail or whose reply is lost, and restarts.            *)
(*                                                                         *)
(* Modelled code: internal/controller/secretusage_controller.go and        *)
(* metrics.go.  The API server, the informers and the work queue           *)
(* (controller-runtime and client-go) are external: they are modelled by   *)
(* what the controller relies on.  One namespace; consumers are grouped in *)
(* kinds because collectUsages reads one kind at a time.                   *)
(***************************************************************************)
EXTENDS UsageObject, Sequences

CONSTANTS
  NumKinds,         \* how many kinds collectUsages lists, one after the other
  KindOf,           \* the kind of each consumer, as a position in that list
  PerSecretMetrics  \* the --per-secret-metrics flag

ASSUME SecretUsageControllerAssumption ==
  /\ NumKinds \in Nat \ {0}
  /\ KindOf \in [Consumers -> 1..NumKinds]
  /\ PerSecretMetrics \in BOOLEAN
  /\ Absent \notin Secrets
  /\ Absent \notin Objects

VARIABLES
  secrets,      \* API server: which Secrets exist
  specs,        \* API server: the Secrets each consumer names; {} if it is gone
  usages,       \* API server: the SecretUsage object of each Secret, or Absent
  secretWatch,  \* per Secret, the states the informer has not seen yet
  specWatch,    \* per consumer, likewise
  usageWatch,   \* per SecretUsage, likewise
  secretCache,  \* the informer caches, which all reads are served from
  specCache,
  usageCache,
  notify,       \* per key, q.Add calls that event handlers have still to make
  dirty,        \* keys in the work queue, or added again while processed
  backoff,      \* keys waiting for their rate-limited retry
  worker,       \* the reconcile under way, or Idle
  gauge,        \* the per-Secret series, or Absent
  fresh         \* history: whether the last Get of the object read its latest state

liveVars  == <<secrets, specs, usages>>
watchVars == <<secretWatch, specWatch, usageWatch>>
cacheVars == <<secretCache, specCache, usageCache>>
queueVars == <<notify, dirty, backoff>>
vars == <<liveVars, watchVars, cacheVars, queueVars, worker, gauge, fresh>>

-----------------------------------------------------------------------------
(* The state.                                                              *)

Series == [references : Nat, exists : BOOLEAN, truncated : BOOLEAN]

Steps == {"idle", "list", "decide", "delete", "create", "publish", "labels", "status"}

WorkerStates ==
  [pc : Steps, key : Secrets \cup {Absent}, exists : BOOLEAN,
   listed : 0..NumKinds, found : SUBSET Consumers, current : Objects \cup {Absent}]

Idle == [pc |-> "idle", key |-> Absent, exists |-> FALSE,
         listed |-> 0, found |-> {}, current |-> Absent]

TypeOK ==
  /\ secrets \in [Secrets -> BOOLEAN]
  /\ specs \in [Consumers -> SUBSET Secrets]
  /\ usages \in [Secrets -> Objects \cup {Absent}]
  /\ secretWatch \in [Secrets -> Seq(BOOLEAN)]
  /\ specWatch \in [Consumers -> Seq(SUBSET Secrets)]
  /\ usageWatch \in [Secrets -> Seq(Objects \cup {Absent})]
  /\ secretCache \in [Secrets -> BOOLEAN]
  /\ specCache \in [Consumers -> SUBSET Secrets]
  /\ usageCache \in [Secrets -> Objects \cup {Absent}]
  /\ notify \in [Secrets -> Nat]
  /\ dirty \in SUBSET Secrets
  /\ backoff \in SUBSET Secrets
  /\ worker \in WorkerStates
  /\ gauge \in [Secrets -> Series \cup {Absent}]
  /\ fresh \in [Secrets -> BOOLEAN]

\* The consumers whose cached object names Secret s, over the first n kinds.
cachedUsages(s, n) == {c \in Consumers : s \in specCache[c] /\ KindOf[c] <= n}

\* Mutant: SecretUsage objects are not watched for creation.
namedWithoutUsages(s) == secrets[s] \/ \E c \in Consumers : s \in specs[c]

\* The keys the initial list of a process announces: every Secret, every name
\* a consumer holds, and every SecretUsage object left by an earlier process.
named(s) == secrets[s] \/ usages[s] # Absent \/ \E c \in Consumers : s \in specs[c]

NoEvents(objects) == [o \in objects |-> <<>>]

\* The process comes up: the caches are filled, and the Create events of the
\* initial lists are in the queue before the worker starts.
Init ==
  /\ secrets \in [Secrets -> BOOLEAN]
  /\ specs \in [Consumers -> SUBSET Secrets]
  /\ usages = [s \in Secrets |-> Absent]
  /\ secretCache = secrets
  /\ specCache   = specs
  /\ usageCache  = usages
  /\ secretWatch = NoEvents(Secrets)
  /\ specWatch   = NoEvents(Consumers)
  /\ usageWatch  = NoEvents(Secrets)
  /\ notify  = [s \in Secrets |-> 0]
  /\ dirty   = {s \in Secrets : named(s)}
  /\ backoff = {}
  /\ worker  = Idle
  /\ gauge   = [s \in Secrets |-> Absent]
  /\ fresh   = [s \in Secrets |-> FALSE]

\* A crash or a rollout: everything in memory is lost, and it comes up again.
Restart ==
  /\ UNCHANGED liveVars
  /\ secretCache' = secrets
  /\ specCache'   = specs
  /\ usageCache'  = usages
  /\ secretWatch' = NoEvents(Secrets)
  /\ specWatch'   = NoEvents(Consumers)
  /\ usageWatch'  = NoEvents(Secrets)
  /\ notify'  = [s \in Secrets |-> 0]
  /\ dirty'   = {s \in Secrets : named(s)}
  /\ backoff' = {}
  /\ worker'  = Idle
  /\ gauge'   = [s \in Secrets |-> Absent]
  /\ fresh'   = [s \in Secrets |-> FALSE]

-----------------------------------------------------------------------------
(* Users.                                                                  *)

ChangeSecret(s) ==
  /\ secrets' = [secrets EXCEPT ![s] = ~@]
  /\ secretWatch' = [secretWatch EXCEPT ![s] = Append(@, ~secrets[s])]
  /\ UNCHANGED <<specs, usages, specWatch, usageWatch, cacheVars, queueVars,
                 worker, gauge, fresh>>

ChangeSpec(c, names) ==
  /\ names # specs[c]
  /\ specs' = [specs EXCEPT ![c] = names]
  /\ specWatch' = [specWatch EXCEPT ![c] = Append(@, names)]
  /\ UNCHANGED <<secrets, usages, secretWatch, usageWatch, cacheVars, queueVars,
                 worker, gauge, fresh>>

\* The API server stores an object, or removes it.  A write that changes
\* nothing is not announced.
Store(s, object) ==
  /\ usages' = [usages EXCEPT ![s] = object]
  /\ usageWatch' = [usageWatch EXCEPT ![s] = IF object = usages[s] THEN @
                                             ELSE Append(@, object)]
  /\ UNCHANGED <<secrets, specs, secretWatch, specWatch>>

UserDeletesUsage(s) ==
  /\ usages[s] # Absent
  /\ Store(s, Absent)
  /\ UNCHANGED <<cacheVars, queueVars, worker, gauge, fresh>>

-----------------------------------------------------------------------------
(* Informers.  Each takes the next event of one object; after a relist it  *)
(* jumps over n - 1 of them.  The cache is updated first, the handlers run *)
(* later: every q.Add they will make is counted in notify.                 *)

Drop(watch, n) == SubSeq(watch, n + 1, Len(watch))

AddCalls(s, keys) == IF s \in keys THEN 1 ELSE 0

\* An event whose handlers add the given keys, first those of the old object.
Notify(oldKeys, newKeys) ==
  notify' = [s \in Secrets |-> notify[s] + AddCalls(s, oldKeys) + AddCalls(s, newKeys)]

\* For(secret): create, update and delete all add the Secret's own name.
ObserveSecret(s, n) ==
  /\ n \in 1..Len(secretWatch[s])
  /\ secretCache' = [secretCache EXCEPT ![s] = secretWatch[s][n]]
  /\ secretWatch' = [secretWatch EXCEPT ![s] = Drop(@, n)]
  /\ Notify({}, IF secretCache[s] \/ secretWatch[s][n] THEN {s} ELSE {})
  /\ UNCHANGED <<liveVars, specWatch, usageWatch, specCache, usageCache, dirty,
                 backoff, worker, gauge, fresh>>

\* Mutant: an update adds the names in the new object only.
enqueueNewNamesOnly(old, new) == Notify({}, new)

\* Mutant: an update adds the names that changed only.
enqueueChangedNames(old, new) == Notify(old \ new, new \ old)

\* The names in the old object and the names in the new one.
enqueueForSecretConsumer(old, new) == Notify(old, new)

ObserveSpec(c, n) ==
  /\ n \in 1..Len(specWatch[c])
  /\ specCache' = [specCache EXCEPT ![c] = specWatch[c][n]]
  /\ specWatch' = [specWatch EXCEPT ![c] = Drop(@, n)]
  /\ enqueueForSecretConsumer(specCache[c], specWatch[c][n])
  /\ UNCHANGED <<liveVars, secretWatch, usageWatch, secretCache, usageCache, dirty,
                 backoff, worker, gauge, fresh>>

\* Mutant: no DeleteFunc.
enqueueOnCreateOnly(s, old, new) ==
  Notify({}, IF old = Absent /\ new # Absent THEN {s} ELSE {})

\* The SecretUsage handlers: CreateFunc and DeleteFunc only.
enqueueOwnKey(s, old, new) ==
  Notify({}, IF (old = Absent) # (new = Absent) THEN {s} ELSE {})

ObserveUsage(s, n) ==
  /\ n \in 1..Len(usageWatch[s])
  /\ usageCache' = [usageCache EXCEPT ![s] = usageWatch[s][n]]
  /\ usageWatch' = [usageWatch EXCEPT ![s] = Drop(@, n)]
  /\ enqueueOwnKey(s, usageCache[s], usageWatch[s][n])
  /\ UNCHANGED <<liveVars, secretWatch, specWatch, secretCache, specCache, dirty,
                 backoff, worker, gauge, fresh>>

\* The periodic resync: an update event with the cached object on both sides.
ResyncSecret(s) ==
  /\ secretCache[s]
  /\ Notify({}, {s})
  /\ UNCHANGED <<liveVars, watchVars, cacheVars, dirty, backoff, worker, gauge, fresh>>

ResyncSpec(c) ==
  /\ specCache[c] # {}
  /\ enqueueForSecretConsumer(specCache[c], specCache[c])
  /\ UNCHANGED <<liveVars, watchVars, cacheVars, dirty, backoff, worker, gauge, fresh>>

-----------------------------------------------------------------------------
(* The work queue.                                                         *)

Enqueue(s) ==
  /\ notify[s] > 0
  /\ notify' = [notify EXCEPT ![s] = @ - 1]
  /\ dirty' = dirty \cup {s}
  /\ UNCHANGED <<liveVars, watchVars, cacheVars, backoff, worker, gauge, fresh>>

RetryDue(s) ==
  /\ s \in backoff
  /\ backoff' = backoff \ {s}
  /\ dirty' = dirty \cup {s}
  /\ UNCHANGED <<liveVars, watchVars, cacheVars, notify, worker, gauge, fresh>>

-----------------------------------------------------------------------------
(* Reconcile.                                                              *)

Key == worker.key

\* Mutant: a reconcile that succeeded asks to come back too.
DoneAndRequeue == worker' = Idle /\ backoff' = backoff \cup {Key}

\* Reconcile returns nil, or an error: the key comes back after a delay.
Done == worker' = Idle /\ UNCHANGED backoff

\* Mutant: the error is logged and swallowed.
FailSwallowed == worker' = Idle /\ UNCHANGED backoff

Fail == worker' = Idle /\ backoff' = backoff \cup {Key}

\* The worker takes a key and reads whether the Secret exists.
secretExists(s) ==
  /\ worker = Idle
  /\ s \in dirty
  /\ dirty' = dirty \ {s}
  /\ worker' = [Idle EXCEPT !.pc = "list", !.key = s, !.exists = secretCache[s]]
  /\ UNCHANGED <<liveVars, watchVars, cacheVars, notify, backoff, gauge, fresh>>

\* Mutant: the loop over the collectors goes on for one round too many.
collectOneTooMany ==
  LET kind == worker.listed + 1 IN
  /\ worker.pc = "list"
  /\ worker' = [worker EXCEPT
       !.pc = IF worker.listed = NumKinds THEN "decide" ELSE "list",
       !.listed = kind,
       !.found = @ \cup {c \in Consumers : KindOf[c] = kind /\ Key \in specCache[c]}]
  /\ UNCHANGED <<liveVars, watchVars, cacheVars, queueVars, gauge, fresh>>

\* One collector reads one kind from its cache.
collectUsages ==
  LET kind == worker.listed + 1 IN
  /\ worker.pc = "list"
  /\ worker' = [worker EXCEPT
       !.pc = IF kind = NumKinds THEN "decide" ELSE "list",
       !.listed = kind,
       !.found = @ \cup {c \in Consumers : KindOf[c] = kind /\ Key \in specCache[c]}]
  /\ UNCHANGED <<liveVars, watchVars, cacheVars, queueVars, gauge, fresh>>

\* Mutant: --track-unused-secrets is not consulted.
TrackedIgnoringFlag == worker.found # {} \/ worker.exists

Tracked == tracked(worker.exists, worker.found)

DesiredStatus == desiredStatus(worker.exists, worker.found)

DesiredLabels == desiredLabelsFor(Key, worker.exists, worker.found)

seriesFor(exists, found) ==
  [references |-> Cardinality(found),
   exists     |-> exists,
   truncated  |-> Cardinality(found) > maxUsages]

recordSecretMetrics ==
  gauge' = IF PerSecretMetrics
           THEN [gauge EXCEPT ![Key] = seriesFor(worker.exists, worker.found)]
           ELSE gauge

\* Mutant: the series of a Secret that is gone are left behind.
keepSecretMetrics == UNCHANGED gauge

clearSecretMetrics ==
  gauge' = IF PerSecretMetrics THEN [gauge EXCEPT ![Key] = Absent] ELSE gauge

\* Mutant: the object is deleted without a look at the cache.
ForgetUnread ==
  /\ worker.pc = "decide"
  /\ ~Tracked
  /\ worker' = [worker EXCEPT !.pc = "delete"]
  /\ UNCHANGED <<liveVars, watchVars, cacheVars, queueVars, gauge, fresh>>

\* Nothing to describe: the read of deleteSecretUsageIfPresent.
Forget ==
  /\ worker.pc = "decide"
  /\ ~Tracked
  /\ IF usageCache[Key] = Absent
     THEN Done /\ clearSecretMetrics
     ELSE /\ worker' = [worker EXCEPT !.pc = "delete"]
          /\ UNCHANGED <<backoff, gauge>>
  /\ UNCHANGED <<liveVars, watchVars, cacheVars, notify, dirty, fresh>>

\* The delete of deleteSecretUsageIfPresent, which takes NotFound for success.
Delete(received) ==
  /\ worker.pc = "delete"
  /\ Store(Key, Absent)
  /\ IF received THEN Done /\ clearSecretMetrics ELSE Fail /\ UNCHANGED gauge
  /\ UNCHANGED <<cacheVars, notify, dirty, fresh>>

\* The status differs from the desired one: go on to patch it, or stop here.
PatchStatusNext(object) ==
  IF statusDeepEqual(object.status, DesiredStatus)
  THEN worker' = Idle
  ELSE worker' = [worker EXCEPT !.pc = "status", !.current = object]

\* Something to describe: record the metrics and read the object.
Get ==
  LET current == usageCache[Key] IN
  /\ worker.pc = "decide"
  /\ Tracked
  /\ recordSecretMetrics
  /\ fresh' = [fresh EXCEPT ![Key] = usageWatch[Key] = <<>>]
  /\ \/ /\ current = Absent
        /\ worker' = [worker EXCEPT !.pc = "create"]
     \/ /\ current # Absent
        /\ ~labelsDeepEqual(current.labels, DesiredLabels)
        /\ worker' = [worker EXCEPT !.pc = "labels", !.current = current]
     \/ /\ current # Absent
        /\ labelsDeepEqual(current.labels, DesiredLabels)
        /\ PatchStatusNext(current)
  /\ UNCHANGED <<liveVars, watchVars, cacheVars, queueVars>>

-----------------------------------------------------------------------------
(* The writes.  "received" is FALSE when the server did what it was asked  *)
(* but the reply was lost, which the client sees as an error.              *)

\* Whether the server accepts the call the worker is about to make.  Status().Update
\* carries the resourceVersion of the object Create returned.
Accepted ==
  LET live == usages[Key] IN
  CASE worker.pc = "create" -> live = Absent
    [] worker.pc = "publish" -> live = created(DesiredLabels)
    [] worker.pc = "labels" -> live # Absent
    [] worker.pc = "status" ->
         /\ live # Absent
         /\ statusPatchValid(worker.current.status, DesiredStatus, live.written)

Create(received) ==
  /\ worker.pc = "create"
  /\ Accepted
  /\ Store(Key, created(DesiredLabels))
  /\ IF received
     THEN worker' = [worker EXCEPT !.pc = "publish"] /\ UNCHANGED backoff
     ELSE Fail
  /\ UNCHANGED <<cacheVars, notify, dirty, gauge, fresh>>

\* Status().Update of the object just created.
Publish(received) ==
  /\ worker.pc = "publish"
  /\ Accepted
  /\ Store(Key, published(usages[Key].labels, DesiredStatus))
  /\ IF received THEN Done ELSE Fail
  /\ UNCHANGED <<cacheVars, notify, dirty, gauge, fresh>>

\* Mutant: the reconcile returns after it patched the labels.
PatchLabelsOnly(received) ==
  /\ worker.pc = "labels"
  /\ Accepted
  /\ Store(Key, [usages[Key] EXCEPT
                  !.labels = patchedLabels(worker.current.labels, DesiredLabels, @)])
  /\ IF received THEN Done ELSE Fail
  /\ UNCHANGED <<cacheVars, notify, dirty, gauge, fresh>>

\* The worker goes on with what the reply makes of the object it holds.
PatchLabels(received) ==
  LET live    == usages[Key]
      patched == [live EXCEPT
                    !.labels = patchedLabels(worker.current.labels, DesiredLabels, @)]
      reply   == [patched EXCEPT
                    !.status = decodedInto(worker.current.status, @, live.written)]
  IN
  /\ worker.pc = "labels"
  /\ Accepted
  /\ Store(Key, patched)
  /\ IF received
     THEN PatchStatusNext(reply) /\ UNCHANGED backoff
     ELSE Fail
  /\ UNCHANGED <<cacheVars, notify, dirty, gauge, fresh>>

PatchStatus(received) ==
  LET live == usages[Key] IN
  /\ worker.pc = "status"
  /\ Accepted
  /\ Store(Key, published(live.labels,
                          patchedStatus(worker.current.status, DesiredStatus, live.status)))
  /\ IF received THEN Done ELSE Fail
  /\ UNCHANGED <<cacheVars, notify, dirty, gauge, fresh>>

\* AlreadyExists, Conflict, NotFound or Invalid: the call changes nothing.
Rejected ==
  /\ worker.pc \in {"create", "publish", "labels", "status"}
  /\ ~Accepted
  /\ Fail
  /\ UNCHANGED <<liveVars, watchVars, cacheVars, notify, dirty, gauge, fresh>>

\* A read or a call fails before it takes effect.  The metrics are recorded before
\* the object is read.
CallFails ==
  /\ worker # Idle
  /\ Fail
  /\ IF worker.pc = "decide" /\ Tracked THEN recordSecretMetrics ELSE UNCHANGED gauge
  /\ UNCHANGED <<liveVars, watchVars, cacheVars, notify, dirty, fresh>>

-----------------------------------------------------------------------------
(* The specification.                                                      *)

\* The steps of a reconcile whose calls are answered.
Answered ==
  \/ collectUsages \/ Forget \/ Get \/ Rejected
  \/ Delete(TRUE) \/ Create(TRUE) \/ Publish(TRUE)
  \/ PatchLabels(TRUE) \/ PatchStatus(TRUE)

LostReply ==
  \/ Delete(FALSE) \/ Create(FALSE) \/ Publish(FALSE)
  \/ PatchLabels(FALSE) \/ PatchStatus(FALSE)

\* What happens while the process runs and only the controller removes its objects.
\* Each SecretUsage event is seen, in order.
Undisturbed ==
  \/ \E s \in Secrets : ChangeSecret(s)
  \/ \E c \in Consumers, names \in SUBSET Secrets : ChangeSpec(c, names)
  \/ \E s \in Secrets : \E n \in 1..Len(secretWatch[s]) : ObserveSecret(s, n)
  \/ \E c \in Consumers : \E n \in 1..Len(specWatch[c]) : ObserveSpec(c, n)
  \/ \E s \in Secrets : ObserveUsage(s, 1)
  \/ \E s \in Secrets : ResyncSecret(s)
  \/ \E c \in Consumers : ResyncSpec(c)
  \/ \E s \in Secrets : Enqueue(s) \/ RetryDue(s) \/ secretExists(s)
  \/ Answered
  \/ LostReply
  \/ CallFails

Running == Undisturbed \/ \E s \in Secrets : UserDeletesUsage(s)

NextInOrder == Running \/ Restart

\* A relist of SecretUsage objects jumps over events too.
RelistUsages ==
  \E s \in Secrets : \E n \in 2..Len(usageWatch[s]) : ObserveUsage(s, n)

Next == NextInOrder \/ RelistUsages

NextUndisturbed == Undisturbed \/ Restart \/ RelistUsages

Spec == Init /\ [][Next]_vars

SpecInOrder == Init /\ [][NextInOrder]_vars

SpecUndisturbed == Init /\ [][NextUndisturbed]_vars

-----------------------------------------------------------------------------
(* Properties.                                                             *)

\* A key is pending while something will still reconcile it.
Pending(s) == notify[s] > 0 \/ s \in dirty \/ s \in backoff

Settled(s) == ~Pending(s) /\ worker.key # s

\* Settled, and the cached SecretUsage is the stored one.
Quiet(s) == Settled(s) /\ usageWatch[s] = <<>>

wantedSeries(s) ==
  IF PerSecretMetrics /\ tracked(secretCache[s], cachedUsages(s, NumKinds))
  THEN seriesFor(secretCache[s], cachedUsages(s, NumKinds))
  ELSE Absent

\* No lost wake-up.  Whatever the order in which the caches of the kinds
\* advanced while the worker read them one by one, a key nothing will reconcile
\* any more has gauges computed from the caches as they are now, and none when
\* there is nothing to describe (the two-sided enqueue, the re-add of a key
\* under processing, the retry after an error, clearSecretMetrics).
GaugesSettled == \A s \in Secrets : Settled(s) => gauge[s] = wantedSeries(s)

\* There is something to say about the Secret, going by the caches.
described(s) == tracked(secretCache[s], cachedUsages(s, NumKinds))

\* A SecretUsage object exists exactly for the Secrets there is something to
\* say about, once its key is quiet.
PresenceSettled ==
  \A s \in Secrets : Quiet(s) => (usages[s] # Absent <=> described(s))

wantedUsage(s) ==
  published(desiredLabelsFor(s, secretCache[s], cachedUsages(s, NumKinds)),
            desiredStatus(secretCache[s], cachedUsages(s, NumKinds)))

exact(s) == described(s) => usages[s] = wantedUsage(s)

\* The shape of a reconcile at each of its steps.
WorkerOK ==
  /\ worker.pc = "idle" => worker = Idle
  /\ worker.pc # "idle" => worker.key \in Secrets
  /\ worker.pc = "list" => worker.listed < NumKinds
  /\ worker.pc \notin {"idle", "list"} => worker.listed = NumKinds
  /\ worker.pc \in {"labels", "status"} => worker.current # Absent

\* What a reconcile has read is what the caches hold, or else its key is pending.
ReadsCurrent ==
  worker.pc # "idle" /\ ~Pending(Key) =>
    /\ worker.exists = secretCache[Key]
    /\ worker.found = cachedUsages(Key, worker.listed)

\* Past the decision, the gauges hold what the reconcile has read.
GaugeRecorded ==
  /\ worker.pc = "delete" => ~Tracked
  /\ worker.pc \in {"create", "publish", "labels", "status"} =>
       /\ Tracked
       /\ PerSecretMetrics => gauge[Key] = seriesFor(worker.exists, worker.found)

NoGaugeUnlessEnabled == ~PerSecretMetrics => gauge = [s \in Secrets |-> Absent]

\* The inductive invariant behind GaugesSettled.
GaugeInvariant ==
  TypeOK /\ WorkerOK /\ ReadsCurrent /\ GaugeRecorded /\ NoGaugeUnlessEnabled /\ GaugesSettled

\* A reconcile that read the latest object leaves an exact one, through the
\* two patches, their failures and retries, and deletions in between.
FreshReadSettles == \A s \in Secrets : Quiet(s) /\ fresh[s] => exact(s)

\* usageCount is the true total: what is recorded, unless the list says that
\* it was truncated, and then more than what is recorded.
truthful(status) ==
  IF status.truncated THEN status.usageCount > Cardinality(status.usages)
                      ELSE status.usageCount = Cardinality(status.usages)

\* Below, at and above the limit, the status such a reconcile leaves is truthful, and a
\* list is cut short only where it is as long as it may be, which is never empty: the
\* default stands in for a limit of zero.
FreshReadCounts ==
  \A s \in Secrets : Quiet(s) /\ fresh[s] /\ usages[s] # Absent =>
    /\ truthful(usages[s].status)
    /\ usages[s].status.truncated => /\ usages[s].status.usages # {}
                                     /\ Cardinality(usages[s].status.usages) = maxUsages

\* An informer that takes the events of a watch ends with the stored object.
EndsAt(live, cache, watch) == live = IF watch = <<>> THEN cache ELSE watch[Len(watch)]

\* No event of a watch tells of a creation or a deletion.
FlatFrom(cache, watch) == \A i \in 1..Len(watch) : watch[i] = Absent <=> cache = Absent

WatchEnds == \A s \in Secrets : EndsAt(usages[s], usageCache[s], usageWatch[s])

Flat(s) == FlatFrom(usageCache[s], usageWatch[s])

\* A settled key whose object is in the cache is described and the other way
\* round, unless an event that will bring the key back is on its way.
PresenceAtRest ==
  \A s \in Secrets : Settled(s) /\ Flat(s) => (usageCache[s] # Absent <=> described(s))

\* A reconcile that was not overtaken still has the cached object it decided
\* on; one that created the object has its creation event ahead of it.
PresenceInReconcile ==
  worker.pc # "idle" /\ ~Pending(Key) =>
    /\ worker.pc \in {"delete", "labels", "status"} => usageCache[Key] # Absent
    /\ worker.pc = "create" => usageCache[Key] = Absent
    /\ worker.pc = "publish" => ~Flat(Key)

\* The inductive invariant behind PresenceSettled.
PresenceInvariant == WatchEnds /\ PresenceAtRest /\ PresenceInReconcile

\* No event of a watch undoes a creation or a deletion that an earlier one tells of.
ChangesOnce(cache, watch) ==
  \A i, j \in 1..Len(watch) :
    i <= j /\ (watch[i] = Absent) # (cache = Absent) => (watch[j] = Absent) # (cache = Absent)

\* What PresenceSettled rests on when watches are interrupted and nobody but the
\* controller removes its objects: it removes only what its cache shows and creates
\* only what it does not, so no relist hides both a creation and a removal.
RelistInvariant ==
  /\ \A s \in Secrets : ChangesOnce(usageCache[s], usageWatch[s])
  /\ worker.pc = "create" /\ usages[Key] = Absent => usageCache[Key] = Absent
  /\ worker.pc = "delete" /\ usages[Key] # Absent => usageCache[Key] # Absent

\* No write in vain. A reconcile goes by what it read some steps ago; it creates or
\* removes an object all the same only where the caches of the moment call for that, or
\* its key will be reconciled once more.
WritesJustified ==
  [][\A s \in Secrets :
       /\ worker # worker' /\ Key = s
       /\ (usages[s] = Absent) # (usages'[s] = Absent)
       => Pending(s) \/ (usages'[s] # Absent <=> described(s))]_vars

UnwrittenEmpty ==
  \A s \in Secrets :
    usages[s] # Absent /\ ~usages[s].written => usages[s].status = NoStatus

ExactAtRest == \A s \in Secrets : Settled(s) /\ Flat(s) /\ fresh[s] => exact(s)

\* Unless a user removed it, a reconcile finds its object as it left or read it.
ExactInReconcile ==
  /\ worker.pc \in {"labels", "status"} /\ fresh[Key] =>
       usages[Key] \in {worker.current, Absent}
  /\ worker.pc = "status" /\ fresh[Key] => worker.current.labels = DesiredLabels

\* The inductive invariant behind FreshReadSettles.
ExactInvariant == UnwrittenEmpty /\ ExactAtRest /\ ExactInReconcile

-----------------------------------------------------------------------------
(* The abstract specification the controller implements.                   *)

\* What the caches call for, what is there, and which keys are still to be looked at.
viewOf    == [s \in Secrets |-> [series |-> wantedSeries(s), present |-> described(s)]]
hasUsage  == [s \in Secrets |-> usages[s] # Absent]
staleKeys == {s \in Secrets : ~Quiet(s)}

Index == INSTANCE LiveIndex WITH
  Keys <- Secrets, NoSeries <- Absent,
  wanted <- viewOf, series <- gauge, present <- hasUsage, stale <- staleKeys

\* Each step of the controller, its informers and its users is a step of the
\* index: nothing but a stale key is written, every key whose view moved is stale
\* and no key stops being stale before its series and its object are right.
ImplementsIndex == Index!Spec

\* No fault, restart or race keeps a key from being right again and again.
IndexCatchesUp == Index!CatchesUp

(* What the documentation, comments and tests say and the code does not do. *)

\* The settled object says what the caches say, whichever copy of it the last
\* reconcile read: re-reading after one's own status write is "for no benefit".
IndexSettled == \A s \in Secrets : Quiet(s) => exact(s)

\* usageCount is the true total of every status, whatever it was patched from.
CountNeverLies == \A s \in Secrets : usages[s] # Absent => truthful(usages[s].status)
=============================================================================
