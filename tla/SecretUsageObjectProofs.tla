---------------------- MODULE SecretUsageObjectProofs ----------------------
(***************************************************************************)
(* Proofs about the stored SecretUsage objects of SecretUsageController:   *)
(* no reconcile writes in vain, they exist exactly where they should once  *)
(* a key is quiet, and are exact and their counts true when the last       *)
(* reconcile read the latest one.  All but the first need the events of    *)
(* SecretUsage in order: a relist that jumps over a creation by the        *)
(* controller and a deletion by a user leaves nothing behind that would    *)
(* bring the key back.  RelistProofs has relists and no such users.        *)
(***************************************************************************)
EXTENDS SecretUsageControllerProofs

-----------------------------------------------------------------------------
(* Watches.                                                                *)

\* An event is appended: the watch ends at it, and is no flatter than before.
LEMMA AppendedWatch ==
  ASSUME NEW S, NEW watch \in Seq(S), NEW object \in S, NEW cache
  PROVE  /\ EndsAt(object, cache, Append(watch, object))
         /\ FlatFrom(cache, Append(watch, object)) => FlatFrom(cache, watch)
         /\ Append(watch, object) # <<>>
  <1>1. /\ Len(Append(watch, object)) = Len(watch) + 1
        /\ Append(watch, object)[Len(watch) + 1] = object
        /\ \A i \in 1..Len(watch) : Append(watch, object)[i] = watch[i]
        /\ Len(watch) \in Nat
    BY AppendProperties, LenProperties
  <1>2. Append(watch, object) # <<>>
    BY <1>1
  <1> QED
    BY <1>1, <1>2 DEF EndsAt, FlatFrom

\* A watch without creations and deletions ends where the cache is.
LEMMA FlatAgrees ==
  ASSUME NEW S, NEW watch \in Seq(S), NEW live, NEW cache,
         EndsAt(live, cache, watch), FlatFrom(cache, watch)
  PROVE  live = Absent <=> cache = Absent
  <1>1. CASE watch = <<>>
    BY <1>1 DEF EndsAt
  <1>2. CASE watch # <<>>
    <2>1. Len(watch) \in 1..Len(watch)
      BY <1>2, EmptySeq, LenProperties
    <2> QED
      BY <1>2, <2>1 DEF EndsAt, FlatFrom
  <1> QED
    BY <1>1, <1>2

\* The first event is taken.
LEMMA ShiftedWatch ==
  ASSUME NEW S, NEW watch \in Seq(S), NEW live, NEW cache, 1 \in 1..Len(watch),
         EndsAt(live, cache, watch)
  PROVE  /\ EndsAt(live, watch[1], Drop(watch, 1))
         /\ (watch[1] = Absent <=> cache = Absent)
              => (FlatFrom(watch[1], Drop(watch, 1)) <=> FlatFrom(cache, watch))
  <1>1. Len(watch) \in Nat /\ Len(watch) >= 1 /\ watch # <<>>
    <2>1. Len(watch) \in Nat
      BY LenProperties
    <2>2. Len(watch) >= 1
      BY <2>1
    <2> QED
      BY <2>1, <2>2, EmptySeq
  <1>2. /\ Drop(watch, 1) \in Seq(S)
        /\ Len(Drop(watch, 1)) = Len(watch) - 1
        /\ \A i \in 1..(Len(watch) - 1) : Drop(watch, 1)[i] = watch[i + 1]
    <2>1. \A i \in 2..Len(watch) : watch[i] \in S
      BY <1>1, ElementOfSeq
    <2>2. Drop(watch, 1) = SubSeq(watch, 2, Len(watch))
      BY DEF Drop
    <2>3. /\ SubSeq(watch, 2, Len(watch)) \in Seq(S)
          /\ Len(SubSeq(watch, 2, Len(watch))) = IF 2 <= Len(watch) THEN Len(watch) - 2 + 1 ELSE 0
          /\ \A i \in 1..(Len(watch) - 2 + 1) :
               SubSeq(watch, 2, Len(watch))[i] = watch[2 + i - 1]
      BY <1>1, <2>1, SubSeqProperties
    <2>4. /\ Len(watch) - 2 + 1 = Len(watch) - 1
          /\ (IF 2 <= Len(watch) THEN Len(watch) - 2 + 1 ELSE 0) = Len(watch) - 1
          /\ \A i \in 1..(Len(watch) - 1) : 2 + i - 1 = i + 1
      BY <1>1
    <2> QED
      BY <2>2, <2>3, <2>4
  <1>3. EndsAt(live, watch[1], Drop(watch, 1))
    <2>1. CASE Len(watch) = 1
      <3>1. Drop(watch, 1) = <<>>
        BY <1>1, <1>2, <2>1, EmptySeq
      <3>2. live = watch[1]
        BY <1>1, <2>1 DEF EndsAt
      <3> QED
        BY <3>1, <3>2 DEF EndsAt
    <2>2. CASE Len(watch) > 1
      <3>1. Drop(watch, 1) # <<>> /\ Drop(watch, 1)[Len(watch) - 1] = watch[Len(watch)]
        BY <1>1, <1>2, <2>2, EmptySeq
      <3>2. live = watch[Len(watch)]
        BY <1>1 DEF EndsAt
      <3>3. Drop(watch, 1)[Len(Drop(watch, 1))] = watch[Len(watch)]
        BY <1>2, <3>1
      <3> QED
        BY <3>1, <3>2, <3>3 DEF EndsAt
    <2>3. \A n \in Nat : n >= 1 => n = 1 \/ n > 1
      OBVIOUS
    <2> QED
      BY <1>1, <2>1, <2>2, <2>3
  <1>4. ASSUME watch[1] = Absent <=> cache = Absent
        PROVE  FlatFrom(watch[1], Drop(watch, 1)) <=> FlatFrom(cache, watch)
    <2>1. ASSUME FlatFrom(cache, watch) PROVE FlatFrom(watch[1], Drop(watch, 1))
      BY <1>1, <1>2, <1>4, <2>1 DEF FlatFrom
    <2>2. ASSUME FlatFrom(watch[1], Drop(watch, 1)), NEW i \in 1..Len(watch)
          PROVE  watch[i] = Absent <=> cache = Absent
      <3>1. CASE i = 1
        BY <1>4, <3>1
      <3>2. CASE i # 1
        <4>1. i - 1 \in 1..(Len(watch) - 1) /\ watch[i] = Drop(watch, 1)[i - 1]
          BY <1>1, <1>2, <3>2
        <4> QED
          BY <1>2, <1>4, <2>2, <4>1 DEF FlatFrom
      <3> QED
        BY <3>1, <3>2
    <2> QED
      BY <2>1, <2>2 DEF FlatFrom
  <1> QED
    BY <1>3, <1>4

-----------------------------------------------------------------------------
(* Presence.                                                               *)

\* The server stores or removes an object: only the watch of its key grows, and
\* it ends where the object is.
LEMMA StoredWatch ==
  ASSUME TypeOK, WatchEnds, NEW s \in Secrets, NEW object \in Objects \cup {Absent},
         Store(s, object), UNCHANGED usageCache
  PROVE  /\ WatchEnds'
         /\ \A k \in Secrets : Flat(k)' => Flat(k)
         /\ Flat(s)' => (object = Absent <=> usageCache[s] = Absent)
  <1> DEFINE Stored == Objects \cup {Absent}
  <1>1. /\ usageWatch[s] \in Seq(Stored)
        /\ usages' = [usages EXCEPT ![s] = object]
        /\ usageWatch' = [usageWatch EXCEPT
                            ![s] = IF object = usages[s] THEN @ ELSE Append(@, object)]
        /\ EndsAt(usages[s], usageCache[s], usageWatch[s])
    BY DEF Store, TypeOK, WatchEnds
  <1>2. /\ \A k \in Secrets : k # s => usages'[k] = usages[k] /\ usageWatch'[k] = usageWatch[k]
        /\ usages'[s] = object
        /\ usageWatch'[s] = IF object = usages[s] THEN usageWatch[s]
                            ELSE Append(usageWatch[s], object)
    BY <1>1 DEF TypeOK
  <1> HIDE DEF Stored
  <1>3. /\ EndsAt(object, usageCache[s], usageWatch'[s])
        /\ FlatFrom(usageCache[s], usageWatch'[s]) => FlatFrom(usageCache[s], usageWatch[s])
    <2>1. CASE object = usages[s]
      BY <1>1, <1>2, <2>1
    <2>2. CASE object # usages[s]
      <3>1. object \in Stored
        BY DEF Stored
      <3> QED
        BY <1>1, <1>2, <2>2, <3>1, AppendedWatch
    <2> QED
      BY <2>1, <2>2
  <1>4. usageWatch'[s] \in Seq(Stored)
    BY StoreType DEF Stored
  <1>5. Flat(s)' => (object = Absent <=> usageCache[s] = Absent)
    BY <1>3, <1>4, FlatAgrees DEF Flat
  <1>6. WatchEnds'
    BY <1>2, <1>3 DEF WatchEnds
  <1>7. \A k \in Secrets : Flat(k)' => Flat(k)
    BY <1>2, <1>3 DEF Flat
  <1> QED
    BY <1>5, <1>6, <1>7

\* Nothing happens to an object that the controller would have to know of.
Calm(s) ==
  /\ usageCache'[s] = Absent <=> usageCache[s] = Absent
  /\ Flat(s)' => Flat(s)

\* The steps outside the worker, but for a relist of SecretUsage.
OutsideInOrder ==
  \/ Outside /\ UNCHANGED <<usages, usageWatch, usageCache>>
  \/ \E s \in Secrets : UserDeletesUsage(s) \/ ObserveUsage(s, 1)

\* The steps of a reconcile.
WorkerStep ==
  \/ \E s \in Secrets : secretExists(s)
  \/ collectUsages \/ Forget \/ Get \/ Rejected \/ CallFails
  \/ \E received \in BOOLEAN :
       \/ Delete(received) \/ Create(received) \/ Publish(received)
       \/ PatchLabels(received) \/ PatchStatus(received)

\* Every step in which nobody else removes an object is one of these.
LEMMA UndisturbedCases ==
  ASSUME Undisturbed
  PROVE  \/ Outside /\ UNCHANGED <<usages, usageWatch, usageCache>>
         \/ \E s \in Secrets : ObserveUsage(s, 1)
         \/ WorkerStep
  <1> USE DEF vars, liveVars, watchVars, cacheVars, queueVars
  <1> DEFINE Elsewhere == Outside /\ UNCHANGED <<usages, usageWatch, usageCache>>
  <1>1. ASSUME \/ \E s \in Secrets : ChangeSecret(s) \/ Enqueue(s) \/ RetryDue(s)
                                       \/ ResyncSecret(s)
               \/ \E c \in Consumers : ResyncSpec(c)
        PROVE  Elsewhere
    BY <1>1 DEF Outside, ChangeSecret, Enqueue, RetryDue, ResyncSecret, ResyncSpec
  <1>2. ASSUME NEW c \in Consumers, NEW names \in SUBSET Secrets, ChangeSpec(c, names)
        PROVE  Elsewhere
    <2>1. UNCHANGED <<usages, usageWatch, usageCache>>
      BY <1>2 DEF ChangeSpec
    <2> QED
      BY <1>2, <2>1 DEF Outside
  <1>3. ASSUME NEW s \in Secrets, NEW n \in 1..Len(secretWatch[s]), ObserveSecret(s, n)
        PROVE  Elsewhere
    <2>1. UNCHANGED <<usages, usageWatch, usageCache>>
      BY <1>3 DEF ObserveSecret
    <2> QED
      BY <1>3, <2>1 DEF Outside
  <1>4. ASSUME NEW c \in Consumers, NEW n \in 1..Len(specWatch[c]), ObserveSpec(c, n)
        PROVE  Elsewhere
    <2>1. UNCHANGED <<usages, usageWatch, usageCache>>
      BY <1>4 DEF ObserveSpec
    <2> QED
      BY <1>4, <2>1 DEF Outside
  <1> HIDE DEF Elsewhere
  <1>5. ASSUME Answered \/ LostReply \/ CallFails PROVE WorkerStep
    BY <1>5 DEF Answered, LostReply, WorkerStep
  <1>6. \/ Elsewhere
        \/ \E s \in Secrets : ObserveUsage(s, 1)
        \/ \E s \in Secrets : secretExists(s)
        \/ Answered \/ LostReply \/ CallFails
    BY <1>1, <1>2, <1>3, <1>4 DEF Undisturbed
  <1> QED
    BY <1>5, <1>6 DEF WorkerStep, Elsewhere

\* Every step in order is one of these.
LEMMA InOrderCases ==
  ASSUME [NextInOrder]_vars
  PROVE  OutsideInOrder \/ WorkerStep \/ Restart \/ UNCHANGED vars
  BY UndisturbedCases DEF NextInOrder, Running, OutsideInOrder

LEMMA InOrderIsOutside ==
  ASSUME OutsideInOrder PROVE Outside
  <1>1. ASSUME NEW s \in Secrets, ObserveUsage(s, 1) PROVE Outside
    BY <1>1, ObservedIsThere DEF Outside
  <1> QED
    BY <1>1 DEF OutsideInOrder, Outside

\* Whatever they do, the watches still end at the objects, and a key whose object
\* came or went in the cache is pending.
LEMMA OutsideCalm ==
  ASSUME TypeOK, WatchEnds, OutsideInOrder
  PROVE  WatchEnds' /\ \A s \in Secrets : Pending(s)' \/ Calm(s)
  <1> USE DEF vars, liveVars, watchVars, cacheVars, queueVars
  <1>1. ASSUME UNCHANGED <<usages, usageWatch, usageCache>>
        PROVE  WatchEnds' /\ \A s \in Secrets : Pending(s)' \/ Calm(s)
    BY <1>1 DEF WatchEnds, Calm, Flat
  <1>2. ASSUME NEW s \in Secrets, UserDeletesUsage(s)
        PROVE  WatchEnds' /\ \A k \in Secrets : Pending(k)' \/ Calm(k)
    <2>1. Store(s, Absent) /\ UNCHANGED usageCache
      BY <1>2 DEF UserDeletesUsage
    <2> QED
      BY <2>1, StoredWatch DEF Calm
  <1>3. ASSUME NEW s \in Secrets, ObserveUsage(s, 1)
        PROVE  WatchEnds' /\ \A k \in Secrets : Pending(k)' \/ Calm(k)
    <2> DEFINE Stored == Objects \cup {Absent}
               added == IF (usageCache[s] = Absent) # (usageWatch[s][1] = Absent) THEN {s} ELSE {}
    <2>1. /\ usageWatch[s] \in Seq(Stored) /\ 1 \in 1..Len(usageWatch[s])
          /\ usageCache' = [usageCache EXCEPT ![s] = usageWatch[s][1]]
          /\ usageWatch' = [usageWatch EXCEPT ![s] = Drop(@, 1)]
          /\ Notify({}, added) /\ UNCHANGED usages
          /\ EndsAt(usages[s], usageCache[s], usageWatch[s])
      BY <1>3 DEF ObserveUsage, enqueueOwnKey, TypeOK, WatchEnds
    <2>2. /\ \A k \in Secrets : k # s => /\ usageCache'[k] = usageCache[k]
                                         /\ usageWatch'[k] = usageWatch[k]
          /\ usageCache'[s] = usageWatch[s][1]
          /\ usageWatch'[s] = Drop(usageWatch[s], 1)
      BY <2>1 DEF TypeOK
    <2> HIDE DEF Stored, added
    <2>3. /\ EndsAt(usages[s], usageCache'[s], usageWatch'[s])
          /\ (usageWatch[s][1] = Absent <=> usageCache[s] = Absent)
               => (FlatFrom(usageCache'[s], usageWatch'[s])
                     <=> FlatFrom(usageCache[s], usageWatch[s]))
      BY <2>1, <2>2, ShiftedWatch
    <2>4. WatchEnds'
      BY <2>1, <2>2, <2>3 DEF WatchEnds
    <2>5. ASSUME NEW k \in Secrets PROVE Pending(k)' \/ Calm(k)
      <3>1. CASE k # s
        BY <2>2, <3>1 DEF Calm, Flat
      <3>2. CASE k = s /\ (usageWatch[s][1] = Absent <=> usageCache[s] = Absent)
        BY <2>2, <2>3, <3>2 DEF Calm, Flat
      <3>3. CASE k = s /\ ~(usageWatch[s][1] = Absent <=> usageCache[s] = Absent)
        <4>1. k \in added
          BY <3>3 DEF added
        <4>2. notify'[k] > 0
          BY <2>1, <4>1, NotifyAdds DEF TypeOK
        <4> QED
          BY <4>2 DEF Pending
      <3> QED
        BY <3>1, <3>2, <3>3
    <2> QED
      BY <2>4, <2>5
  <1> QED
    BY <1>1, <1>2, <1>3 DEF OutsideInOrder

\* Past the last collector, a key that is not pending is described if the reconcile
\* found that there is something to describe.
LEMMA DecidedDescribed ==
  ASSUME WorkerOK, ReadsCurrent, worker.pc \notin {"idle", "list"}, ~Pending(Key)
  PROVE  /\ described(Key) = Tracked
         /\ wantedUsage(Key) = published(DesiredLabels, DesiredStatus)
  BY DEF ReadsCurrent, WorkerOK, described, Tracked, wantedUsage, DesiredLabels, DesiredStatus

\* The two writes that follow Create, and the patches, leave an object where one is.
LEMMA RewriteKeepsPresence ==
  ASSUME TypeOK, WorkerOK, NEW received \in BOOLEAN,
         Publish(received) \/ PatchLabels(received) \/ PatchStatus(received)
  PROVE  /\ Key \in Secrets /\ usages[Key] # Absent
         /\ \E object \in Objects : Store(Key, object)
  <1>1. \A object \in Objects : object # Absent
    BY SecretUsageControllerAssumption
  <1>2. CASE Publish(received)
    <2>1. Key \in Secrets /\ usages[Key] = created(DesiredLabels)
      BY <1>2 DEF Publish, Accepted, WorkerOK, Key
    <2>2. created(DesiredLabels) \in Objects
      BY CreatedType
    <2>3. published(usages[Key].labels, DesiredStatus) \in Objects
      BY <2>1, <2>2, DesiredType DEF published, Objects
    <2> QED
      BY <1>1, <1>2, <2>1, <2>2, <2>3 DEF Publish
  <1>3. CASE PatchLabels(received)
    <2> DEFINE labels == patchedLabels(worker.current.labels, DesiredLabels, usages[Key].labels)
    <2>1. Key \in Secrets /\ usages[Key] # Absent /\ Store(Key, [usages[Key] EXCEPT !.labels = labels])
      BY <1>3 DEF PatchLabels, Accepted, WorkerOK, Key
    <2>2. usages[Key] \in Objects /\ worker.current \in Objects
      BY <1>3, <2>1 DEF PatchLabels, TypeOK, WorkerStates, WorkerOK
    <2>3. labels \in SUBSET LabelKeys
      BY <2>2, DesiredType, PatchedLabelsType DEF Objects
    <2> HIDE DEF labels
    <2>4. [usages[Key] EXCEPT !.labels = labels] \in Objects
      BY <2>2, <2>3 DEF Objects
    <2> QED
      BY <2>1, <2>4
  <1>4. CASE PatchStatus(received)
    <2> DEFINE status == patchedStatus(worker.current.status, DesiredStatus, usages[Key].status)
    <2>1. Key \in Secrets /\ usages[Key] # Absent /\ Store(Key, published(usages[Key].labels, status))
      BY <1>4 DEF PatchStatus, Accepted, WorkerOK, Key
    <2>2. usages[Key] \in Objects /\ worker.current \in Objects
      BY <1>4, <2>1 DEF PatchStatus, TypeOK, WorkerStates, WorkerOK
    <2>3. status \in Statuses
      BY <2>2, DesiredType, PatchedStatusType DEF Objects
    <2> HIDE DEF status
    <2>4. published(usages[Key].labels, status) \in Objects
      BY <2>2, <2>3 DEF published, Objects
    <2> QED
      BY <2>1, <2>4
  <1> QED
    BY <1>2, <1>3, <1>4

-----------------------------------------------------------------------------
(* Writes.                                                                 *)

\* Of all steps, those of a reconcile create or remove an object of its own key only,
\* and a reconcile that nothing overtook has found what the caches hold.
LEMMA NextJustified ==
  ASSUME GaugeInvariant, [Next]_vars, NEW s \in Secrets, worker # worker', Key = s,
         (usages[s] = Absent) # (usages'[s] = Absent), ~Pending(s)
  PROVE  usages'[s] # Absent <=> described(s)
  <1> USE DEF vars, liveVars
  <1>0. TypeOK /\ WorkerOK /\ ReadsCurrent /\ GaugeRecorded
    BY DEF GaugeInvariant
  <1>1. ASSUME worker.pc \notin {"idle", "list"} PROVE described(s) = Tracked
    BY <1>0, <1>1, DecidedDescribed
  <1>2. ASSUME NEW object, Store(s, object) PROVE usages'[s] = object
    BY <1>0, <1>2 DEF Store, TypeOK
  <1>3. ASSUME NEW received \in BOOLEAN, Delete(received)
        PROVE  usages'[s] # Absent <=> described(s)
    <2>1. worker.pc = "delete" /\ Store(s, Absent)
      BY <1>3 DEF Delete
    <2>2. ~Tracked
      BY <1>0, <2>1 DEF GaugeRecorded
    <2> QED
      BY <1>1, <1>2, <2>1, <2>2
  <1>4. ASSUME NEW received \in BOOLEAN, Create(received)
        PROVE  usages'[s] # Absent <=> described(s)
    <2>1. worker.pc = "create" /\ Store(s, created(DesiredLabels))
      BY <1>4 DEF Create
    <2>2. created(DesiredLabels) # Absent
      BY <1>0, CreatedType, SecretUsageControllerAssumption
    <2>3. Tracked
      BY <1>0, <2>1 DEF GaugeRecorded
    <2> QED
      BY <1>1, <1>2, <2>1, <2>2, <2>3
  <1>5. ASSUME NEW received \in BOOLEAN,
               Publish(received) \/ PatchLabels(received) \/ PatchStatus(received)
        PROVE  FALSE
    <2>1. usages[s] # Absent /\ \E object \in Objects : Store(s, object)
      BY <1>0, <1>5, RewriteKeepsPresence
    <2>2. usages'[s] # Absent
      BY <1>2, <2>1, SecretUsageControllerAssumption
    <2> QED
      BY <2>1, <2>2
  <1>6. ASSUME Outside PROVE FALSE
    <2>1. TypeOK'
      BY <1>0, NextTypes
    <2>2. worker' = worker
      BY <1>0, <1>6, <2>1, OutsideFrames DEF OutsideFrame
    <2> QED
      BY <2>2
  <1>7. ASSUME \/ \E k \in Secrets : secretExists(k)
               \/ collectUsages \/ Forget \/ Get \/ Rejected \/ CallFails \/ Restart
               \/ UNCHANGED vars
        PROVE  FALSE
    <2>1. usages' = usages
      BY <1>7 DEF secretExists, collectUsages, Forget, Get, Rejected, CallFails, Restart
    <2> QED
      BY <2>1
  <1> QED
    BY <1>3, <1>4, <1>5, <1>6, <1>7, NextCases

\* With watches of all kinds interrupted and whoever removes objects: a reconcile creates
\* or removes an object only where the caches of the moment call for that, or its key is
\* pending and will be looked at again.
THEOREM NoWriteInVain == Spec => WritesJustified
  <1>1. GaugeInvariant /\ [Next]_vars
          => [\A s \in Secrets :
                /\ worker # worker' /\ Key = s
                /\ (usages[s] = Absent) # (usages'[s] = Absent)
                => Pending(s) \/ (usages'[s] # Absent <=> described(s))]_vars
    BY NextJustified
  <1> QED
    BY <1>1, GaugeInvariantHolds, PTL DEF Spec, WritesJustified

-----------------------------------------------------------------------------
(* Steps of the worker.                                                    *)

\* Steps of the worker after the last collector: the reconcile goes on with what it
\* found, or ends with its key pending, its watch telling of a change, or its object
\* in the cache exactly if it is described.
LEMMA WorkerPresence ==
  ASSUME TypeOK, WorkerOK, PresenceInvariant, worker.pc # "idle",
         NEW key \in Secrets, worker.key = key,
         UNCHANGED <<secretCache, specCache, usageCache, notify, dirty>>,
         backoff' \in {backoff, backoff \cup {key}},
         WatchEnds', \A s \in Secrets : Flat(s)' => Flat(s),
         \/ /\ worker'.key = key
            /\ ~Pending(key) =>
                 /\ worker'.pc \in {"delete", "labels", "status"} => usageCache[key] # Absent
                 /\ worker'.pc = "create" => usageCache[key] = Absent
                 /\ worker'.pc = "publish" => ~Flat(key)'
         \/ /\ worker' = Idle
            /\ \/ Pending(key) \/ key \in backoff'
               \/ Flat(key)' => (usageCache[key] # Absent <=> described(key))
  PROVE  PresenceInvariant'
  <1>1. Key = key
    BY DEF Key
  <1>2. \A s \in Secrets : Pending(s) => Pending(s)'
    BY DEF Pending
  <1>3. \A s \in Secrets : described(s)' = described(s)
    BY DEF described, cachedUsages
  <1>4. ASSUME NEW s \in Secrets, s # key, Settled(s)', Flat(s)'
        PROVE  usageCache[s] # Absent <=> described(s)
    <2>1. ~Pending(s) /\ worker.key # s
      BY <1>1, <1>2, <1>4 DEF Settled
    <2> QED
      BY <1>4, <2>1 DEF PresenceInvariant, PresenceAtRest, Settled
  <1>5. CASE /\ worker'.key = key
             /\ ~Pending(key) =>
                  /\ worker'.pc \in {"delete", "labels", "status"} => usageCache[key] # Absent
                  /\ worker'.pc = "create" => usageCache[key] = Absent
                  /\ worker'.pc = "publish" => ~Flat(key)'
    <2>1. PresenceAtRest'
      <3> SUFFICES ASSUME NEW s \in Secrets, Settled(s)', Flat(s)'
                   PROVE  usageCache[s] # Absent <=> described(s)
        BY <1>3 DEF PresenceAtRest
      <3>1. s # key
        BY <1>1, <1>5 DEF Settled
      <3> QED
        BY <1>4, <3>1
    <2>2. PresenceInReconcile'
      <3> SUFFICES ASSUME ~Pending(worker.key)'
                   PROVE  /\ worker'.pc \in {"delete", "labels", "status"} => usageCache[key] # Absent
                          /\ worker'.pc = "create" => usageCache[key] = Absent
                          /\ worker'.pc = "publish" => ~Flat(key)'
        BY <1>1, <1>5 DEF PresenceInReconcile, Key, Pending, Flat
      <3>1. ~Pending(key)
        BY <1>1, <1>5 DEF Pending
      <3> QED
        BY <1>5, <3>1
    <2> QED
      BY <2>1, <2>2 DEF PresenceInvariant
  <1>6. CASE /\ worker' = Idle
             /\ \/ Pending(key) \/ key \in backoff'
                \/ Flat(key)' => (usageCache[key] # Absent <=> described(key))
    <2>1. PresenceInReconcile'
      BY <1>6 DEF PresenceInReconcile, Idle
    <2>2. PresenceAtRest'
      <3> SUFFICES ASSUME NEW s \in Secrets, Settled(s)', Flat(s)'
                   PROVE  usageCache[s] # Absent <=> described(s)
        BY <1>3 DEF PresenceAtRest
      <3>1. CASE s = key
        <4>1. ~Pending(key) /\ key \notin backoff'
          BY <1>1, <1>2, <3>1 DEF Settled, Pending
        <4>2. Flat(key)'
          BY <3>1 DEF Flat
        <4> QED
          BY <1>6, <3>1, <4>1, <4>2
      <3> QED
        BY <1>4, <3>1
    <2> QED
      BY <2>1, <2>2 DEF PresenceInvariant
  <1> QED
    BY <1>5, <1>6

\* A step outside the worker after which each key is pending, or else what is read
\* about it and whether it has an object are what they were.
LEMMA OutsidePresence ==
  ASSUME WorkerOK, PresenceInvariant, OutsideFrame, WatchEnds',
         \A s \in Secrets : Pending(s)' \/ Calm(s)
  PROVE  PresenceInvariant'
  <1>1. ASSUME NEW s \in Secrets, ~Pending(s)'
        PROVE  ~Pending(s) /\ Calm(s) /\ (described(s)' <=> described(s))
    <2>1. ~Pending(s) /\ Calm(s) /\ SameReads(s)
      BY <1>1 DEF OutsideFrame
    <2>2. NumKinds \in 0..NumKinds
      BY SecretUsageControllerAssumption
    <2> QED
      BY <2>1, <2>2 DEF SameReads, described
  <1>2. PresenceAtRest'
    <2> SUFFICES ASSUME NEW s \in Secrets, Settled(s)', Flat(s)'
                 PROVE  usageCache'[s] # Absent <=> described(s)'
      BY DEF PresenceAtRest
    <2>1. ~Pending(s) /\ Calm(s) /\ (described(s)' <=> described(s))
      BY <1>1 DEF Settled
    <2>2. Settled(s) /\ Flat(s)
      BY <2>1 DEF OutsideFrame, Settled, Calm
    <2> QED
      BY <2>1, <2>2 DEF PresenceInvariant, PresenceAtRest, Calm
  <1>3. PresenceInReconcile'
    <2> SUFFICES ASSUME worker.pc # "idle", NEW key \in Secrets, key = worker.key,
                        ~Pending(key)'
                 PROVE  /\ worker.pc \in {"delete", "labels", "status"} => usageCache'[key] # Absent
                        /\ worker.pc = "create" => usageCache'[key] = Absent
                        /\ worker.pc = "publish" => ~Flat(key)'
      <3>1. worker' = worker
        BY DEF OutsideFrame
      <3>2. worker.pc # "idle" => worker.key \in Secrets
        BY DEF WorkerOK
      <3> QED
        BY <3>1, <3>2 DEF PresenceInReconcile, Key, Pending, Flat
    <2>1. ~Pending(key) /\ Calm(key)
      BY <1>1
    <2> QED
      BY <2>1 DEF PresenceInvariant, PresenceInReconcile, Key, Calm
  <1> QED
    BY <1>2, <1>3 DEF PresenceInvariant

\* Every step in order keeps the invariant.
LEMMA NextPresence ==
  ASSUME TypeOK, WorkerOK, GaugeCore, TypeOK', PresenceInvariant, [NextInOrder]_vars
  PROVE  PresenceInvariant'
  <1> USE DEF vars, liveVars, watchVars, cacheVars, queueVars
  <1>1. ASSUME OutsideInOrder PROVE PresenceInvariant'
    BY <1>1, InOrderIsOutside, OutsideFrames, OutsideCalm, OutsidePresence DEF PresenceInvariant
  <1>2. ASSUME NEW s \in Secrets, secretExists(s) PROVE PresenceInvariant'
    <2>1. /\ worker = Idle
          /\ worker' = [Idle EXCEPT !.pc = "list", !.key = s, !.exists = secretCache[s]]
          /\ UNCHANGED <<secretCache, specCache, usageCache, usages, usageWatch, notify, backoff>>
          /\ dirty' = dirty \ {s}
      BY <1>2 DEF secretExists
    <2>2. worker'.pc = "list" /\ worker'.key = s
      BY <2>1 DEF Idle
    <2>3. PresenceInReconcile'
      BY <2>2 DEF PresenceInReconcile
    <2>4. PresenceAtRest'
      <3> SUFFICES ASSUME NEW k \in Secrets, Settled(k)', Flat(k)'
                   PROVE  usageCache[k] # Absent <=> described(k)
        BY <2>1 DEF PresenceAtRest, described, cachedUsages
      <3>1. Settled(k)
        BY <2>1, <2>2, SecretUsageControllerAssumption DEF Settled, Pending, Idle
      <3>2. Flat(k)
        BY <2>1 DEF Flat
      <3> QED
        BY <3>1, <3>2 DEF PresenceInvariant, PresenceAtRest
    <2>5. WatchEnds'
      BY <2>1 DEF PresenceInvariant, WatchEnds
    <2> QED
      BY <2>3, <2>4, <2>5 DEF PresenceInvariant
  <1>3. ASSUME NEW key \in Secrets, key = worker.key, worker.pc # "idle",
               UNCHANGED <<secretCache, specCache, usageCache, notify, dirty>>,
               backoff' \in {backoff, backoff \cup {key}},
               UNCHANGED <<usages, usageWatch>>,
               \/ /\ worker'.key = key
                  /\ ~Pending(key) =>
                       /\ worker'.pc \in {"delete", "labels", "status"} => usageCache[key] # Absent
                       /\ worker'.pc = "create" => usageCache[key] = Absent
                       /\ worker'.pc # "publish"
               \/ /\ worker' = Idle
                  /\ \/ Pending(key) \/ key \in backoff'
                     \/ usageCache[key] # Absent <=> described(key)
        PROVE  PresenceInvariant'
    <2>1. WatchEnds' /\ \A s \in Secrets : Flat(s)' => Flat(s)
      BY <1>3 DEF PresenceInvariant, WatchEnds, Flat
    <2> QED
      BY <1>3, <2>1, WorkerPresence
  <1>4. ASSUME NEW key \in Secrets, key = worker.key, worker.pc # "idle",
               UNCHANGED <<secretCache, specCache, usageCache, notify, dirty>>,
               backoff' \in {backoff, backoff \cup {key}},
               NEW object \in Objects \cup {Absent}, Store(key, object),
               \/ /\ worker'.key = key
                  /\ ~Pending(key) =>
                       /\ worker'.pc \in {"delete", "labels", "status"} => usageCache[key] # Absent
                       /\ worker'.pc # "create"
                       /\ worker'.pc = "publish" => ~Flat(key)'
               \/ /\ worker' = Idle
                  /\ \/ Pending(key) \/ key \in backoff'
                     \/ Flat(key)' => (usageCache[key] # Absent <=> described(key))
        PROVE  PresenceInvariant'
    <2>1. WatchEnds' /\ \A s \in Secrets : Flat(s)' => Flat(s)
      BY <1>4, StoredWatch DEF PresenceInvariant
    <2> QED
      BY <1>4, <2>1, WorkerPresence
  <1>5. ASSUME worker.pc # "idle"
        PROVE  worker.key \in Secrets /\ worker \in WorkerStates
    BY <1>5 DEF WorkerOK, TypeOK
  <1>6. ASSUME worker.pc \notin {"idle", "list"}, NEW key \in Secrets, key = worker.key, ~Pending(key)
        PROVE  described(key) = Tracked
    BY <1>6, DecidedDescribed DEF GaugeCore, Key
  <1>7. ASSUME collectUsages PROVE PresenceInvariant'
    <2>1. PICK key \in Secrets : key = worker.key
      BY <1>5, <1>7 DEF collectUsages
    <2>2. worker'.key = key /\ worker'.pc \in {"list", "decide"}
      BY <1>5, <1>7, <2>1 DEF collectUsages, WorkerStates
    <2> QED
      BY <1>3, <1>7, <2>1, <2>2 DEF collectUsages
  <1>8. ASSUME Forget PROVE PresenceInvariant'
    <2>1. PICK key \in Secrets : key = worker.key
      BY <1>5, <1>8 DEF Forget
    <2>2. /\ worker.pc = "decide" /\ ~Tracked
          /\ UNCHANGED <<secretCache, specCache, usageCache, usages, usageWatch, notify, dirty>>
      BY <1>8 DEF Forget
    <2>3. CASE usageCache[key] = Absent
      <3>1. worker' = Idle /\ UNCHANGED backoff
        BY <1>8, <2>1, <2>3 DEF Forget, Done, Key
      <3> QED
        BY <1>3, <1>6, <2>1, <2>2, <2>3, <3>1
    <2>4. CASE usageCache[key] # Absent
      <3>1. worker'.pc = "delete" /\ worker'.key = key /\ UNCHANGED backoff
        BY <1>5, <1>8, <2>1, <2>4 DEF Forget, Key, WorkerStates
      <3> QED
        BY <1>3, <2>1, <2>2, <2>4, <3>1
    <2> QED
      BY <2>3, <2>4
  <1>9. ASSUME Get PROVE PresenceInvariant'
    <2>1. PICK key \in Secrets : key = worker.key
      BY <1>5, <1>9 DEF Get
    <2>2. /\ worker.pc = "decide" /\ Tracked
          /\ UNCHANGED <<secretCache, specCache, usageCache, usages, usageWatch, notify, dirty, backoff>>
      BY <1>9 DEF Get
    <2>3. CASE usageCache[key] = Absent
      <3>1. worker'.pc = "create" /\ worker'.key = key
        BY <1>5, <1>9, <2>1, <2>3 DEF Get, Key, WorkerStates
      <3> QED
        BY <1>3, <2>1, <2>2, <2>3, <3>1
    <2>4. CASE usageCache[key] # Absent
      <3>1. \/ worker' = Idle
            \/ worker'.pc \in {"labels", "status"} /\ worker'.key = key
        BY <1>5, <1>9, <2>1, <2>4 DEF Get, PatchStatusNext, Key, WorkerStates
      <3>2. CASE worker' = Idle
        BY <1>3, <1>6, <2>1, <2>2, <2>4, <3>2
      <3>3. CASE worker'.pc \in {"labels", "status"} /\ worker'.key = key
        BY <1>3, <2>1, <2>2, <2>4, <3>3
      <3> QED
        BY <3>1, <3>2, <3>3
    <2> QED
      BY <2>3, <2>4
  <1>10. ASSUME Rejected \/ CallFails PROVE PresenceInvariant'
    <2>1. worker.pc # "idle"
      BY <1>10 DEF Rejected, CallFails, WorkerOK
    <2>2. PICK key \in Secrets : key = worker.key
      BY <1>5, <2>1
    <2>3. /\ worker' = Idle /\ backoff' = backoff \cup {key} /\ key \in backoff'
          /\ UNCHANGED <<secretCache, specCache, usageCache, usages, usageWatch, notify, dirty>>
      BY <1>10, <2>2 DEF Rejected, CallFails, Fail, Key
    <2> QED
      BY <1>3, <2>1, <2>2, <2>3
  <1>11. ASSUME NEW received \in BOOLEAN, Delete(received) PROVE PresenceInvariant'
    <2>1. PICK key \in Secrets : key = worker.key
      BY <1>5, <1>11 DEF Delete
    <2>2. /\ worker.pc = "delete" /\ Store(key, Absent)
          /\ UNCHANGED <<secretCache, specCache, usageCache, notify, dirty>>
          /\ worker' = Idle
          /\ UNCHANGED backoff \/ backoff' = backoff \cup {key}
      BY <1>11, <2>1 DEF Delete, Done, Fail, Key
    <2>3. ~Pending(key) => usageCache[key] # Absent
      BY <2>1, <2>2 DEF PresenceInvariant, PresenceInReconcile, Key
    <2>4. Flat(key)' => usageCache[key] = Absent
      BY <2>2, StoredWatch DEF PresenceInvariant
    <2> QED
      BY <1>4, <2>1, <2>2, <2>3, <2>4
  <1>12. ASSUME NEW received \in BOOLEAN, Create(received) PROVE PresenceInvariant'
    <2> DEFINE object == created(DesiredLabels)
    <2>1. PICK key \in Secrets : key = worker.key
      BY <1>5, <1>12 DEF Create
    <2>2. /\ worker.pc = "create" /\ Store(key, object)
          /\ UNCHANGED <<secretCache, specCache, usageCache, notify, dirty>>
          /\ \/ worker' = [worker EXCEPT !.pc = "publish"] /\ UNCHANGED backoff
             \/ worker' = Idle /\ backoff' = backoff \cup {key}
      BY <1>12, <2>1 DEF Create, Fail, Key
    <2>3. object \in Objects /\ object # Absent
      BY CreatedType, SecretUsageControllerAssumption
    <2> HIDE DEF object
    <2>4. ~Pending(key) => usageCache[key] = Absent
      BY <2>1, <2>2 DEF PresenceInvariant, PresenceInReconcile, Key
    <2>5. Flat(key)' => usageCache[key] # Absent
      BY <2>2, <2>3, StoredWatch DEF PresenceInvariant
    <2>6. worker' = [worker EXCEPT !.pc = "publish"] => worker'.pc = "publish" /\ worker'.key = key
      BY <1>5, <2>1, <2>2 DEF WorkerStates
    <2> QED
      BY <1>4, <2>1, <2>2, <2>3, <2>4, <2>5, <2>6
  <1>13. ASSUME NEW received \in BOOLEAN, Publish(received) PROVE PresenceInvariant'
    <2> DEFINE object == published(usages[Key].labels, DesiredStatus)
    <2>1. PICK key \in Secrets : key = worker.key
      BY <1>5, <1>13 DEF Publish
    <2>2. /\ worker.pc = "publish" /\ Store(key, object)
          /\ UNCHANGED <<secretCache, specCache, usageCache, notify, dirty>>
          /\ worker' = Idle
          /\ UNCHANGED backoff \/ backoff' = backoff \cup {key}
      BY <1>13, <2>1 DEF Publish, Done, Fail, Key
    <2>3. object \in Objects \cup {Absent}
      <3>1. usages'[key] = object
        BY <2>2 DEF Store, TypeOK
      <3> QED
        BY <3>1 DEF TypeOK
    <2> HIDE DEF object
    <2>4. ~Pending(key) => ~Flat(key)
      BY <2>1, <2>2 DEF PresenceInvariant, PresenceInReconcile, Key
    <2>5. Flat(key)' => Flat(key)
      BY <2>2, <2>3, StoredWatch DEF PresenceInvariant
    <2> QED
      BY <1>4, <2>1, <2>2, <2>3, <2>4, <2>5
  <1>14. ASSUME NEW received \in BOOLEAN, PatchLabels(received) \/ PatchStatus(received)
         PROVE  PresenceInvariant'
    <2>1. worker.pc \in {"labels", "status"}
      BY <1>14 DEF PatchLabels, PatchStatus
    <2>2. PICK key \in Secrets : key = worker.key
      BY <1>5, <2>1
    <2>3. PICK object : Store(key, object)
      BY <1>14, <2>2 DEF PatchLabels, PatchStatus, Key
    <2>4. object \in Objects \cup {Absent}
      <3>1. usages'[key] = object
        BY <2>3 DEF Store, TypeOK
      <3> QED
        BY <3>1 DEF TypeOK
    <2>5. /\ UNCHANGED <<secretCache, specCache, usageCache, notify, dirty>>
          /\ \/ worker' = Idle /\ UNCHANGED backoff
             \/ worker' = Idle /\ backoff' = backoff \cup {key}
             \/ worker'.pc = "status" /\ worker'.key = key /\ UNCHANGED backoff
      BY <1>5, <1>14, <2>1, <2>2
         DEF PatchLabels, PatchStatus, PatchStatusNext, Done, Fail, Key, WorkerStates
    <2>6. ~Pending(key) => usageCache[key] # Absent /\ described(key)
      <3>1. Tracked
        BY <2>1 DEF GaugeCore, GaugeRecorded
      <3> QED
        BY <1>6, <2>1, <2>2, <3>1 DEF PresenceInvariant, PresenceInReconcile, Key
    <2>7. CASE worker' = Idle
      BY <1>4, <2>1, <2>2, <2>3, <2>4, <2>5, <2>6, <2>7
    <2>8. CASE worker'.pc = "status" /\ worker'.key = key /\ UNCHANGED backoff
      BY <1>4, <2>1, <2>2, <2>3, <2>4, <2>5, <2>6, <2>8
    <2> QED
      BY <2>5, <2>7, <2>8
  <1>15. ASSUME Restart PROVE PresenceInvariant'
    <2>1. /\ worker' = Idle /\ usageWatch' = NoEvents(Secrets) /\ usageCache' = usages
          /\ usages' = usages /\ secretCache' = secrets /\ specCache' = specs
          /\ dirty' = {s \in Secrets : named(s)}
      BY <1>15 DEF Restart
    <2>2. WatchEnds'
      BY <2>1 DEF WatchEnds, EndsAt, NoEvents
    <2>3. PresenceInReconcile'
      BY <2>1 DEF PresenceInReconcile, Idle
    <2>4. PresenceAtRest'
      <3> SUFFICES ASSUME NEW s \in Secrets, s \notin dirty'
                   PROVE  usages[s] = Absent /\ ~described(s)'
        BY <2>1 DEF PresenceAtRest, Settled, Pending
      <3>1. ~secrets[s] /\ usages[s] = Absent /\ \A c \in Consumers : s \notin specs[c]
        BY <2>1 DEF named
      <3>2. secretCache'[s] = FALSE /\ cachedUsages(s, NumKinds)' = {}
        BY <2>1, <3>1 DEF cachedUsages, TypeOK
      <3> QED
        BY <3>1, <3>2 DEF described, tracked
    <2> QED
      BY <2>2, <2>3, <2>4 DEF PresenceInvariant
  <1>16. CASE UNCHANGED vars
    BY <1>16 DEF PresenceInvariant, WatchEnds, PresenceAtRest, PresenceInReconcile, Settled,
                 Pending, Flat, described, cachedUsages, Key
  <1> QED
    BY <1>1, <1>2, <1>7, <1>8, <1>9, <1>10, <1>11, <1>12, <1>13, <1>14, <1>15, <1>16, InOrderCases
       DEF WorkerStep

\* The invariant holds initially: every key that calls for an object is queued.
LEMMA InitPresence == Init => PresenceInvariant
  <1> SUFFICES ASSUME Init PROVE PresenceInvariant
    OBVIOUS
  <1>1. /\ worker = Idle /\ usageWatch = NoEvents(Secrets) /\ usageCache = usages
        /\ usages = [s \in Secrets |-> Absent]
    BY DEF Init
  <1>2. WatchEnds /\ PresenceInReconcile
    BY <1>1 DEF WatchEnds, EndsAt, NoEvents, PresenceInReconcile, Idle
  <1>3. PresenceAtRest
    <2> SUFFICES ASSUME NEW s \in Secrets, s \notin dirty PROVE ~described(s)
      BY <1>1 DEF PresenceAtRest, Settled, Pending
    <2>1. ~secrets[s] /\ \A c \in Consumers : s \notin specs[c]
      BY DEF Init, named
    <2>2. secretCache[s] = FALSE /\ cachedUsages(s, NumKinds) = {}
      BY <2>1 DEF Init, cachedUsages
    <2> QED
      BY <2>2 DEF described, tracked
  <1> QED
    BY <1>2, <1>3 DEF PresenceInvariant

\* What the proofs below take for granted of a state.
Sound == TypeOK /\ WorkerOK /\ GaugeCore /\ PresenceInvariant

LEMMA InitSound == Init => Sound
  BY InitTypes, InitGauge, InitPresence DEF Sound

LEMMA NextSound ==
  ASSUME Sound, [NextInOrder]_vars
  PROVE  Sound'
  <1>1. [Next]_vars
    BY DEF Next
  <1>2. TypeOK' /\ WorkerOK'
    BY <1>1, NextTypes DEF Sound
  <1>3. GaugeCore'
    BY <1>1, <1>2, NextGauge DEF Sound
  <1> QED
    BY <1>2, <1>3, NextPresence DEF Sound

\* The inductive invariant: the object of a key at rest is in the cache exactly if
\* there is something to describe, or an event that brings the key back is coming.
THEOREM PresenceInvariantHolds == SpecInOrder => []PresenceInvariant
  <1>1. Sound /\ [NextInOrder]_vars => Sound'
    BY NextSound
  <1>2. Sound => PresenceInvariant
    BY DEF Sound
  <1> QED
    BY InitSound, <1>1, <1>2, PTL DEF SpecInOrder

\* A quiet key has an object exactly if there is something to describe.
LEMMA QuietPresence ==
  ASSUME PresenceInvariant, NEW s \in Secrets, Quiet(s)
  PROVE  Settled(s) /\ Flat(s) /\ (usages[s] # Absent <=> described(s))
  <1>1. Settled(s) /\ usageWatch[s] = <<>>
    BY DEF Quiet
  <1>2. Flat(s) /\ usages[s] = usageCache[s]
    BY <1>1 DEF PresenceInvariant, WatchEnds, EndsAt, Flat, FlatFrom
  <1> QED
    BY <1>1, <1>2 DEF PresenceInvariant, PresenceAtRest

\* A SecretUsage object exists exactly for the Secrets there is something to say
\* about, once nothing will reconcile the key any more, whoever removed or created
\* it, and whichever calls failed or took effect without a reply.
THEOREM NoOrphansNoGaps == SpecInOrder => []PresenceSettled
  <1>1. PresenceInvariant => PresenceSettled
    BY QuietPresence DEF PresenceSettled
  <1> QED
    BY <1>1, PresenceInvariantHolds, PTL

-----------------------------------------------------------------------------
(* Content.                                                                *)

\* A patch computed from the latest state leaves what was wanted.
LEMMA PatchOfLatest ==
  /\ \A old, new \in SUBSET LabelKeys : patchedLabels(old, new, old) = new
  /\ \A old, new \in Statuses : patchedStatus(old, new, old) = new
  /\ \A status \in Statuses : \A written : decodedInto(status, status, written) = status
  <1>1. \A old, new \in SUBSET LabelKeys : patchedLabels(old, new, old) = new
    BY DEF patchedLabels
  <1>2. \A old, new \in Statuses : patchedStatus(old, new, old) = new
    BY DEF patchedStatus, patchedField, Statuses
  <1>3. \A status \in Statuses : \A written : decodedInto(status, status, written) = status
    BY DEF decodedInto, Statuses
  <1> QED
    BY <1>1, <1>2, <1>3

\* An object that compares equal to what is wanted is what is wanted: one without a
\* status has no references, and no references never compare equal.
LEMMA EqualIsWanted ==
  ASSUME NEW object \in Objects, NEW labels, NEW status,
         ~object.written => object.status = NoStatus,
         object.labels = labels, statusDeepEqual(object.status, status)
  PROVE  object = published(labels, status)
  BY DEF statusDeepEqual, published, Objects, NoStatus

\* An object that was never given a status has none: no step writes one and leaves it
\* marked as unwritten.
LEMMA NextUnwrittenEmpty ==
  ASSUME TypeOK, WorkerOK, UnwrittenEmpty, [NextInOrder]_vars
  PROVE  UnwrittenEmpty'
  <1> USE DEF vars, liveVars, watchVars, cacheVars, queueVars
  <1>1. ASSUME NEW s \in Secrets, NEW object, Store(s, object),
               object # Absent /\ ~object.written => object.status = NoStatus
        PROVE  UnwrittenEmpty'
    <2>1. /\ usages'[s] = object
          /\ \A k \in Secrets : k # s => usages'[k] = usages[k]
      BY <1>1 DEF Store, TypeOK
    <2> QED
      BY <1>1, <2>1 DEF UnwrittenEmpty
  <1>2. ASSUME UNCHANGED usages PROVE UnwrittenEmpty'
    BY <1>2 DEF UnwrittenEmpty
  <1>3. worker.pc # "idle" => Key \in Secrets
    BY DEF WorkerOK, Key
  <1>4. CASE OutsideInOrder
    BY <1>1, <1>2, <1>4 DEF OutsideInOrder, UserDeletesUsage, ObserveUsage
  <1>5. ASSUME NEW received \in BOOLEAN, Delete(received) PROVE UnwrittenEmpty'
    BY <1>1, <1>3, <1>5 DEF Delete
  <1>6. ASSUME NEW received \in BOOLEAN, Create(received) PROVE UnwrittenEmpty'
    <2>1. created(DesiredLabels).status = NoStatus
      BY DEF created
    <2> QED
      BY <1>1, <1>3, <1>6, <2>1 DEF Create
  <1>7. ASSUME NEW received \in BOOLEAN, Publish(received) PROVE UnwrittenEmpty'
    <2>1. \A labels, status : published(labels, status).written
      BY DEF published
    <2> QED
      BY <1>1, <1>3, <1>7, <2>1 DEF Publish
  <1>8. ASSUME NEW received \in BOOLEAN, PatchLabels(received) PROVE UnwrittenEmpty'
    <2> DEFINE object == [usages[Key] EXCEPT
                 !.labels = patchedLabels(worker.current.labels, DesiredLabels, @)]
    <2>1. Key \in Secrets /\ usages[Key] # Absent /\ usages[Key] \in Objects
      BY <1>3, <1>8 DEF PatchLabels, Accepted, TypeOK
    <2>2. object.written = usages[Key].written /\ object.status = usages[Key].status
      BY <2>1 DEF Objects
    <2>3. ~object.written => object.status = NoStatus
      BY <2>1, <2>2 DEF UnwrittenEmpty
    <2>4. Store(Key, object)
      BY <1>8 DEF PatchLabels
    <2> HIDE DEF object
    <2> QED
      BY <1>1, <2>1, <2>3, <2>4
  <1>9. ASSUME NEW received \in BOOLEAN, PatchStatus(received) PROVE UnwrittenEmpty'
    <2>1. \A labels, status : published(labels, status).written
      BY DEF published
    <2> QED
      BY <1>1, <1>3, <1>9, <2>1 DEF PatchStatus
  <1>10. CASE \/ \E s \in Secrets : secretExists(s)
              \/ collectUsages \/ Forget \/ Get \/ Rejected \/ CallFails \/ Restart
              \/ UNCHANGED vars
    BY <1>2, <1>10 DEF secretExists, collectUsages, Forget, Get, Rejected, CallFails, Restart
  <1> QED
    BY <1>4, <1>5, <1>6, <1>7, <1>8, <1>9, <1>10, InOrderCases DEF WorkerStep

\* A key at rest whose object is gone is not described.
LEMMA GoneIsNotDescribed ==
  ASSUME TypeOK', PresenceInvariant', NEW s \in Secrets, Settled(s)', Flat(s)',
         usages'[s] = Absent
  PROVE  ~described(s)'
  <1> DEFINE Stored == Objects \cup {Absent}
  <1>1. usageWatch'[s] \in Seq(Stored) /\ EndsAt(usages'[s], usageCache'[s], usageWatch'[s])
    BY DEF TypeOK, PresenceInvariant, WatchEnds
  <1> HIDE DEF Stored
  <1>2. usageCache'[s] = Absent
    BY <1>1, FlatAgrees DEF Flat
  <1> QED
    BY <1>2 DEF PresenceInvariant, PresenceAtRest

\* A key that stays at rest stays exact, unless its object is removed, and then it
\* has nothing to describe.
LEMMA StillExact ==
  ASSUME TypeOK', PresenceInvariant', ExactAtRest, NEW s \in Secrets,
         Settled(s), Settled(s)', Flat(s), Flat(s)', fresh[s],
         usages'[s] \in {usages[s], Absent},
         described(s)' = described(s), wantedUsage(s)' = wantedUsage(s)
  PROVE  exact(s)'
  <1>1. CASE usages'[s] = Absent
    BY <1>1, GoneIsNotDescribed DEF exact
  <1>2. CASE usages'[s] = usages[s]
    BY <1>2 DEF ExactAtRest, exact
  <1> QED
    BY <1>1, <1>2

\* What a reconcile that returns has to leave behind if nothing brings its key back.
leavesExact(key) ==
  fresh'[key] /\ described(key) /\ usages'[key] # Absent => usages'[key] = wantedUsage(key)

\* Steps of the worker: the reconcile goes on with the object as it is, or ends with
\* its key pending or its object exact.
LEMMA WorkerExact ==
  ASSUME WorkerOK, TypeOK', PresenceInvariant', ExactAtRest, worker.pc # "idle",
         NEW key \in Secrets, worker.key = key,
         UNCHANGED <<secretCache, specCache, notify, dirty>>,
         backoff' \in {backoff, backoff \cup {key}},
         \A s \in Secrets : Flat(s)' => Flat(s),
         \A s \in Secrets : s # key => usages'[s] = usages[s] /\ fresh'[s] = fresh[s],
         \/ worker'.key = key /\ ExactInReconcile'
         \/ /\ worker' = Idle
            /\ \/ Pending(key) \/ key \in backoff'
               \/ leavesExact(key)
  PROVE  ExactAtRest' /\ ExactInReconcile'
  <1>1. \A s \in Secrets : Pending(s) => Pending(s)'
    BY DEF Pending
  <1>2. \A s \in Secrets : described(s)' = described(s) /\ wantedUsage(s)' = wantedUsage(s)
    BY DEF described, wantedUsage, cachedUsages
  <1>3. ExactInReconcile'
    BY DEF ExactInReconcile, Idle
  <1>4. ExactAtRest'
    <2> SUFFICES ASSUME NEW s \in Secrets, Settled(s)', Flat(s)', fresh'[s]
                 PROVE  exact(s)'
      BY DEF ExactAtRest
    <2>1. CASE s # key
      <3>1. Settled(s)
        BY <1>1, <2>1 DEF Settled
      <3> QED
        BY <1>2, <2>1, <3>1, StillExact
    <2>2. CASE s = key
      <3>1. worker'.key # s /\ ~Pending(s) /\ s \notin backoff'
        BY <1>1, <2>2 DEF Settled, Pending
      <3>2. described(s) /\ usages'[s] # Absent => usages'[s] = wantedUsage(s)
        BY <2>2, <3>1 DEF leavesExact
      <3>3. usages'[s] = Absent => ~described(s)'
        BY GoneIsNotDescribed
      <3> QED
        BY <1>2, <3>2, <3>3 DEF exact
    <2> QED
      BY <2>1, <2>2
  <1> QED
    BY <1>3, <1>4

\* Steps outside the worker: objects are at most removed, and what is read about a key
\* does not change unless the key is pending.
LEMMA OutsideExact ==
  ASSUME TypeOK, WorkerOK, TypeOK', PresenceInvariant', ExactAtRest, ExactInReconcile,
         OutsideFrame, \A s \in Secrets : Pending(s)' \/ Calm(s),
         \A s \in Secrets : usages'[s] \in {usages[s], Absent}
  PROVE  ExactAtRest' /\ ExactInReconcile'
  <1>1. ExactAtRest'
    <2> SUFFICES ASSUME NEW s \in Secrets, Settled(s)', Flat(s)', fresh'[s]
                 PROVE  exact(s)'
      BY DEF ExactAtRest
    <2>1. ~Pending(s) /\ Calm(s) /\ SameReads(s) /\ worker.key # s /\ fresh[s]
      BY DEF OutsideFrame, Settled
    <2>2. Settled(s) /\ Flat(s)
      BY <2>1 DEF Settled, Calm
    <2>3. NumKinds \in 0..NumKinds
      BY SecretUsageControllerAssumption
    <2>4. described(s)' = described(s) /\ wantedUsage(s)' = wantedUsage(s)
      BY <2>1, <2>3 DEF SameReads, described, wantedUsage
    <2> QED
      BY <2>1, <2>2, <2>4, StillExact
  <1>2. ExactInReconcile'
    <2>1. worker' = worker /\ fresh' = fresh
      BY DEF OutsideFrame
    <2>2. worker.pc \in {"labels", "status"} => worker.key \in Secrets
      BY DEF WorkerOK
    <2> QED
      BY <2>1, <2>2 DEF ExactInReconcile, DesiredLabels, Key
  <1> QED
    BY <1>1, <1>2

\* Every step in order keeps the invariant.
LEMMA NextExact ==
  ASSUME Sound, Sound', ExactInvariant, [NextInOrder]_vars
  PROVE  ExactInvariant'
  <1> USE DEF vars, liveVars, watchVars, cacheVars, queueVars
  <1>0. /\ TypeOK /\ WorkerOK /\ GaugeCore /\ PresenceInvariant /\ WatchEnds
        /\ TypeOK' /\ PresenceInvariant'
        /\ UnwrittenEmpty /\ ExactAtRest /\ ExactInReconcile
    BY DEF Sound, ExactInvariant, PresenceInvariant
  <1> SUFFICES ExactAtRest' /\ ExactInReconcile'
    BY <1>0, NextUnwrittenEmpty DEF ExactInvariant
  <1>1. ASSUME worker.pc # "idle"
        PROVE  worker.key \in Secrets /\ worker \in WorkerStates
    BY <1>0, <1>1 DEF WorkerOK, TypeOK
  <1>2. CASE OutsideInOrder
    <2>1. /\ OutsideFrame
          /\ \A s \in Secrets : Pending(s)' \/ Calm(s)
      BY <1>0, <1>2, InOrderIsOutside, OutsideFrames, OutsideCalm
    <2>2. \A s \in Secrets : usages'[s] \in {usages[s], Absent}
      BY <1>0, <1>2 DEF OutsideInOrder, UserDeletesUsage, ObserveUsage, Store, TypeOK
    <2> QED
      BY <1>0, <2>1, <2>2, OutsideExact
  <1>3. ASSUME NEW s \in Secrets, secretExists(s) PROVE ExactAtRest' /\ ExactInReconcile'
    <2>1. /\ worker = Idle
          /\ worker' = [Idle EXCEPT !.pc = "list", !.key = s, !.exists = secretCache[s]]
          /\ UNCHANGED <<secretCache, specCache, usageCache, usages, usageWatch, notify, backoff, fresh>>
          /\ dirty' = dirty \ {s}
      BY <1>3 DEF secretExists
    <2>2. worker'.pc = "list" /\ worker'.key = s
      BY <2>1 DEF Idle
    <2>3. ExactInReconcile'
      BY <2>2 DEF ExactInReconcile
    <2>4. ExactAtRest'
      <3> SUFFICES ASSUME NEW k \in Secrets, Settled(k)', Flat(k)', fresh[k]
                   PROVE  exact(k)'
        BY <2>1 DEF ExactAtRest
      <3>1. Settled(k)
        BY <2>1, <2>2, SecretUsageControllerAssumption DEF Settled, Pending, Idle
      <3>2. Flat(k)
        BY <2>1 DEF Flat
      <3>3. exact(k)
        BY <1>0, <3>1, <3>2 DEF ExactAtRest
      <3> QED
        BY <2>1, <3>3 DEF exact, described, wantedUsage, cachedUsages
    <2> QED
      BY <2>3, <2>4
  <1>4. ASSUME worker.pc \notin {"idle", "list"}, NEW key \in Secrets, key = worker.key, ~Pending(key)
        PROVE  /\ described(key) = Tracked
               /\ wantedUsage(key) = published(DesiredLabels, DesiredStatus)
    BY <1>0, <1>4, DecidedDescribed DEF GaugeCore, Key
  <1>5. ASSUME NEW key \in Secrets, key = worker.key, worker.pc # "idle",
               UNCHANGED <<secretCache, specCache, notify, dirty>>,
               backoff' \in {backoff, backoff \cup {key}},
               UNCHANGED <<usages, usageWatch, usageCache>>,
               \A s \in Secrets : s # key => fresh'[s] = fresh[s],
               \/ worker'.key = key /\ ExactInReconcile'
               \/ /\ worker' = Idle
                  /\ \/ Pending(key) \/ key \in backoff'
                     \/ leavesExact(key)
        PROVE  ExactAtRest' /\ ExactInReconcile'
    <2>1. \A s \in Secrets : Flat(s)' => Flat(s)
      BY <1>5 DEF Flat
    <2> QED
      BY <1>0, <1>5, <2>1, WorkerExact
  <1>6. ASSUME NEW key \in Secrets, key = worker.key, worker.pc # "idle",
               UNCHANGED <<secretCache, specCache, notify, dirty, usageCache, fresh>>,
               backoff' \in {backoff, backoff \cup {key}},
               NEW object, Store(key, object),
               \/ worker'.key = key /\ ExactInReconcile'
               \/ /\ worker' = Idle
                  /\ \/ Pending(key) \/ key \in backoff'
                     \/ fresh[key] /\ described(key) /\ object # Absent => object = wantedUsage(key)
        PROVE  ExactAtRest' /\ ExactInReconcile'
    <2>1. /\ usages'[key] = object
          /\ \A s \in Secrets : s # key => usages'[s] = usages[s]
      BY <1>0, <1>6 DEF Store, TypeOK
    <2>2. object \in Objects \cup {Absent}
      BY <1>0, <2>1 DEF TypeOK
    <2>3. \A s \in Secrets : Flat(s)' => Flat(s)
      BY <1>0, <1>6, <2>2, StoredWatch
    <2> QED
      BY <1>0, <1>6, <2>1, <2>3, WorkerExact DEF leavesExact
  <1>7. CASE collectUsages
    <2>1. PICK key \in Secrets : key = worker.key
      BY <1>1, <1>7 DEF collectUsages
    <2>2. worker'.key = key /\ worker'.pc \in {"list", "decide"}
      BY <1>1, <1>7, <2>1 DEF collectUsages, WorkerStates
    <2>3. ExactInReconcile'
      BY <2>2 DEF ExactInReconcile
    <2> QED
      BY <1>5, <1>7, <2>1, <2>2, <2>3 DEF collectUsages
  <1>8. CASE Forget
    <2>1. PICK key \in Secrets : key = worker.key
      BY <1>1, <1>8 DEF Forget
    <2>2. /\ worker.pc = "decide" /\ ~Tracked
          /\ UNCHANGED <<secretCache, specCache, usageCache, usages, usageWatch, notify, dirty, fresh>>
      BY <1>8 DEF Forget
    <2>3. CASE usageCache[key] = Absent
      <3>1. worker' = Idle /\ UNCHANGED backoff
        BY <1>8, <2>1, <2>3 DEF Forget, Done, Key
      <3>2. Pending(key) \/ leavesExact(key)
        BY <1>4, <2>1, <2>2 DEF leavesExact
      <3> QED
        BY <1>5, <2>1, <2>2, <3>1, <3>2
    <2>4. CASE usageCache[key] # Absent
      <3>1. worker'.pc = "delete" /\ worker'.key = key /\ UNCHANGED backoff
        BY <1>1, <1>8, <2>1, <2>4 DEF Forget, Key, WorkerStates
      <3>2. ExactInReconcile'
        BY <3>1 DEF ExactInReconcile
      <3> QED
        BY <1>5, <2>1, <2>2, <3>1, <3>2
    <2> QED
      BY <2>3, <2>4
  <1>9. CASE Get
    <2>1. PICK key \in Secrets : key = worker.key
      BY <1>1, <1>9 DEF Get
    <2> DEFINE current == usageCache[key]
    <2>2. /\ worker.pc = "decide" /\ Tracked /\ worker \in WorkerStates
          /\ UNCHANGED <<secretCache, specCache, usageCache, usages, usageWatch, notify, dirty, backoff>>
          /\ fresh' = [fresh EXCEPT ![key] = usageWatch[key] = <<>>]
      BY <1>1, <1>9, <2>1 DEF Get, Key
    <2>3. /\ \A s \in Secrets : s # key => fresh'[s] = fresh[s]
          /\ fresh'[key] => usages[key] = current
      BY <1>0, <2>2 DEF TypeOK, WatchEnds, EndsAt
    <2>4. \/ worker'.pc = "create" /\ worker'.key = key
          \/ /\ current # Absent
             /\ worker' = [worker EXCEPT !.pc = "labels", !.current = current]
          \/ /\ current # Absent /\ labelsDeepEqual(current.labels, DesiredLabels)
             /\ worker' = [worker EXCEPT !.pc = "status", !.current = current]
          \/ /\ current # Absent /\ labelsDeepEqual(current.labels, DesiredLabels)
             /\ statusDeepEqual(current.status, DesiredStatus)
             /\ worker' = Idle
      BY <1>9, <2>1, <2>2 DEF Get, PatchStatusNext, Key, WorkerStates
    <2> HIDE DEF current
    <2>5. CASE worker'.pc = "create" /\ worker'.key = key
      <3>1. ExactInReconcile'
        BY <2>5 DEF ExactInReconcile
      <3> QED
        BY <1>5, <2>1, <2>2, <2>3, <2>5, <3>1
    <2>6. CASE worker' = [worker EXCEPT !.pc = "labels", !.current = current]
      <3>1. worker'.pc = "labels" /\ worker'.key = key /\ worker'.current = current
        BY <2>1, <2>2, <2>6 DEF WorkerStates
      <3>2. ExactInReconcile'
        BY <2>2, <2>3, <3>1 DEF ExactInReconcile, Key
      <3> QED
        BY <1>5, <2>1, <2>2, <2>3, <3>1, <3>2
    <2>7. CASE /\ labelsDeepEqual(current.labels, DesiredLabels)
               /\ worker' = [worker EXCEPT !.pc = "status", !.current = current]
      <3>1. /\ worker'.pc = "status" /\ worker'.key = key /\ worker'.current = current
            /\ worker'.exists = worker.exists /\ worker'.found = worker.found
        BY <2>1, <2>2, <2>7 DEF WorkerStates
      <3>2. DesiredLabels' = DesiredLabels /\ current.labels = DesiredLabels
        BY <2>1, <2>7, <3>1 DEF DesiredLabels, Key, labelsDeepEqual
      <3>3. ExactInReconcile'
        BY <2>2, <2>3, <3>1, <3>2 DEF ExactInReconcile, Key
      <3> QED
        BY <1>5, <2>1, <2>2, <2>3, <3>1, <3>3
    <2>8. CASE /\ current # Absent /\ labelsDeepEqual(current.labels, DesiredLabels)
               /\ statusDeepEqual(current.status, DesiredStatus)
               /\ worker' = Idle
      <3>1. ASSUME ~Pending(key) PROVE leavesExact(key)
        <4> SUFFICES ASSUME fresh'[key] PROVE usages[key] = wantedUsage(key)
          BY <2>2 DEF leavesExact
        <4>1. /\ usages[key] = current /\ current \in Objects
              /\ ~current.written => current.status = NoStatus
          <5>1. usages[key] = current /\ usages[key] # Absent
            BY <2>3, <2>8
          <5>2. usages[key] \in Objects
            BY <1>0, <5>1 DEF TypeOK
          <5>3. ~usages[key].written => usages[key].status = NoStatus
            BY <1>0, <5>1 DEF UnwrittenEmpty
          <5> QED
            BY <5>1, <5>2, <5>3
        <4>2. current = published(DesiredLabels, DesiredStatus)
          BY <2>8, <4>1, EqualIsWanted DEF labelsDeepEqual
        <4>3. wantedUsage(key) = published(DesiredLabels, DesiredStatus)
          BY <1>4, <2>1, <2>2, <3>1
        <4> QED
          BY <4>1, <4>2, <4>3
      <3> QED
        BY <1>5, <2>1, <2>2, <2>3, <2>8, <3>1
    <2> QED
      BY <2>4, <2>5, <2>6, <2>7, <2>8
  <1>10. CASE Rejected \/ CallFails
    <2>1. worker.pc # "idle"
      BY <1>0, <1>10 DEF Rejected, CallFails, WorkerOK
    <2>2. PICK key \in Secrets : key = worker.key
      BY <1>1, <2>1
    <2>3. /\ worker' = Idle /\ backoff' = backoff \cup {key} /\ key \in backoff'
          /\ UNCHANGED <<secretCache, specCache, usageCache, usages, usageWatch, notify, dirty, fresh>>
      BY <1>10, <2>2 DEF Rejected, CallFails, Fail, Key
    <2> QED
      BY <1>5, <2>1, <2>2, <2>3
  <1>11. ASSUME NEW received \in BOOLEAN, Delete(received)
         PROVE  ExactAtRest' /\ ExactInReconcile'
    <2>1. PICK key \in Secrets : key = worker.key
      BY <1>1, <1>11 DEF Delete
    <2>2. /\ worker.pc = "delete" /\ Store(key, Absent)
          /\ UNCHANGED <<secretCache, specCache, usageCache, notify, dirty, fresh>>
          /\ worker' = Idle
          /\ UNCHANGED backoff \/ backoff' = backoff \cup {key}
      BY <1>11, <2>1 DEF Delete, Done, Fail, Key
    <2> QED
      BY <1>6, <2>1, <2>2
  <1>12. ASSUME NEW received \in BOOLEAN, Create(received)
         PROVE  ExactAtRest' /\ ExactInReconcile'
    <2> DEFINE object == created(DesiredLabels)
    <2>1. PICK key \in Secrets : key = worker.key
      BY <1>1, <1>12 DEF Create
    <2>2. /\ worker.pc = "create" /\ Store(key, object)
          /\ UNCHANGED <<secretCache, specCache, usageCache, notify, dirty, fresh>>
          /\ \/ worker' = [worker EXCEPT !.pc = "publish"] /\ UNCHANGED backoff
             \/ worker' = Idle /\ backoff' = backoff \cup {key} /\ key \in backoff'
      BY <1>12, <2>1 DEF Create, Fail, Key
    <2> HIDE DEF object
    <2>3. CASE worker' = [worker EXCEPT !.pc = "publish"] /\ UNCHANGED backoff
      <3>1. worker'.pc = "publish" /\ worker'.key = key
        BY <1>1, <2>1, <2>2, <2>3 DEF WorkerStates
      <3>2. ExactInReconcile'
        BY <3>1 DEF ExactInReconcile
      <3> QED
        BY <1>6, <2>1, <2>2, <2>3, <3>1, <3>2
    <2>4. CASE worker' = Idle /\ backoff' = backoff \cup {key} /\ key \in backoff'
      BY <1>6, <2>1, <2>2, <2>4
    <2> QED
      BY <2>2, <2>3, <2>4
  <1>13. ASSUME NEW received \in BOOLEAN, Publish(received)
         PROVE  ExactAtRest' /\ ExactInReconcile'
    <2> DEFINE object == published(usages[Key].labels, DesiredStatus)
    <2>1. PICK key \in Secrets : key = worker.key
      BY <1>1, <1>13 DEF Publish
    <2>2. /\ worker.pc = "publish" /\ Store(key, object)
          /\ UNCHANGED <<secretCache, specCache, usageCache, notify, dirty, fresh>>
          /\ worker' = Idle
          /\ UNCHANGED backoff \/ backoff' = backoff \cup {key}
          /\ usages[Key] = created(DesiredLabels)
      BY <1>13, <2>1 DEF Publish, Accepted, Done, Fail, Key
    <2>3. ~Pending(key) => object = wantedUsage(key)
      BY <1>4, <2>1, <2>2 DEF created
    <2> HIDE DEF object
    <2> QED
      BY <1>6, <2>1, <2>2, <2>3
  <1>14. ASSUME NEW received \in BOOLEAN, PatchLabels(received)
         PROVE  ExactAtRest' /\ ExactInReconcile'
    <2> DEFINE live    == usages[Key]
               patched == [live EXCEPT
                             !.labels = patchedLabels(worker.current.labels, DesiredLabels, @)]
               decoded == [patched EXCEPT
                             !.status = decodedInto(worker.current.status, @, live.written)]
    <2>1. PICK key \in Secrets : key = worker.key
      BY <1>1, <1>14 DEF PatchLabels
    <2>2. /\ worker.pc = "labels" /\ Store(key, patched) /\ live # Absent
          /\ UNCHANGED <<secretCache, specCache, usageCache, notify, dirty, fresh>>
          /\ \/ worker' = Idle /\ backoff' = backoff \cup {key} /\ key \in backoff'
             \/ PatchStatusNext(decoded) /\ UNCHANGED backoff
      BY <1>14, <2>1 DEF PatchLabels, Accepted, Fail, Key
    <2>3. /\ live \in Objects /\ DesiredLabels \in SUBSET LabelKeys
          /\ ~live.written => live.status = NoStatus
      BY <1>0, <2>1, <2>2, DesiredType DEF TypeOK, UnwrittenEmpty, Key
    <2>4. ASSUME fresh[key]
          PROVE  /\ patched \in Objects /\ decoded = patched
                 /\ patched.labels = DesiredLabels
                 /\ ~patched.written => patched.status = NoStatus
      <3>1. worker.current = live
        BY <1>0, <2>1, <2>2, <2>4 DEF ExactInReconcile, Key
      <3>2. patchedLabels(live.labels, DesiredLabels, live.labels) = DesiredLabels
        BY <2>3, PatchOfLatest DEF Objects
      <3>3. decodedInto(live.status, live.status, live.written) = live.status
        BY <2>3, PatchOfLatest DEF Objects
      <3>4. patched = [live EXCEPT !.labels = DesiredLabels]
        BY <3>1, <3>2
      <3> HIDE DEF patched
      <3>5. /\ patched \in Objects /\ patched.status = live.status
            /\ patched.labels = DesiredLabels /\ patched.written = live.written
        BY <2>3, <3>4 DEF Objects
      <3>6. decoded = patched
        BY <3>1, <3>3, <3>5 DEF Objects
      <3> QED
        BY <2>3, <3>5, <3>6
    <2> HIDE DEF live, patched, decoded
    <2>5. CASE worker' = Idle /\ backoff' = backoff \cup {key} /\ key \in backoff'
      BY <1>6, <2>1, <2>2, <2>5
    <2>6. CASE PatchStatusNext(decoded) /\ UNCHANGED backoff
      <3>1. CASE statusDeepEqual(decoded.status, DesiredStatus)
        <4>1. worker' = Idle
          BY <2>6, <3>1 DEF PatchStatusNext
        <4>2. fresh[key] /\ ~Pending(key) => patched = wantedUsage(key)
          BY <1>4, <2>1, <2>2, <2>4, <3>1, EqualIsWanted
        <4> QED
          BY <1>6, <2>1, <2>2, <2>6, <4>1, <4>2
      <3>2. CASE ~statusDeepEqual(decoded.status, DesiredStatus)
        <4>1. worker' = [worker EXCEPT !.pc = "status", !.current = decoded]
          BY <2>6, <3>2 DEF PatchStatusNext
        <4>2. /\ worker'.pc = "status" /\ worker'.key = key /\ worker'.current = decoded
              /\ worker'.exists = worker.exists /\ worker'.found = worker.found
          BY <1>1, <2>1, <2>2, <4>1 DEF WorkerStates
        <4>3. DesiredLabels' = DesiredLabels /\ usages'[key] = patched
          BY <1>0, <2>1, <2>2, <4>2 DEF DesiredLabels, Key, Store, TypeOK
        <4>4. ExactInReconcile'
          BY <2>2, <2>4, <4>2, <4>3 DEF ExactInReconcile, Key
        <4> QED
          BY <1>6, <2>1, <2>2, <2>6, <4>2, <4>4
      <3> QED
        BY <3>1, <3>2
    <2> QED
      BY <2>2, <2>5, <2>6
  <1>15. ASSUME NEW received \in BOOLEAN, PatchStatus(received)
         PROVE  ExactAtRest' /\ ExactInReconcile'
    <2> DEFINE object == published(usages[Key].labels,
                 patchedStatus(worker.current.status, DesiredStatus, usages[Key].status))
    <2>1. PICK key \in Secrets : key = worker.key
      BY <1>1, <1>15 DEF PatchStatus
    <2>2. /\ worker.pc = "status" /\ Store(key, object) /\ usages[key] # Absent
          /\ UNCHANGED <<secretCache, specCache, usageCache, notify, dirty, fresh>>
          /\ worker' = Idle
          /\ UNCHANGED backoff \/ backoff' = backoff \cup {key}
      BY <1>15, <2>1 DEF PatchStatus, Accepted, Done, Fail, Key
    <2>3. ASSUME fresh[key], ~Pending(key) PROVE object = wantedUsage(key)
      <3>1. /\ worker.current = usages[key] /\ usages[key].labels = DesiredLabels
            /\ usages[key] \in Objects
        BY <1>0, <2>1, <2>2, <2>3 DEF ExactInReconcile, TypeOK, Key
      <3>2. patchedStatus(usages[key].status, DesiredStatus, usages[key].status) = DesiredStatus
        BY <1>0, <3>1, DesiredType, PatchOfLatest DEF Objects
      <3>3. wantedUsage(key) = published(DesiredLabels, DesiredStatus)
        BY <1>4, <2>1, <2>2, <2>3
      <3> QED
        BY <2>1, <3>1, <3>2, <3>3 DEF Key
    <2> HIDE DEF object
    <2> QED
      BY <1>6, <2>1, <2>2, <2>3
  <1>16. CASE Restart
    <2>1. worker' = Idle /\ fresh' = [s \in Secrets |-> FALSE]
      BY <1>16 DEF Restart
    <2> QED
      BY <2>1 DEF ExactAtRest, ExactInReconcile, Idle
  <1>17. CASE UNCHANGED vars
    BY <1>0, <1>17 DEF ExactAtRest, ExactInReconcile, exact, wantedUsage, described, cachedUsages,
                       Settled, Pending, Flat, DesiredLabels, Key
  <1> QED
    BY <1>2, <1>3, <1>7, <1>8, <1>9, <1>10, <1>11, <1>12, <1>13, <1>14, <1>15, <1>16, <1>17,
       InOrderCases DEF WorkerStep

\* The invariant holds initially, where no object has been read.
LEMMA InitExact == Init => ExactInvariant
  BY DEF Init, ExactInvariant, UnwrittenEmpty, ExactAtRest, ExactInReconcile, Idle

\* The inductive invariant: a reconcile that read the latest object still has it, and
\* leaves an exact one unless it fails.
THEOREM ExactInvariantHolds == SpecInOrder => []ExactInvariant
  <1>1. Init => Sound /\ ExactInvariant
    BY InitSound, InitExact
  <1>2. Sound /\ [NextInOrder]_vars => Sound'
    BY NextSound
  <1>3. Sound /\ Sound' /\ ExactInvariant /\ [NextInOrder]_vars => ExactInvariant'
    BY NextExact
  <1> QED
    BY <1>1, <1>2, <1>3, PTL DEF SpecInOrder

\* When the last reconcile of a quiet key read the latest object, the stored object
\* says what the caches say, whatever failed, was retried or removed on the way.
THEOREM FreshReadsAreExact == SpecInOrder => []FreshReadSettles
  <1>1. PresenceInvariant /\ ExactInvariant => FreshReadSettles
    BY QuietPresence DEF FreshReadSettles, ExactInvariant, ExactAtRest
  <1> QED
    BY <1>1, PresenceInvariantHolds, ExactInvariantHolds, PTL

-----------------------------------------------------------------------------
(* Counts.                                                                 *)

\* A finite set of ranks has a last one.
LEMMA LastRank ==
  ASSUME NEW found \in SUBSET Nat, IsFiniteSet(found), found # {}
  PROVE  \E m \in found : \A c \in found : c <= m
  <1> DEFINE Last(F) == \E m \in F : \A c \in F : c <= m
             Bad     == {F \in SUBSET found : F # {} /\ ~Last(F)}
  <1>1. SUFFICES ASSUME Bad # {} PROVE FALSE
    OBVIOUS
  <1>2. IsWellFoundedOn(StrictSubsetOrdering(found), SUBSET found)
    BY FS_StrictSubsetOrderingWellFounded, FS_FiniteSubsetsOfFinite
  <1>3. PICK F \in Bad : \A G \in Bad : <<G, F>> \notin StrictSubsetOrdering(found)
    <2>1. Bad \subseteq SUBSET found
      OBVIOUS
    <2> HIDE DEF Bad
    <2> QED
      BY <1>1, <1>2, <2>1, WFMin
  <1>4. PICK c \in F : TRUE
    OBVIOUS
  <1>5. F \ {c} \notin Bad
    BY <1>3, <1>4 DEF StrictSubsetOrdering
  <1>6. CASE F = {c}
    BY <1>4, <1>6
  <1>7. CASE F # {c}
    <2>1. PICK m \in F \ {c} : \A d \in F \ {c} : d <= m
      BY <1>4, <1>5, <1>7
    <2>2. c \in Nat /\ m \in Nat
      BY <1>4, <2>1
    <2>3. CASE c <= m
      BY <1>4, <2>1, <2>3
    <2>4. CASE m < c
      <3>1. \A d \in F : d <= c
        BY <1>4, <2>1, <2>2, <2>4
      <3> QED
        BY <1>4, <3>1
    <2> QED
      BY <2>2, <2>3, <2>4
  <1> QED
    BY <1>6, <1>7

LEMMA LimitIsPositive == maxUsages \in Nat \ {0}
  BY UsageObjectAssumption DEF maxUsages, DefaultMaxUsages

\* A list within the limit is recorded as a whole.
LEMMA ShortListKept ==
  ASSUME NEW found \in SUBSET Nat, IsFiniteSet(found), Cardinality(found) <= maxUsages
  PROVE  truncateUsages(found) = found
  <1> SUFFICES ASSUME NEW c \in found
               PROVE  Cardinality({d \in found : d <= c}) <= maxUsages
    BY DEF truncateUsages
  <1>1. {d \in found : d <= c} \in SUBSET found
    OBVIOUS
  <1>2. /\ Cardinality({d \in found : d <= c}) <= Cardinality(found)
        /\ Cardinality({d \in found : d <= c}) \in Nat /\ Cardinality(found) \in Nat
    BY <1>1, FS_Subset, FS_CardinalityType
  <1> QED
    BY <1>2, LimitIsPositive

\* Of a longer list, the last reference is not recorded, and the others as if it were
\* not there.
LEMMA LongListCut ==
  ASSUME NEW found \in SUBSET Nat, IsFiniteSet(found), Cardinality(found) > maxUsages,
         NEW m \in found, \A c \in found : c <= m
  PROVE  truncateUsages(found) = truncateUsages(found \ {m})
  <1>1. {d \in found : d <= m} = found
    OBVIOUS
  <1>2. Cardinality(found) \in Nat
    BY FS_CardinalityType
  <1>3. m \notin truncateUsages(found)
    BY <1>1, <1>2, LimitIsPositive DEF truncateUsages
  <1>4. ASSUME NEW c \in found \ {m}
        PROVE  {d \in found : d <= c} = {d \in found \ {m} : d <= c}
    <2>1. c \in Nat /\ m \in Nat /\ c <= m /\ c # m
      OBVIOUS
    <2>2. ~(m <= c)
      BY <2>1
    <2> QED
      BY <2>2
  <1> QED
    BY <1>3, <1>4 DEF truncateUsages

\* As many references are recorded as there are, or else as many as the limit allows.
LEMMA RecordedLength ==
  ASSUME NEW found \in SUBSET Nat, IsFiniteSet(found)
  PROVE  Cardinality(truncateUsages(found))
           = IF Cardinality(found) <= maxUsages THEN Cardinality(found) ELSE maxUsages
  <1> DEFINE Cut(F) == Cardinality(truncateUsages(F))
                         = IF Cardinality(F) <= maxUsages THEN Cardinality(F) ELSE maxUsages
             Bad    == {F \in SUBSET found : ~Cut(F)}
  <1>1. SUFFICES ASSUME Bad # {} PROVE FALSE
    OBVIOUS
  <1>2. IsWellFoundedOn(StrictSubsetOrdering(found), SUBSET found)
    BY FS_StrictSubsetOrderingWellFounded, FS_FiniteSubsetsOfFinite
  <1>3. PICK F \in Bad : \A G \in Bad : <<G, F>> \notin StrictSubsetOrdering(found)
    <2>1. Bad \subseteq SUBSET found
      OBVIOUS
    <2> HIDE DEF Bad
    <2> QED
      BY <1>1, <1>2, <2>1, WFMin
  <1>4. F \in SUBSET Nat /\ IsFiniteSet(F) /\ Cardinality(F) \in Nat
    BY FS_Subset, FS_CardinalityType
  <1>5. CASE Cardinality(F) <= maxUsages
    BY <1>4, <1>5, ShortListKept
  <1>6. CASE Cardinality(F) > maxUsages
    <2>1. F # {}
      BY <1>6, FS_EmptySet, LimitIsPositive
    <2>2. PICK m \in F : \A c \in F : c <= m
      BY <1>4, <2>1, LastRank
    <2> DEFINE rest == F \ {m}
    <2>3. Cardinality(rest) = Cardinality(F) - 1
      BY <1>4, FS_RemoveElement
    <2>4. truncateUsages(F) = truncateUsages(rest)
      BY <1>4, <1>6, <2>2, LongListCut
    <2>5. rest \in SUBSET found /\ <<rest, F>> \in StrictSubsetOrdering(found)
      BY <2>2 DEF StrictSubsetOrdering
    <2>6. Cut(rest)
      BY <1>3, <2>5
    <2> HIDE DEF rest
    <2>7. Cut(F)
      BY <1>4, <1>6, <2>3, <2>4, <2>6, LimitIsPositive
    <2> QED
      BY <2>7
  <1> QED
    BY <1>4, <1>5, <1>6, LimitIsPositive

\* What a reconcile wants to publish is truthful, for any number of references.
LEMMA DesiredIsTruthful ==
  ASSUME NEW exists, NEW found \in SUBSET Consumers
  PROVE  LET status == desiredStatus(exists, found)
         IN  /\ truthful(status)
             /\ status.truncated => /\ status.usages # {}
                                    /\ Cardinality(status.usages) = maxUsages
  <1> DEFINE status == desiredStatus(exists, found)
  <1>1. found \in SUBSET Nat /\ IsFiniteSet(found) /\ Cardinality(found) \in Nat
    BY UsageObjectAssumption, FS_Subset, FS_CardinalityType
  <1>2. /\ status.usageCount = Cardinality(found)
        /\ status.truncated <=> Cardinality(found) > maxUsages
        /\ status.usages = truncateUsages(found)
    BY DEF desiredStatus
  <1>3. Cardinality(status.usages)
          = IF Cardinality(found) <= maxUsages THEN Cardinality(found) ELSE maxUsages
    BY <1>1, <1>2, RecordedLength
  <1> HIDE DEF status
  <1>4. Cardinality(found) > maxUsages <=> ~(Cardinality(found) <= maxUsages)
    BY <1>1, LimitIsPositive
  <1>5. CASE status.truncated
    <2>1. Cardinality(status.usages) = maxUsages /\ status.usageCount > maxUsages
      BY <1>2, <1>3, <1>4, <1>5
    <2>2. status.usageCount > Cardinality(status.usages)
      BY <2>1
    <2>3. status.usages # {}
      BY <2>1, FS_EmptySet, LimitIsPositive
    <2> QED
      BY <1>5, <2>1, <2>2, <2>3 DEF truthful, status
  <1>6. CASE ~status.truncated
    <2>1. status.usageCount = Cardinality(status.usages)
      BY <1>2, <1>3, <1>4, <1>6
    <2> QED
      BY <1>6, <2>1 DEF truthful, status
  <1> QED
    BY <1>5, <1>6

\* However many references there are: when the last reconcile of a quiet key read the
\* latest object, the count is the true total and the list as long as it may be, and
\* never cut to nothing.
THEOREM FreshReadsAreTruthful == SpecInOrder => []FreshReadCounts
  <1>1. PresenceInvariant /\ FreshReadSettles => FreshReadCounts
    <2> SUFFICES ASSUME PresenceInvariant, FreshReadSettles,
                        NEW s \in Secrets, Quiet(s), fresh[s], usages[s] # Absent
                 PROVE  /\ truthful(usages[s].status)
                        /\ usages[s].status.truncated
                             => /\ usages[s].status.usages # {}
                                /\ Cardinality(usages[s].status.usages) = maxUsages
      BY DEF FreshReadCounts
    <2>1. usages[s] = wantedUsage(s)
      BY QuietPresence DEF FreshReadSettles, exact
    <2>2. usages[s].status = desiredStatus(secretCache[s], cachedUsages(s, NumKinds))
      BY <2>1 DEF wantedUsage, published
    <2>3. cachedUsages(s, NumKinds) \in SUBSET Consumers
      BY DEF cachedUsages
    <2> QED
      BY <2>2, <2>3, DesiredIsTruthful
  <1> QED
    BY <1>1, PresenceInvariantHolds, FreshReadsAreExact, PTL
=============================================================================
