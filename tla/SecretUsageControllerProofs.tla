--------------------- MODULE SecretUsageControllerProofs ---------------------
(***************************************************************************)
(* Proofs about SecretUsageController, for any number of Secrets, any      *)
(* finite set of consumers, any flags, and without a bound on changes,     *)
(* faults, relists or restarts.                                            *)
(***************************************************************************)
EXTENDS SecretUsageController, FiniteSetTheorems, SequenceTheorems, TLAPS

-----------------------------------------------------------------------------
(* The operators the actions are built from.                               *)

\* The limit in force is positive: --max-usages 0 selects the default.
LEMMA MaxUsagesPositive == maxUsages \in Nat \ {0}
  BY UsageObjectAssumption DEF maxUsages, DefaultMaxUsages

\* Any set of references has a size.
LEMMA FoundIsFinite ==
  ASSUME NEW found \in SUBSET Consumers
  PROVE  IsFiniteSet(found) /\ Cardinality(found) \in Nat
  BY UsageObjectAssumption, FS_Subset, FS_CardinalityType

\* What a reconcile publishes is a status.
LEMMA DesiredStatusType ==
  ASSUME NEW exists \in BOOLEAN, NEW found \in SUBSET Consumers
  PROVE  desiredStatus(exists, found) \in Statuses
  <1>1. Cardinality(found) \in Nat
    BY FoundIsFinite
  <1>2. truncateUsages(found) \in SUBSET Consumers
    BY DEF truncateUsages
  <1>3. (Cardinality(found) > maxUsages) \in BOOLEAN
    OBVIOUS
  <1> QED
    BY <1>1, <1>2, <1>3 DEF desiredStatus, Statuses

\* The labels a reconcile wants are labels of the controller.
LEMMA DesiredLabelsType ==
  ASSUME NEW s, NEW exists, NEW found
  PROVE  desiredLabelsFor(s, exists, found) \in SUBSET LabelKeys
  BY DEF desiredLabelsFor

\* A status patch turns a status into a status.
LEMMA PatchedStatusType ==
  ASSUME NEW base \in Statuses, NEW desired \in Statuses, NEW live \in Statuses
  PROVE  patchedStatus(base, desired, live) \in Statuses
  BY DEF patchedStatus, patchedField, Statuses

\* A label patch turns labels into labels.
LEMMA PatchedLabelsType ==
  ASSUME NEW base \in SUBSET LabelKeys, NEW desired \in SUBSET LabelKeys,
         NEW live \in SUBSET LabelKeys
  PROVE  patchedLabels(base, desired, live) \in SUBSET LabelKeys
  BY DEF patchedLabels

\* A reply decoded into a status gives a status.
LEMMA DecodedStatusType ==
  ASSUME NEW base \in Statuses, NEW live \in Statuses, NEW liveWritten
  PROVE  decodedInto(base, live, liveWritten) \in Statuses
  BY DEF decodedInto, Statuses

\* The gauges of a reconcile are numbers and flags.
LEMMA SeriesType ==
  ASSUME NEW exists \in BOOLEAN, NEW found \in SUBSET Consumers
  PROVE  seriesFor(exists, found) \in Series
  <1>1. Cardinality(found) \in Nat
    BY FoundIsFinite
  <1> QED
    BY <1>1 DEF seriesFor, Series

\* An event adds handler calls and removes none.
LEMMA NotifyAdds ==
  ASSUME notify \in [Secrets -> Nat], NEW old, NEW new, Notify(old, new)
  PROVE  /\ notify' \in [Secrets -> Nat]
         /\ \A s \in Secrets : notify'[s] >= notify[s]
         /\ \A s \in Secrets : s \in old \cup new => notify'[s] > 0
         /\ \A s \in Secrets : s \notin old \cup new => notify'[s] = notify[s]
  BY DEF Notify, AddCalls

\* Skipping n events leaves the rest of them.
LEMMA DropType ==
  ASSUME NEW S, NEW watch \in Seq(S), NEW n \in 1..Len(watch)
  PROVE  Drop(watch, n) \in Seq(S) /\ watch[n] \in S
  <1>1. n + 1 \in Int /\ Len(watch) \in Int
    BY LenProperties
  <1>2. \A i \in 1..Len(watch) : watch[i] \in S
    BY ElementOfSeq
  <1>3. \A i \in (n + 1)..Len(watch) : watch[i] \in S
    BY <1>1, <1>2
  <1> QED
    BY <1>1, <1>2, <1>3, SubSeqProperties DEF Drop

\* Storing an object or removing it.
LEMMA StoreType ==
  ASSUME TypeOK, NEW s \in Secrets, NEW object \in Objects \cup {Absent},
         Store(s, object)
  PROVE  /\ secrets' \in [Secrets -> BOOLEAN]
         /\ specs' \in [Consumers -> SUBSET Secrets]
         /\ usages' \in [Secrets -> Objects \cup {Absent}]
         /\ secretWatch' \in [Secrets -> Seq(BOOLEAN)]
         /\ specWatch' \in [Consumers -> Seq(SUBSET Secrets)]
         /\ usageWatch' \in [Secrets -> Seq(Objects \cup {Absent})]
  <1>1. usageWatch[s] \in Seq(Objects \cup {Absent})
    BY DEF TypeOK
  <1>2. Append(usageWatch[s], object) \in Seq(Objects \cup {Absent})
    BY <1>1, AppendProperties
  <1> QED
    BY <1>1, <1>2 DEF Store, TypeOK

\* The worker at rest.
LEMMA IdleType == Idle \in WorkerStates
  BY SecretUsageControllerAssumption DEF Idle, WorkerStates, Steps

\* What a reconcile under way wants to write has the right shape.
LEMMA DesiredType ==
  ASSUME TypeOK
  PROVE  DesiredStatus \in Statuses /\ DesiredLabels \in SUBSET LabelKeys
  <1>1. worker.exists \in BOOLEAN /\ worker.found \in SUBSET Consumers
    BY DEF TypeOK, WorkerStates
  <1> QED
    BY <1>1, DesiredStatusType, DesiredLabelsType DEF DesiredStatus, DesiredLabels

\* What a reconcile creates is an object.
LEMMA CreatedType ==
  ASSUME TypeOK
  PROVE  created(DesiredLabels) \in Objects
  BY DesiredType DEF created, Objects, NoStatus, Statuses

\* What is observed is there.
LEMMA ObservedIsThere ==
  ASSUME NEW s \in Secrets, NEW n, ObserveUsage(s, n)
  PROVE  n \in 1..Len(usageWatch[s])
  BY DEF ObserveUsage

\* A reconcile that returns leaves the worker at rest and the queue well-formed.
LEMMA ReturnType ==
  ASSUME TypeOK, WorkerOK, worker.pc # "idle", Done \/ Fail
  PROVE  /\ worker' = Idle
         /\ worker' \in WorkerStates
         /\ backoff' \in SUBSET Secrets
         /\ backoff \subseteq backoff'
  BY IdleType DEF TypeOK, WorkerOK, Done, Fail, Key

\* The initial states are well-formed.
LEMMA InitTypes == Init => TypeOK /\ WorkerOK
  <1> SUFFICES ASSUME Init PROVE TypeOK /\ WorkerOK
    OBVIOUS
  <1>1. worker = Idle /\ worker \in WorkerStates
    BY IdleType DEF Init
  <1>2. WorkerOK
    BY <1>1 DEF WorkerOK, Idle
  <1>3. TypeOK
    BY <1>1 DEF Init, TypeOK, NoEvents
  <1> QED
    BY <1>2, <1>3

\* Every step keeps the state well-formed.
LEMMA NextTypes ==
  ASSUME TypeOK, WorkerOK, [Next]_vars
  PROVE  TypeOK' /\ WorkerOK'
  <1> USE DEF vars, liveVars, watchVars, cacheVars, queueVars
  <1>1. ASSUME NEW s \in Secrets, ChangeSecret(s) PROVE TypeOK' /\ WorkerOK'
    <2>1. Append(secretWatch[s], ~secrets[s]) \in Seq(BOOLEAN)
      BY AppendProperties DEF TypeOK
    <2> QED
      BY <1>1, <2>1 DEF TypeOK, WorkerOK, ChangeSecret
  <1>2. ASSUME NEW c \in Consumers, NEW names \in SUBSET Secrets, ChangeSpec(c, names)
        PROVE  TypeOK' /\ WorkerOK'
    <2>1. Append(specWatch[c], names) \in Seq(SUBSET Secrets)
      BY AppendProperties DEF TypeOK
    <2> QED
      BY <1>2, <2>1 DEF TypeOK, WorkerOK, ChangeSpec
  <1>3. ASSUME NEW s \in Secrets, UserDeletesUsage(s) PROVE TypeOK' /\ WorkerOK'
    BY <1>3, StoreType DEF TypeOK, WorkerOK, UserDeletesUsage
  <1>4. ASSUME NEW s \in Secrets, NEW n \in 1..Len(secretWatch[s]), ObserveSecret(s, n)
        PROVE  TypeOK' /\ WorkerOK'
    <2>1. secretWatch[s] \in Seq(BOOLEAN)
      BY DEF TypeOK
    <2>2. Drop(secretWatch[s], n) \in Seq(BOOLEAN) /\ secretWatch[s][n] \in BOOLEAN
      BY <2>1, DropType
    <2>3. notify' \in [Secrets -> Nat]
      BY <1>4, NotifyAdds DEF ObserveSecret, TypeOK
    <2> QED
      BY <1>4, <2>2, <2>3 DEF TypeOK, WorkerOK, ObserveSecret
  <1>5. ASSUME NEW c \in Consumers, NEW n \in 1..Len(specWatch[c]), ObserveSpec(c, n)
        PROVE  TypeOK' /\ WorkerOK'
    <2>1. specWatch[c] \in Seq(SUBSET Secrets)
      BY DEF TypeOK
    <2>2. Drop(specWatch[c], n) \in Seq(SUBSET Secrets) /\ specWatch[c][n] \in SUBSET Secrets
      BY <2>1, DropType
    <2>3. notify' \in [Secrets -> Nat]
      BY <1>5, NotifyAdds DEF ObserveSpec, enqueueForSecretConsumer, TypeOK
    <2> QED
      BY <1>5, <2>2, <2>3 DEF TypeOK, WorkerOK, ObserveSpec
  <1>6. ASSUME NEW s \in Secrets, NEW n, ObserveUsage(s, n)
        PROVE  TypeOK' /\ WorkerOK'
    <2> DEFINE Stored == Objects \cup {Absent}
    <2>1. usageWatch[s] \in Seq(Stored) /\ n \in 1..Len(usageWatch[s])
      BY <1>6, ObservedIsThere DEF TypeOK
    <2>2. Drop(usageWatch[s], n) \in Seq(Stored) /\ usageWatch[s][n] \in Stored
      <3> HIDE DEF Stored
      <3> QED
        BY <2>1, DropType
    <2>3. notify' \in [Secrets -> Nat]
      BY <1>6, NotifyAdds DEF ObserveUsage, enqueueOwnKey, TypeOK
    <2> QED
      BY <1>6, <2>2, <2>3 DEF TypeOK, WorkerOK, ObserveUsage
  <1>7. ASSUME NEW s \in Secrets, ResyncSecret(s) PROVE TypeOK' /\ WorkerOK'
    <2>1. notify' \in [Secrets -> Nat]
      BY <1>7, NotifyAdds DEF ResyncSecret, TypeOK
    <2> QED
      BY <1>7, <2>1 DEF TypeOK, WorkerOK, ResyncSecret
  <1>8. ASSUME NEW c \in Consumers, ResyncSpec(c) PROVE TypeOK' /\ WorkerOK'
    <2>1. notify' \in [Secrets -> Nat]
      BY <1>8, NotifyAdds DEF ResyncSpec, enqueueForSecretConsumer, TypeOK
    <2> QED
      BY <1>8, <2>1 DEF TypeOK, WorkerOK, ResyncSpec
  <1>9. ASSUME NEW s \in Secrets, Enqueue(s) PROVE TypeOK' /\ WorkerOK'
    <2>1. notify' \in [Secrets -> Nat] /\ dirty' \in SUBSET Secrets
      BY <1>9 DEF Enqueue, TypeOK
    <2> QED
      BY <1>9, <2>1 DEF TypeOK, WorkerOK, Enqueue
  <1>10. ASSUME NEW s \in Secrets, RetryDue(s) PROVE TypeOK' /\ WorkerOK'
    BY <1>10 DEF TypeOK, WorkerOK, RetryDue
  <1>11. ASSUME NEW s \in Secrets, secretExists(s) PROVE TypeOK' /\ WorkerOK'
    <2>1. worker' = [Idle EXCEPT !.pc = "list", !.key = s, !.exists = secretCache[s]]
      BY <1>11 DEF secretExists
    <2>2. worker' \in WorkerStates
      <3>1. secretCache[s] \in BOOLEAN
        BY DEF TypeOK
      <3> QED
        BY <2>1, <3>1, IdleType DEF WorkerStates, Steps
    <2>3. WorkerOK'
      <3>1. worker'.pc = "list" /\ worker'.key = s /\ worker'.listed = 0
        BY <2>1 DEF Idle
      <3>2. NumKinds \in Nat /\ 0 < NumKinds
        BY SecretUsageControllerAssumption
      <3> QED
        BY <3>1, <3>2 DEF WorkerOK
    <2>4. dirty' \in SUBSET Secrets
      BY <1>11 DEF secretExists, TypeOK
    <2> QED
      BY <1>11, <2>2, <2>3, <2>4 DEF secretExists, TypeOK
  <1>12. ASSUME collectUsages PROVE TypeOK' /\ WorkerOK'
    <2> DEFINE kind == worker.listed + 1
               next == IF kind = NumKinds THEN "decide" ELSE "list"
               read == worker.found \cup
                         {c \in Consumers : KindOf[c] = kind /\ Key \in specCache[c]}
    <2>1. /\ worker \in WorkerStates /\ worker.pc = "list"
          /\ worker.listed < NumKinds /\ NumKinds \in Nat /\ worker.key \in Secrets
      BY <1>12, SecretUsageControllerAssumption DEF collectUsages, TypeOK, WorkerOK
    <2>2. worker' = [worker EXCEPT !.pc = next, !.listed = kind, !.found = read]
      BY <1>12 DEF collectUsages
    <2>3. /\ kind \in 0..NumKinds
          /\ next \in {"decide", "list"}
          /\ next = "list" => kind < NumKinds
          /\ next = "decide" => kind = NumKinds
      BY <2>1 DEF WorkerStates
    <2>4. read \in SUBSET Consumers
      BY <2>1 DEF WorkerStates
    <2> HIDE DEF kind, next, read
    <2>5. worker' \in WorkerStates
      BY <2>1, <2>2, <2>3, <2>4 DEF WorkerStates, Steps
    <2>6. worker'.pc = next /\ worker'.listed = kind /\ worker'.key = worker.key
      BY <2>1, <2>2 DEF WorkerStates
    <2>7. WorkerOK'
      BY <2>1, <2>3, <2>6 DEF WorkerOK
    <2> QED
      BY <1>12, <2>5, <2>7 DEF collectUsages, TypeOK
  <1>13. ASSUME Forget PROVE TypeOK' /\ WorkerOK'
    <2>1. CASE usageCache[Key] = Absent
      <3>1. worker' = Idle /\ worker' \in WorkerStates /\ UNCHANGED backoff
        BY <1>13, <2>1, IdleType DEF Forget, Done
      <3>2. gauge' \in [Secrets -> Series \cup {Absent}]
        BY <1>13, <2>1 DEF Forget, clearSecretMetrics, TypeOK
      <3>3. WorkerOK'
        BY <3>1 DEF WorkerOK, Idle
      <3> QED
        BY <1>13, <3>1, <3>2, <3>3 DEF Forget, TypeOK
    <2>2. CASE usageCache[Key] # Absent
      <3>1. worker' \in WorkerStates /\ WorkerOK'
        BY <1>13, <2>2 DEF Forget, TypeOK, WorkerStates, Steps, WorkerOK
      <3> QED
        BY <1>13, <2>2, <3>1 DEF Forget, TypeOK
    <2> QED
      BY <2>1, <2>2
  <1>14. ASSUME NEW received \in BOOLEAN, Delete(received) PROVE TypeOK' /\ WorkerOK'
    <2>1. Key \in Secrets /\ worker.pc # "idle"
      BY <1>14 DEF Delete, WorkerOK, Key
    <2>2. Done \/ Fail
      BY <1>14 DEF Delete
    <2>3. worker' = Idle /\ worker' \in WorkerStates /\ backoff' \in SUBSET Secrets
      BY <2>1, <2>2, ReturnType
    <2>4. WorkerOK'
      BY <2>3 DEF WorkerOK, Idle
    <2>5. gauge' \in [Secrets -> Series \cup {Absent}]
      BY <1>14 DEF Delete, clearSecretMetrics, TypeOK
    <2>6. Store(Key, Absent)
      BY <1>14 DEF Delete
    <2> QED
      BY <1>14, <2>1, <2>3, <2>4, <2>5, <2>6, StoreType DEF Delete, TypeOK
  <1>15. ASSUME Get PROVE TypeOK' /\ WorkerOK'
    <2>1. Key \in Secrets /\ worker.listed = NumKinds
      BY <1>15 DEF Get, WorkerOK, Key
    <2>2. usageCache[Key] \in Objects \cup {Absent}
      BY <2>1 DEF TypeOK
    <2> DEFINE current == usageCache[Key]
    <2>6. \/ worker' = Idle
          \/ worker' = [worker EXCEPT !.pc = "create"]
          \/ current # Absent /\ \E step \in {"labels", "status"} :
               worker' = [worker EXCEPT !.pc = step, !.current = current]
      BY <1>15 DEF Get, PatchStatusNext
    <2> HIDE DEF current
    <2>7. worker \in WorkerStates /\ worker.key \in Secrets
      BY <2>1 DEF TypeOK, Key
    <2>8. ASSUME worker' = Idle PROVE worker' \in WorkerStates /\ WorkerOK'
      BY <2>8, IdleType DEF WorkerOK, Idle
    <2>9. ASSUME worker' = [worker EXCEPT !.pc = "create"]
          PROVE  worker' \in WorkerStates /\ WorkerOK'
      BY <2>1, <2>7, <2>9 DEF WorkerOK, WorkerStates, Steps
    <2>10. ASSUME current # Absent, NEW step \in {"labels", "status"},
                  worker' = [worker EXCEPT !.pc = step, !.current = current]
           PROVE  worker' \in WorkerStates /\ WorkerOK'
      <3>1. current \in Objects \cup {Absent}
        BY <2>2 DEF current
      <3> QED
        BY <2>1, <2>7, <2>10, <3>1 DEF WorkerOK, WorkerStates, Steps
    <2>3. worker' \in WorkerStates /\ WorkerOK'
      BY <2>6, <2>8, <2>9, <2>10
    <2>4. gauge' \in [Secrets -> Series \cup {Absent}]
      <3>1. seriesFor(worker.exists, worker.found) \in Series
        BY SeriesType DEF TypeOK, WorkerStates
      <3> QED
        BY <1>15, <3>1 DEF Get, recordSecretMetrics, TypeOK
    <2>5. fresh' \in [Secrets -> BOOLEAN]
      BY <1>15 DEF Get, TypeOK
    <2> QED
      BY <1>15, <2>3, <2>4, <2>5 DEF Get, TypeOK
  <1>16. ASSUME NEW received \in BOOLEAN, Create(received) PROVE TypeOK' /\ WorkerOK'
    <2> DEFINE object == created(DesiredLabels)
    <2>1. Key \in Secrets /\ worker.pc # "idle"
      BY <1>16 DEF Create, WorkerOK, Key
    <2>2. object \in Objects
      BY CreatedType
    <2>3. worker' \in WorkerStates /\ WorkerOK' /\ backoff' \in SUBSET Secrets
      <3>1. CASE received
        BY <1>16, <3>1 DEF Create, TypeOK, WorkerStates, Steps, WorkerOK
      <3>2. CASE ~received
        BY <1>16, <2>1, <3>2, ReturnType DEF Create, WorkerOK, Idle
      <3> QED
        BY <3>1, <3>2
    <2>4. Store(Key, object)
      BY <1>16 DEF Create
    <2> HIDE DEF object
    <2> QED
      BY <1>16, <2>1, <2>2, <2>3, <2>4, StoreType DEF Create, TypeOK
  <1>17. ASSUME NEW received \in BOOLEAN, Publish(received) PROVE TypeOK' /\ WorkerOK'
    <2> DEFINE object == published(usages[Key].labels, DesiredStatus)
    <2>1. Key \in Secrets /\ worker.pc # "idle" /\ usages[Key] = created(DesiredLabels)
      BY <1>17 DEF Publish, Accepted, WorkerOK, Key
    <2>2. usages[Key] \in Objects
      BY <2>1, CreatedType
    <2>3. object \in Objects
      BY <2>2, DesiredType DEF published, Objects
    <2>4. worker' = Idle /\ worker' \in WorkerStates /\ backoff' \in SUBSET Secrets
      BY <1>17, <2>1, ReturnType DEF Publish
    <2>5. WorkerOK'
      BY <2>4 DEF WorkerOK, Idle
    <2>6. Store(Key, object)
      BY <1>17 DEF Publish
    <2> HIDE DEF object
    <2> QED
      BY <1>17, <2>1, <2>3, <2>4, <2>5, <2>6, StoreType DEF Publish, TypeOK
  <1>18. ASSUME NEW received \in BOOLEAN, PatchLabels(received) PROVE TypeOK' /\ WorkerOK'
    <2> DEFINE patched == [usages[Key] EXCEPT
                 !.labels = patchedLabels(worker.current.labels, DesiredLabels, @)]
               decoded == [patched EXCEPT
                 !.status = decodedInto(worker.current.status, @, usages[Key].written)]
    <2>1. Key \in Secrets /\ worker.pc # "idle" /\ usages[Key] # Absent
      BY <1>18 DEF PatchLabels, Accepted, WorkerOK, Key
    <2>2. usages[Key] \in Objects
      BY <2>1 DEF TypeOK
    <2>3. worker.current \in Objects
      BY <1>18 DEF PatchLabels, TypeOK, WorkerStates, WorkerOK
    <2>4. patched \in Objects
      <3>1. patchedLabels(worker.current.labels, DesiredLabels, usages[Key].labels)
              \in SUBSET LabelKeys
        BY <2>2, <2>3, DesiredType, PatchedLabelsType DEF Objects
      <3> QED
        BY <2>2, <3>1 DEF Objects
    <2>5. Store(Key, patched)
      BY <1>18 DEF PatchLabels
    <2>6. worker' \in WorkerStates /\ WorkerOK' /\ backoff' \in SUBSET Secrets
      <3>1. CASE received
        <4>1. PatchStatusNext(decoded) /\ UNCHANGED backoff
          BY <1>18, <3>1 DEF PatchLabels
        <4>2. worker.listed = NumKinds /\ Key = worker.key
          BY <1>18 DEF PatchLabels, WorkerOK, Key
        <4>3. decoded \in Objects
          <5>1. decodedInto(worker.current.status, patched.status, usages[Key].written)
                  \in Statuses
            BY <2>3, <2>4, DecodedStatusType DEF Objects
          <5> HIDE DEF patched
          <5> QED
            BY <2>4, <5>1 DEF Objects
        <4>4. decoded # Absent
          BY <4>3, SecretUsageControllerAssumption
        <4> HIDE DEF decoded
        <4>5. CASE worker' = Idle
          BY <4>1, <4>5, IdleType DEF TypeOK, WorkerOK, Idle
        <4>6. CASE worker' = [worker EXCEPT !.pc = "status", !.current = decoded]
          <5>1. worker \in WorkerStates /\ worker.key \in Secrets
            BY <2>1, <4>2 DEF TypeOK
          <5> QED
            BY <4>1, <4>2, <4>3, <4>4, <4>6, <5>1 DEF TypeOK, WorkerOK, WorkerStates, Steps
        <4> QED
          BY <4>1, <4>5, <4>6 DEF PatchStatusNext
      <3>2. CASE ~received
        BY <1>18, <2>1, <3>2, ReturnType DEF PatchLabels, WorkerOK, Idle
      <3> QED
        BY <3>1, <3>2
    <2> HIDE DEF patched
    <2> QED
      BY <1>18, <2>1, <2>4, <2>5, <2>6, StoreType DEF PatchLabels, TypeOK
  <1>19. ASSUME NEW received \in BOOLEAN, PatchStatus(received) PROVE TypeOK' /\ WorkerOK'
    <2> DEFINE object == published(usages[Key].labels,
                 patchedStatus(worker.current.status, DesiredStatus, usages[Key].status))
    <2>1. Key \in Secrets /\ worker.pc # "idle" /\ usages[Key] # Absent
      BY <1>19 DEF PatchStatus, Accepted, WorkerOK, Key
    <2>2. usages[Key] \in Objects
      BY <2>1 DEF TypeOK
    <2>3. worker.current \in Objects
      BY <1>19 DEF PatchStatus, TypeOK, WorkerStates, WorkerOK
    <2>4. object \in Objects
      <3>1. patchedStatus(worker.current.status, DesiredStatus, usages[Key].status) \in Statuses
        BY <2>2, <2>3, DesiredType, PatchedStatusType DEF Objects
      <3> QED
        BY <2>2, <3>1 DEF published, Objects
    <2>5. worker' = Idle /\ worker' \in WorkerStates /\ backoff' \in SUBSET Secrets
      BY <1>19, <2>1, ReturnType DEF PatchStatus
    <2>6. WorkerOK'
      BY <2>5 DEF WorkerOK, Idle
    <2>7. Store(Key, object)
      BY <1>19 DEF PatchStatus
    <2> HIDE DEF object
    <2> QED
      BY <1>19, <2>1, <2>4, <2>5, <2>6, <2>7, StoreType DEF PatchStatus, TypeOK
  <1>20. ASSUME Rejected \/ CallFails PROVE TypeOK' /\ WorkerOK'
    <2>1. worker.pc # "idle"
      BY <1>20 DEF Rejected, CallFails, WorkerOK
    <2>2. worker' = Idle /\ worker' \in WorkerStates /\ backoff' \in SUBSET Secrets
      BY <1>20, <2>1, ReturnType DEF Rejected, CallFails
    <2>3. WorkerOK'
      BY <2>2 DEF WorkerOK, Idle
    <2>4. gauge' \in [Secrets -> Series \cup {Absent}]
      <3>1. seriesFor(worker.exists, worker.found) \in Series
        BY SeriesType DEF TypeOK, WorkerStates
      <3> QED
        BY <1>20, <3>1 DEF Rejected, CallFails, recordSecretMetrics, TypeOK
    <2> QED
      BY <1>20, <2>2, <2>3, <2>4 DEF Rejected, CallFails, TypeOK
  <1>21. ASSUME Restart PROVE TypeOK' /\ WorkerOK'
    <2>1. worker' = Idle /\ worker' \in WorkerStates
      BY <1>21, IdleType DEF Restart
    <2>2. WorkerOK'
      BY <2>1 DEF WorkerOK, Idle
    <2>3. TypeOK'
      BY <1>21, <2>1 DEF Restart, TypeOK, NoEvents
    <2> QED
      BY <2>2, <2>3
  <1>22. CASE UNCHANGED vars
    BY <1>22 DEF TypeOK, WorkerOK
  <1> QED
    BY <1>1, <1>2, <1>3, <1>4, <1>5, <1>6, <1>7, <1>8, <1>9, <1>10, <1>11, <1>12, <1>13,
       <1>14, <1>15, <1>16, <1>17, <1>18, <1>19, <1>20, <1>21, <1>22
       DEF Next, NextInOrder, Running, Undisturbed, RelistUsages, Answered, LostReply

\* The state is well-formed in every behaviour: in particular every count is a
\* number, every watch holds objects, and the worker never writes without a key.
THEOREM TypeCorrect == Spec => []TypeOK
  <1>1. Init => TypeOK /\ WorkerOK
    BY InitTypes
  <1>2. (TypeOK /\ WorkerOK) /\ [Next]_vars => (TypeOK /\ WorkerOK)'
    BY NextTypes
  <1> QED
    BY <1>1, <1>2, PTL DEF Spec

-----------------------------------------------------------------------------
(* No lost wake-up.                                                        *)

\* The part of GaugeInvariant that is not about types.
GaugeCore == ReadsCurrent /\ GaugeRecorded /\ NoGaugeUnlessEnabled /\ GaugesSettled

\* What a reconcile of Secret s would read now is what it would have read before.
SameReads(s) ==
  /\ secretCache'[s] = secretCache[s]
  /\ \A n \in 0..NumKinds : cachedUsages(s, n)' = cachedUsages(s, n)

\* Past the last collector, a key that is not pending calls for the gauges of
\* what was read.
LEMMA DecidedSeries ==
  ASSUME TypeOK, WorkerOK, ReadsCurrent, worker.pc \notin {"idle", "list"}, ~Pending(Key)
  PROVE  wantedSeries(Key) = IF PerSecretMetrics /\ Tracked
                             THEN seriesFor(worker.exists, worker.found) ELSE Absent
  <1>1. worker.exists = secretCache[Key] /\ worker.found = cachedUsages(Key, NumKinds)
    BY DEF ReadsCurrent, WorkerOK
  <1> QED
    BY <1>1 DEF wantedSeries, Tracked

\* Steps outside the worker: what they change for a key, they make it pending for.
LEMMA OutsideSteps ==
  ASSUME TypeOK, WorkerOK, GaugeCore, UNCHANGED <<worker, gauge>>,
         \A s \in Secrets : Pending(s) => Pending(s)',
         \A s \in Secrets : Pending(s)' \/ SameReads(s)
  PROVE  GaugeCore'
  <1>1. ReadsCurrent'
    <2> SUFFICES ASSUME worker.pc # "idle", ~Pending(Key)'
                 PROVE  /\ worker.exists = secretCache'[Key]
                        /\ worker.found = cachedUsages(Key, worker.listed)'
      BY DEF ReadsCurrent, Key
    <2>1. Key \in Secrets /\ worker.listed \in 0..NumKinds
      BY DEF TypeOK, WorkerStates, WorkerOK, Key
    <2>2. Pending(Key)' <=> Pending(worker.key)'
      BY DEF Key
    <2>3. ~Pending(Key) /\ SameReads(Key)
      BY <2>1, <2>2 DEF Key
    <2>4. worker.exists = secretCache[Key] /\ worker.found = cachedUsages(Key, worker.listed)
      BY <2>3 DEF GaugeCore, ReadsCurrent
    <2>5. cachedUsages(Key, worker.listed)' = cachedUsages(worker.key, worker.listed)'
      BY DEF Key
    <2> QED
      BY <2>1, <2>3, <2>4, <2>5 DEF SameReads, Key
  <1>2. GaugeRecorded'
    BY DEF GaugeCore, GaugeRecorded, Tracked, Key
  <1>3. NoGaugeUnlessEnabled'
    BY DEF GaugeCore, NoGaugeUnlessEnabled
  <1>4. GaugesSettled'
    <2> SUFFICES ASSUME NEW s \in Secrets, Settled(s)' PROVE gauge[s] = wantedSeries(s)'
      BY DEF GaugesSettled
    <2>1. ~Pending(s)' /\ worker.key # s
      BY DEF Settled
    <2>2. ~Pending(s) /\ SameReads(s)
      BY <2>1
    <2>3. gauge[s] = wantedSeries(s)
      BY <2>1, <2>2 DEF GaugeCore, GaugesSettled, Settled
    <2>4. NumKinds \in 0..NumKinds
      BY SecretUsageControllerAssumption
    <2>5. wantedSeries(s)' = wantedSeries(s)
      BY <2>2, <2>4 DEF SameReads, wantedSeries
    <2> QED
      BY <2>3, <2>5
  <1> QED
    BY <1>1, <1>2, <1>3, <1>4 DEF GaugeCore

\* Steps of the worker after the last collector: the reconcile goes on with what
\* it read, or ends with its key pending or its gauges right.
LEMMA WorkerSteps ==
  ASSUME TypeOK, WorkerOK, GaugeCore, worker.pc # "idle",
         UNCHANGED <<secretCache, specCache, notify, dirty>>,
         backoff' \in {backoff, backoff \cup {Key}},
         \A s \in Secrets : s # Key => gauge'[s] = gauge[s],
         NoGaugeUnlessEnabled',
         \/ /\ worker'.pc # "idle"
            /\ \A f \in {"key", "exists", "listed", "found"} : worker'[f] = worker[f]
            /\ GaugeRecorded'
         \/ /\ worker' = Idle
            /\ Pending(Key) \/ Key \in backoff' \/ gauge'[Key] = wantedSeries(Key)
  PROVE  GaugeCore'
  <1>1. Key \in Secrets /\ Key = worker.key
    BY DEF WorkerOK, Key
  <1>2. \A s \in Secrets : Pending(s) => Pending(s)'
    BY DEF Pending
  <1>3. \A s \in Secrets : s # Key /\ Pending(s)' => Pending(s)
    BY DEF Pending
  <1>4. \A s \in Secrets : wantedSeries(s)' = wantedSeries(s)
    BY DEF wantedSeries, cachedUsages
  <1>5. CASE worker' = Idle /\ (Pending(Key) \/ Key \in backoff' \/ gauge'[Key] = wantedSeries(Key))
    <2>1. ReadsCurrent' /\ GaugeRecorded'
      BY <1>5 DEF ReadsCurrent, GaugeRecorded, Idle
    <2>2. GaugesSettled'
      <3> SUFFICES ASSUME NEW s \in Secrets, Settled(s)' PROVE gauge'[s] = wantedSeries(s)
        BY <1>4 DEF GaugesSettled
      <3>1. ~Pending(s)' /\ ~Pending(s)
        BY <1>2 DEF Settled
      <3>2. CASE s = Key
        <4>1. Key \notin backoff'
          BY <3>1, <3>2 DEF Pending
        <4> QED
          BY <1>5, <3>1, <3>2, <4>1
      <3>3. CASE s # Key
        BY <1>1, <3>1, <3>3 DEF GaugeCore, GaugesSettled, Settled
      <3> QED
        BY <3>2, <3>3
    <2> QED
      BY <2>1, <2>2 DEF GaugeCore
  <1>6. CASE /\ worker'.pc # "idle"
             /\ \A f \in {"key", "exists", "listed", "found"} : worker'[f] = worker[f]
             /\ GaugeRecorded'
    <2>1. /\ worker'.key = worker.key /\ worker'.exists = worker.exists
          /\ worker'.listed = worker.listed /\ worker'.found = worker.found
      BY <1>6
    <2>2. ReadsCurrent'
      <3> SUFFICES ASSUME ~Pending(worker.key)'
                   PROVE  /\ worker.exists = secretCache[Key]
                          /\ worker.found = cachedUsages(Key, worker.listed)
        BY <2>1 DEF ReadsCurrent, Key, cachedUsages, Pending
      <3>1. worker'.key \in Secrets /\ worker'.key = Key
        BY <1>1, <2>1
      <3>2. ~Pending(Key)
        BY <1>2, <3>1 DEF Pending
      <3> QED
        BY <3>2 DEF GaugeCore, ReadsCurrent
    <2>3. GaugesSettled'
      <3> SUFFICES ASSUME NEW s \in Secrets, Settled(s)' PROVE gauge'[s] = wantedSeries(s)
        BY <1>4 DEF GaugesSettled
      <3>1. ~Pending(s) /\ s # Key
        BY <1>1, <1>2, <2>1 DEF Settled
      <3> QED
        BY <1>1, <3>1 DEF GaugeCore, GaugesSettled, Settled
    <2> QED
      BY <1>6, <2>2, <2>3 DEF GaugeCore
  <1> QED
    BY <1>5, <1>6

\* Only the gauges of the key under work change.
LEMMA GaugeOfKeyOnly ==
  ASSUME TypeOK, recordSecretMetrics \/ clearSecretMetrics \/ UNCHANGED gauge,
         Key \in Secrets, NoGaugeUnlessEnabled
  PROVE  /\ \A s \in Secrets : s # Key => gauge'[s] = gauge[s]
         /\ NoGaugeUnlessEnabled'
  BY DEF TypeOK, recordSecretMetrics, clearSecretMetrics, NoGaugeUnlessEnabled

\* The steps of users, informers, handlers and the queue.
Outside ==
  \/ \E s \in Secrets : ChangeSecret(s) \/ UserDeletesUsage(s) \/ Enqueue(s) \/ RetryDue(s)
  \/ \E c \in Consumers, names \in SUBSET Secrets : ChangeSpec(c, names)
  \/ \E s \in Secrets : \E n \in 1..Len(secretWatch[s]) : ObserveSecret(s, n)
  \/ \E c \in Consumers : \E n \in 1..Len(specWatch[c]) : ObserveSpec(c, n)
  \/ \E s \in Secrets : \E n \in 1..Len(usageWatch[s]) : ObserveUsage(s, n)
  \/ \E s \in Secrets : ResyncSecret(s)
  \/ \E c \in Consumers : ResyncSpec(c)

\* What they have in common: they leave the worker alone, and what they change for
\* a key they make it pending for.
OutsideFrame ==
  /\ UNCHANGED <<worker, gauge, fresh>>
  /\ \A s \in Secrets : Pending(s) => Pending(s)'
  /\ \A s \in Secrets : Pending(s)' \/ SameReads(s)

LEMMA OutsideFrames ==
  ASSUME TypeOK, TypeOK', Outside
  PROVE  OutsideFrame
  <1> USE DEF liveVars, watchVars, cacheVars, queueVars
  <1>0. ASSUME UNCHANGED <<worker, gauge, fresh>>,
               \A s \in Secrets : Pending(s) => Pending(s)',
               \A s \in Secrets : Pending(s)' \/ SameReads(s)
        PROVE  OutsideFrame
    BY <1>0 DEF OutsideFrame
  <1>1. ASSUME UNCHANGED <<secretCache, specCache, worker, gauge, fresh>>,
               \A s \in Secrets : Pending(s) => Pending(s)'
        PROVE  OutsideFrame
    <2>1. \A s \in Secrets : SameReads(s)
      BY <1>1 DEF SameReads, cachedUsages
    <2> QED
      BY <1>1, <2>1, <1>0
  <1>2. ASSUME NEW s \in Secrets,
               ChangeSecret(s) \/ UserDeletesUsage(s) \/ Enqueue(s) \/ RetryDue(s)
        PROVE  OutsideFrame
    <2>1. UNCHANGED <<secretCache, specCache, worker, gauge, fresh>>
      BY <1>2 DEF ChangeSecret, UserDeletesUsage, Enqueue, RetryDue
    <2>2. \A k \in Secrets : Pending(k) => Pending(k)'
      BY <1>2 DEF ChangeSecret, UserDeletesUsage, Enqueue, RetryDue, Pending, TypeOK
    <2> QED
      BY <1>1, <2>1, <2>2
  <1>3. ASSUME NEW c \in Consumers, NEW names \in SUBSET Secrets, ChangeSpec(c, names)
        PROVE  OutsideFrame
    BY <1>1, <1>3 DEF ChangeSpec, Pending
  <1>4. ASSUME NEW s \in Secrets, NEW n \in 1..Len(secretWatch[s]), ObserveSecret(s, n)
        PROVE  OutsideFrame
    <2> DEFINE added == IF secretCache[s] \/ secretWatch[s][n] THEN {s} ELSE {}
    <2>1. Notify({}, added) /\ UNCHANGED <<dirty, backoff, worker, gauge, fresh, specCache>>
      BY <1>4 DEF ObserveSecret
    <2>2. \A k \in Secrets : notify'[k] >= notify[k] /\ (k \in added => notify'[k] > 0)
      <3> HIDE DEF added
      <3> QED
        BY <2>1, NotifyAdds DEF TypeOK
    <2>3. \A k \in Secrets : Pending(k) => Pending(k)'
      BY <2>1, <2>2 DEF Pending, TypeOK
    <2>4. ASSUME NEW k \in Secrets PROVE Pending(k)' \/ SameReads(k)
      <3>1. \A m \in 0..NumKinds : cachedUsages(k, m)' = cachedUsages(k, m)
        BY <2>1 DEF cachedUsages
      <3>2. CASE k \in added
        BY <2>2, <3>2 DEF Pending
      <3>3. CASE k \notin added
        <4>1. secretCache' = [secretCache EXCEPT ![s] = secretWatch[s][n]]
          BY <1>4 DEF ObserveSecret
        <4>2. secretWatch[s] \in Seq(BOOLEAN)
          BY DEF TypeOK
        <4>3. secretWatch[s][n] \in BOOLEAN
          BY <4>2, DropType
        <4>4. secretCache'[k] = secretCache[k]
          BY <3>3, <4>1, <4>3 DEF TypeOK
        <4> QED
          BY <3>1, <4>4 DEF SameReads
      <3> QED
        BY <3>2, <3>3
    <2> QED
      BY <2>1, <2>3, <2>4, <1>0
  <1>5. ASSUME NEW c \in Consumers, NEW n \in 1..Len(specWatch[c]), ObserveSpec(c, n)
        PROVE  OutsideFrame
    <2> DEFINE old == specCache[c]
               new == specWatch[c][n]
    <2>1. /\ Notify(old, new) /\ UNCHANGED <<dirty, backoff, worker, gauge, fresh, secretCache>>
          /\ specCache' = [specCache EXCEPT ![c] = new]
      BY <1>5 DEF ObserveSpec, enqueueForSecretConsumer
    <2>2. \A k \in Secrets : notify'[k] >= notify[k] /\ (k \in old \cup new => notify'[k] > 0)
      <3> HIDE DEF old, new
      <3> QED
        BY <2>1, NotifyAdds DEF TypeOK
    <2>3. \A k \in Secrets : Pending(k) => Pending(k)'
      BY <2>1, <2>2 DEF Pending, TypeOK
    <2>4. ASSUME NEW k \in Secrets PROVE Pending(k)' \/ SameReads(k)
      <3>1. CASE k \in old \cup new
        BY <2>2, <3>1 DEF Pending
      <3>2. CASE k \notin old \cup new
        <4>1. \A d \in Consumers : k \in specCache'[d] <=> k \in specCache[d]
          BY <2>1, <3>2 DEF TypeOK
        <4> QED
          BY <2>1, <4>1 DEF SameReads, cachedUsages
      <3> QED
        BY <3>1, <3>2
    <2> QED
      BY <2>1, <2>3, <2>4, <1>0
  <1>6. ASSUME NEW s \in Secrets, NEW n \in 1..Len(usageWatch[s]), ObserveUsage(s, n)
        PROVE  OutsideFrame
    <2>1. UNCHANGED <<dirty, backoff, worker, gauge, fresh, secretCache, specCache>>
      BY <1>6 DEF ObserveUsage
    <2>2. \A k \in Secrets : notify'[k] >= notify[k]
      BY <1>6, NotifyAdds DEF ObserveUsage, enqueueOwnKey, TypeOK
    <2>3. \A k \in Secrets : Pending(k) => Pending(k)'
      BY <2>1, <2>2 DEF Pending, TypeOK
    <2> QED
      BY <1>1, <2>1, <2>3
  <1>7. ASSUME \/ \E s \in Secrets : ResyncSecret(s)
               \/ \E c \in Consumers : ResyncSpec(c)
        PROVE  OutsideFrame
    <2>1. UNCHANGED <<dirty, backoff, worker, gauge, fresh, secretCache, specCache>>
      BY <1>7 DEF ResyncSecret, ResyncSpec
    <2>2. \A k \in Secrets : notify'[k] >= notify[k]
      BY <1>7, NotifyAdds DEF ResyncSecret, ResyncSpec, enqueueForSecretConsumer, TypeOK
    <2>3. \A k \in Secrets : Pending(k) => Pending(k)'
      BY <2>1, <2>2 DEF Pending, TypeOK
    <2> QED
      BY <1>1, <2>1, <2>3
  <1> QED
    BY <1>2, <1>3, <1>4, <1>5, <1>6, <1>7 DEF Outside

\* Every step is one of these.
LEMMA NextCases ==
  ASSUME [Next]_vars
  PROVE  \/ Outside
         \/ \E s \in Secrets : secretExists(s)
         \/ collectUsages \/ Forget \/ Get \/ Rejected \/ CallFails \/ Restart
         \/ \E received \in BOOLEAN :
              \/ Delete(received) \/ Create(received) \/ Publish(received)
              \/ PatchLabels(received) \/ PatchStatus(received)
         \/ UNCHANGED vars
  <1>1. ASSUME NEW s \in Secrets, NEW n, ObserveUsage(s, n) PROVE Outside
    BY <1>1, ObservedIsThere DEF Outside
  <1> QED
    BY <1>1 DEF Next, NextInOrder, Running, Undisturbed, RelistUsages, Answered,
                LostReply, Outside

\* Every step keeps the invariant.
LEMMA NextGauge ==
  ASSUME TypeOK, WorkerOK, TypeOK', WorkerOK', GaugeCore, [Next]_vars
  PROVE  GaugeCore'
  <1> USE DEF vars, liveVars, watchVars, cacheVars, queueVars
  <1>1. ASSUME Outside PROVE GaugeCore'
    BY <1>1, OutsideFrames, OutsideSteps DEF OutsideFrame
  <1>8. ASSUME NEW s \in Secrets, secretExists(s) PROVE GaugeCore'
    <2>1. /\ worker = Idle
          /\ worker' = [Idle EXCEPT !.pc = "list", !.key = s, !.exists = secretCache[s]]
          /\ UNCHANGED <<secretCache, specCache, notify, backoff, gauge>>
          /\ dirty' = dirty \ {s}
      BY <1>8 DEF secretExists
    <2>2. /\ worker'.pc = "list" /\ worker'.key = s /\ worker'.exists = secretCache[s]
          /\ worker'.listed = 0 /\ worker'.found = {}
      BY <2>1 DEF Idle
    <2>3. cachedUsages(s, 0) = {}
      BY SecretUsageControllerAssumption DEF cachedUsages
    <2>4. ReadsCurrent'
      BY <2>1, <2>2, <2>3 DEF ReadsCurrent, Key, cachedUsages
    <2>5. GaugeRecorded' /\ NoGaugeUnlessEnabled'
      BY <2>1, <2>2 DEF GaugeCore, GaugeRecorded, NoGaugeUnlessEnabled
    <2>6. GaugesSettled'
      <3> SUFFICES ASSUME NEW k \in Secrets, Settled(k)' PROVE gauge'[k] = wantedSeries(k)'
        BY DEF GaugesSettled
      <3>1. k # s /\ ~Pending(k)
        BY <2>1, <2>2 DEF Settled, Pending
      <3>2. worker.key # k
        BY <2>1, SecretUsageControllerAssumption DEF Idle
      <3>3. gauge[k] = wantedSeries(k)
        BY <3>1, <3>2 DEF GaugeCore, GaugesSettled, Settled
      <3>4. wantedSeries(k)' = wantedSeries(k)
        BY <2>1 DEF wantedSeries, cachedUsages
      <3> QED
        BY <2>1, <3>3, <3>4
    <2> QED
      BY <2>4, <2>5, <2>6 DEF GaugeCore
  <1>9. ASSUME collectUsages PROVE GaugeCore'
    <2> DEFINE kind == worker.listed + 1
               read == {c \in Consumers : KindOf[c] = kind /\ Key \in specCache[c]}
    <2>1. /\ worker.pc = "list" /\ worker.key \in Secrets
          /\ worker \in WorkerStates /\ worker.listed < NumKinds
      BY <1>9 DEF collectUsages, TypeOK, WorkerOK
    <2>2. UNCHANGED <<secretCache, specCache, notify, dirty, backoff, gauge>>
      BY <1>9 DEF collectUsages
    <2>3. /\ worker'.key = worker.key /\ worker'.exists = worker.exists
          /\ worker'.listed = kind /\ worker'.found = worker.found \cup read
          /\ worker'.pc \in {"list", "decide"}
      BY <1>9, <2>1 DEF collectUsages, WorkerStates
    <2>4. ReadsCurrent'
      <3> SUFFICES ASSUME ~Pending(Key)
                   PROVE  /\ worker'.exists = secretCache[Key]
                          /\ worker'.found = cachedUsages(Key, kind)
        BY <2>2, <2>3 DEF ReadsCurrent, Key, Pending, cachedUsages
      <3>1. worker.exists = secretCache[Key] /\ worker.found = cachedUsages(Key, worker.listed)
        BY <2>1 DEF GaugeCore, ReadsCurrent
      <3>2. \A c \in Consumers : KindOf[c] <= kind <=> KindOf[c] <= worker.listed \/ KindOf[c] = kind
        BY <2>1, SecretUsageControllerAssumption DEF WorkerStates
      <3>3. cachedUsages(Key, kind) = cachedUsages(Key, worker.listed) \cup read
        BY <3>2 DEF cachedUsages
      <3> QED
        BY <2>3, <3>1, <3>3
    <2>5. GaugeRecorded' /\ NoGaugeUnlessEnabled'
      BY <2>2, <2>3 DEF GaugeCore, GaugeRecorded, NoGaugeUnlessEnabled
    <2>6. GaugesSettled'
      BY <2>2, <2>3 DEF GaugeCore, GaugesSettled, Settled, Pending, wantedSeries, cachedUsages
    <2> QED
      BY <2>4, <2>5, <2>6 DEF GaugeCore
  <1>10. ASSUME Forget PROVE GaugeCore'
    <2>1. /\ worker.pc = "decide" /\ ~Tracked /\ Key \in Secrets
          /\ UNCHANGED <<secretCache, specCache, notify, dirty>>
      BY <1>10 DEF Forget, WorkerOK, Key
    <2>2. CASE usageCache[Key] = Absent
      <3>1. worker' = Idle /\ UNCHANGED backoff /\ clearSecretMetrics
        BY <1>10, <2>2 DEF Forget, Done
      <3>2. Pending(Key) \/ gauge'[Key] = wantedSeries(Key)
        BY <2>1, <3>1, DecidedSeries
           DEF GaugeCore, NoGaugeUnlessEnabled, clearSecretMetrics, TypeOK
      <3> QED
        BY <2>1, <3>1, <3>2, GaugeOfKeyOnly, WorkerSteps DEF GaugeCore
    <2>3. CASE usageCache[Key] # Absent
      <3>1. worker' = [worker EXCEPT !.pc = "delete"] /\ UNCHANGED <<backoff, gauge>>
        BY <1>10, <2>3 DEF Forget
      <3>2. /\ worker'.pc = "delete"
            /\ \A f \in {"key", "exists", "listed", "found"} : worker'[f] = worker[f]
        BY <3>1 DEF TypeOK, WorkerStates
      <3>3. GaugeRecorded'
        BY <2>1, <3>2 DEF GaugeRecorded, Tracked
      <3> QED
        BY <2>1, <3>1, <3>2, <3>3, GaugeOfKeyOnly, WorkerSteps DEF GaugeCore
    <2> QED
      BY <2>2, <2>3
  <1>11. ASSUME NEW received \in BOOLEAN, Delete(received) PROVE GaugeCore'
    <2>1. /\ worker.pc = "delete" /\ ~Tracked /\ Key \in Secrets
          /\ UNCHANGED <<secretCache, specCache, notify, dirty>>
      BY <1>11 DEF Delete, WorkerOK, Key, GaugeCore, GaugeRecorded
    <2>2. CASE received
      <3>1. worker' = Idle /\ UNCHANGED backoff /\ clearSecretMetrics
        BY <1>11, <2>2 DEF Delete, Done
      <3>2. Pending(Key) \/ gauge'[Key] = wantedSeries(Key)
        BY <2>1, <3>1, DecidedSeries
           DEF GaugeCore, NoGaugeUnlessEnabled, clearSecretMetrics, TypeOK
      <3> QED
        BY <2>1, <3>1, <3>2, GaugeOfKeyOnly, WorkerSteps DEF GaugeCore
    <2>3. CASE ~received
      BY <1>11, <2>1, <2>3, GaugeOfKeyOnly, WorkerSteps DEF Delete, Fail, GaugeCore
    <2> QED
      BY <2>2, <2>3
  <1>12. ASSUME Get PROVE GaugeCore'
    <2>1. /\ worker.pc = "decide" /\ Tracked /\ Key \in Secrets /\ recordSecretMetrics
          /\ UNCHANGED <<secretCache, specCache, notify, dirty, backoff>>
      BY <1>12 DEF Get, WorkerOK, Key
    <2>2. PerSecretMetrics => gauge'[Key] = seriesFor(worker.exists, worker.found)
      BY <2>1 DEF recordSecretMetrics, TypeOK
    <2>3. Pending(Key) \/ gauge'[Key] = wantedSeries(Key)
      BY <2>1, <2>2, DecidedSeries DEF GaugeCore, NoGaugeUnlessEnabled, recordSecretMetrics, TypeOK
    <2>4. \/ worker' = Idle
          \/ /\ worker'.pc \in {"create", "labels", "status"}
             /\ \A f \in {"key", "exists", "listed", "found"} : worker'[f] = worker[f]
      <3>1. \/ worker' = Idle
            \/ worker' = [worker EXCEPT !.pc = "create"]
            \/ \E step \in {"labels", "status"} :
                 worker' = [worker EXCEPT !.pc = step, !.current = usageCache[Key]]
        BY <1>12 DEF Get, PatchStatusNext
      <3>2. worker \in WorkerStates
        BY DEF TypeOK
      <3>3. CASE worker' = [worker EXCEPT !.pc = "create"]
        BY <3>2, <3>3 DEF WorkerStates
      <3>4. ASSUME NEW step \in {"labels", "status"},
                   worker' = [worker EXCEPT !.pc = step, !.current = usageCache[Key]]
            PROVE  /\ worker'.pc \in {"create", "labels", "status"}
                   /\ \A f \in {"key", "exists", "listed", "found"} : worker'[f] = worker[f]
        BY <3>2, <3>4 DEF WorkerStates
      <3> QED
        BY <3>1, <3>3, <3>4
    <2>5. CASE worker' = Idle
      BY <2>1, <2>3, <2>5, GaugeOfKeyOnly, WorkerSteps DEF GaugeCore
    <2>6. CASE /\ worker'.pc \in {"create", "labels", "status"}
               /\ \A f \in {"key", "exists", "listed", "found"} : worker'[f] = worker[f]
      <3>1. worker'.key = worker.key /\ worker'.exists = worker.exists /\ worker'.found = worker.found
        BY <2>6
      <3>2. GaugeRecorded'
        BY <2>1, <2>2, <2>6, <3>1 DEF GaugeRecorded, Tracked, Key
      <3> QED
        BY <2>1, <2>6, <3>2, GaugeOfKeyOnly, WorkerSteps DEF GaugeCore
    <2> QED
      BY <2>4, <2>5, <2>6
  <1>13. ASSUME NEW received \in BOOLEAN,
                Create(received) \/ Publish(received) \/ PatchLabels(received)
                  \/ PatchStatus(received)
         PROVE  GaugeCore'
    <2>1. /\ worker.pc \in {"create", "publish", "labels", "status"} /\ Key \in Secrets
          /\ UNCHANGED <<secretCache, specCache, notify, dirty, gauge>>
      BY <1>13 DEF Create, Publish, PatchLabels, PatchStatus, WorkerOK, Key
    <2>2. Tracked /\ (PerSecretMetrics => gauge[Key] = seriesFor(worker.exists, worker.found))
      BY <2>1 DEF GaugeCore, GaugeRecorded
    <2>3. Pending(Key) \/ gauge'[Key] = wantedSeries(Key)
      BY <2>1, <2>2, DecidedSeries DEF GaugeCore, NoGaugeUnlessEnabled
    <2>4. \/ Fail
          \/ worker' = Idle /\ UNCHANGED backoff
          \/ /\ UNCHANGED backoff
             /\ worker'.pc \in {"publish", "status"}
             /\ \A f \in {"key", "exists", "listed", "found"} : worker'[f] = worker[f]
      BY <1>13 DEF Create, Publish, PatchLabels, PatchStatus, PatchStatusNext, Done,
                   TypeOK, WorkerStates
    <2>5. CASE Fail
      BY <2>1, <2>5, GaugeOfKeyOnly, WorkerSteps DEF Fail, GaugeCore
    <2>6. CASE worker' = Idle /\ UNCHANGED backoff
      BY <2>1, <2>3, <2>6, GaugeOfKeyOnly, WorkerSteps DEF GaugeCore
    <2>7. CASE /\ UNCHANGED backoff
               /\ worker'.pc \in {"publish", "status"}
               /\ \A f \in {"key", "exists", "listed", "found"} : worker'[f] = worker[f]
      <3>1. worker'.key = worker.key /\ worker'.exists = worker.exists /\ worker'.found = worker.found
        BY <2>7
      <3>2. GaugeRecorded'
        BY <2>1, <2>2, <2>7, <3>1 DEF GaugeRecorded, Tracked, Key
      <3> QED
        BY <2>1, <2>7, <3>2, GaugeOfKeyOnly, WorkerSteps DEF GaugeCore
    <2> QED
      BY <2>4, <2>5, <2>6, <2>7
  <1>14. ASSUME Rejected \/ CallFails PROVE GaugeCore'
    <2>1. worker.pc # "idle" /\ Key \in Secrets
      BY <1>14 DEF Rejected, CallFails, WorkerOK, Key
    <2>2. /\ Fail /\ UNCHANGED <<secretCache, specCache, notify, dirty>>
          /\ recordSecretMetrics \/ UNCHANGED gauge
      BY <1>14 DEF Rejected, CallFails
    <2> QED
      BY <2>1, <2>2, GaugeOfKeyOnly, WorkerSteps DEF Fail, GaugeCore
  <1>15. ASSUME Restart PROVE GaugeCore'
    <2>1. worker' = Idle /\ gauge' = [s \in Secrets |-> Absent]
      BY <1>15 DEF Restart
    <2>2. ReadsCurrent' /\ GaugeRecorded' /\ NoGaugeUnlessEnabled'
      BY <2>1 DEF ReadsCurrent, GaugeRecorded, NoGaugeUnlessEnabled, Idle
    <2>3. GaugesSettled'
      <3> SUFFICES ASSUME NEW s \in Secrets, s \notin dirty' PROVE wantedSeries(s)' = Absent
        BY <2>1 DEF GaugesSettled, Settled, Pending
      <3>1. ~secrets[s] /\ \A c \in Consumers : s \notin specs[c]
        BY <1>15 DEF Restart, named
      <3>2. secretCache'[s] = FALSE /\ cachedUsages(s, NumKinds)' = {}
        BY <1>15, <3>1 DEF Restart, cachedUsages, TypeOK
      <3> QED
        BY <3>2 DEF wantedSeries, tracked
    <2> QED
      BY <2>2, <2>3 DEF GaugeCore
  <1>16. CASE UNCHANGED vars
    <2>1. \A s \in Secrets : SameReads(s) /\ (Pending(s) <=> Pending(s)')
      BY <1>16 DEF SameReads, cachedUsages, Pending
    <2> QED
      BY <1>16, <2>1, OutsideSteps
  <1> QED
    BY <1>1, <1>8, <1>9, <1>10, <1>11, <1>12, <1>13, <1>14, <1>15, <1>16, NextCases

\* The invariant holds initially: every key that calls for gauges is queued.
LEMMA InitGauge == Init => GaugeCore
  <1> SUFFICES ASSUME Init PROVE GaugeCore
    OBVIOUS
  <1>1. worker = Idle /\ gauge = [s \in Secrets |-> Absent]
    BY DEF Init
  <1>2. ReadsCurrent /\ GaugeRecorded /\ NoGaugeUnlessEnabled
    BY <1>1 DEF ReadsCurrent, GaugeRecorded, NoGaugeUnlessEnabled, Idle
  <1>3. GaugesSettled
    <2> SUFFICES ASSUME NEW s \in Secrets, s \notin dirty PROVE wantedSeries(s) = Absent
      BY <1>1 DEF GaugesSettled, Settled, Pending
    <2>1. ~secrets[s] /\ \A c \in Consumers : s \notin specs[c]
      BY DEF Init, named
    <2>2. secretCache[s] = FALSE /\ cachedUsages(s, NumKinds) = {}
      BY <2>1 DEF Init, cachedUsages
    <2> QED
      BY <2>2 DEF wantedSeries, tracked
  <1> QED
    BY <1>2, <1>3 DEF GaugeCore

\* The inductive invariant: whatever a reconcile has read is current or its key is
\* pending, and the gauges of the keys at rest are those of the caches.
THEOREM GaugeInvariantHolds == Spec => []GaugeInvariant
  <1>1. Init => TypeOK /\ WorkerOK /\ GaugeCore
    BY InitTypes, InitGauge
  <1>2. (TypeOK /\ WorkerOK /\ GaugeCore) /\ [Next]_vars => (TypeOK /\ WorkerOK /\ GaugeCore)'
    <2> SUFFICES ASSUME TypeOK, WorkerOK, GaugeCore, [Next]_vars
                 PROVE  (TypeOK /\ WorkerOK /\ GaugeCore)'
      OBVIOUS
    <2>1. TypeOK' /\ WorkerOK'
      BY NextTypes
    <2> QED
      BY <2>1, NextGauge
  <1>3. TypeOK /\ WorkerOK /\ GaugeCore => GaugeInvariant
    BY DEF GaugeCore, GaugeInvariant
  <1> QED
    BY <1>1, <1>2, <1>3, PTL DEF Spec

\* No wake-up is lost: once nothing will reconcile a key any more, its gauges are
\* those of the caches, whatever the caches, the worker, the faults and the
\* restarts did and in whichever order.
THEOREM NoLostWakeUp == Spec => []GaugesSettled
  <1>1. GaugeInvariant => GaugesSettled
    BY DEF GaugeInvariant
  <1> QED
    BY <1>1, GaugeInvariantHolds, PTL
=============================================================================
