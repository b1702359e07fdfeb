------------------------ MODULE LeaderFailoverProofs ------------------------
(***************************************************************************)
(* Proofs about LeaderFailover: with a call of an earlier leader on its    *)
(* way at any time, and a successor that knows of the consumers only what  *)
(* its informers have seen, objects still exist exactly where they should  *)
(* once a key is quiet.                                                    *)
(***************************************************************************)
EXTENDS LeaderFailover, LiveIndexProofs

\* The earlier leader's reconcile has the shape of one; its calls store objects.
LateOK ==
  /\ late \in WorkerStates
  /\ late.pc = "idle" => late = Idle
  /\ late.pc # "idle" => late.key \in Secrets
  /\ late.pc \in {"labels", "status"} => late.current # Absent

StandbyTypeOK ==
  /\ standbyCache \in [Consumers -> SUBSET Secrets]
  /\ standbyWatch \in [Consumers -> Seq(SUBSET Secrets)]

-----------------------------------------------------------------------------
(* The calls of the earlier leader.                                        *)

\* Its operators are those of any reconcile.
LEMMA EarlierOperators ==
  /\ Earlier!Key = late.key
  /\ Earlier!Idle = Idle
  /\ Earlier!DesiredStatus = desiredStatus(late.exists, late.found)
  /\ Earlier!DesiredLabels = desiredLabelsFor(late.key, late.exists, late.found)
  /\ \A s, object : Earlier!Store(s, object) <=> Store(s, object)
  /\ \A labels : Earlier!created(labels) = created(labels)
  /\ \A labels, status : Earlier!published(labels, status) = published(labels, status)
  /\ \A base, desired, live :
       /\ Earlier!patchedLabels(base, desired, live) = patchedLabels(base, desired, live)
       /\ Earlier!patchedStatus(base, desired, live) = patchedStatus(base, desired, live)
  /\ \A base, live, written :
       Earlier!decodedInto(base, live, written) = decodedInto(base, live, written)
  <1>1. Earlier!Key = late.key
    BY DEF Earlier!Key
  <1>2. Earlier!Idle = Idle
    BY DEF Earlier!Idle, Idle
  <1>0. \A found : Earlier!Cardinality(found) = Cardinality(found)
    BY DEF Earlier!Cardinality, Cardinality
  <1>3. Earlier!DesiredStatus = desiredStatus(late.exists, late.found)
    <2>1. Earlier!maxUsages = maxUsages
      BY DEF Earlier!maxUsages, maxUsages, Earlier!DefaultMaxUsages, DefaultMaxUsages
    <2>2. \A found : Earlier!truncateUsages(found) = truncateUsages(found)
      BY <1>0, <2>1 DEF Earlier!truncateUsages, truncateUsages
    <2> QED
      BY <1>0, <2>1, <2>2 DEF Earlier!DesiredStatus, Earlier!desiredStatus, desiredStatus
  <1>4. Earlier!DesiredLabels = desiredLabelsFor(late.key, late.exists, late.found)
    <2>1. \A s, exists, found :
            Earlier!desiredLabelsFor(s, exists, found) = desiredLabelsFor(s, exists, found)
      <3>1. Earlier!LabelKeys = LabelKeys
        BY DEF Earlier!LabelKeys, LabelKeys
      <3> QED
        BY <3>1 DEF Earlier!desiredLabelsFor, desiredLabelsFor
    <2>2. Earlier!DesiredLabels = Earlier!desiredLabelsFor(late.key, late.exists, late.found)
      BY <1>1 DEF Earlier!DesiredLabels
    <2> QED
      BY <2>1, <2>2
  <1>5. \A s, object : Earlier!Store(s, object) <=> Store(s, object)
    BY DEF Earlier!Store, Store
  <1>6. \A labels : Earlier!created(labels) = created(labels)
    BY DEF Earlier!created, created, Earlier!NoStatus, NoStatus
  <1>7. \A labels, status : Earlier!published(labels, status) = published(labels, status)
    BY DEF Earlier!published, published
  <1>8. \A base, desired, live :
          /\ Earlier!patchedLabels(base, desired, live) = patchedLabels(base, desired, live)
          /\ Earlier!patchedStatus(base, desired, live) = patchedStatus(base, desired, live)
    BY DEF Earlier!patchedLabels, patchedLabels, Earlier!patchedStatus, patchedStatus,
           Earlier!patchedField, patchedField
  <1>9. \A base, live, written :
          Earlier!decodedInto(base, live, written) = decodedInto(base, live, written)
    BY DEF Earlier!decodedInto, decodedInto
  <1> QED
    BY <1>1, <1>2, <1>3, <1>4, <1>5, <1>6, <1>7, <1>8, <1>9

\* What it wants to write has the right shape.
LEMMA LateDesires ==
  ASSUME LateOK
  PROVE  /\ Earlier!DesiredStatus \in Statuses
         /\ Earlier!DesiredLabels \in SUBSET LabelKeys
  <1>1. late.exists \in BOOLEAN /\ late.found \in SUBSET Consumers
    BY DEF LateOK, WorkerStates
  <1> QED
    BY <1>1, EarlierOperators, DesiredStatusType, DesiredLabelsType

\* A call stores or removes one object, and touches nothing else of its successor.
LateEffect ==
  /\ LateOK'
  /\ UNCHANGED <<worker, cacheVars, queueVars, gauge, fresh>>
  /\ \E s \in Secrets, object \in Objects \cup {Absent} : Store(s, object)

LEMMA LateReturn ==
  ASSUME late' = Idle
  PROVE  LateOK'
  BY IdleType DEF LateOK, Idle

LEMMA LateCalls ==
  ASSUME TypeOK, LateOK, LateCall
  PROVE  LateEffect
  <1> USE DEF cacheVars, queueVars
  <1>0. UNCHANGED worker
    BY DEF LateCall
  <1>1. CASE Earlier!Delete(TRUE)
    <2>1. late.pc = "delete" /\ Earlier!Store(Earlier!Key, Absent) /\ late' = Earlier!Idle
      BY <1>1 DEF Earlier!Delete, Earlier!Done
    <2>2. late.key \in Secrets /\ Store(late.key, Absent) /\ LateOK'
      BY <2>1, EarlierOperators, LateReturn DEF LateOK
    <2>3. UNCHANGED <<secretCache, specCache, usageCache, notify, dirty, backoff, gauge, fresh>>
      BY <1>1 DEF Earlier!Delete, Earlier!Done, Earlier!clearSecretMetrics, Earlier!cacheVars
    <2> QED
      BY <1>0, <2>2, <2>3 DEF LateEffect
  <1>2. CASE Earlier!Create(TRUE)
    <2> DEFINE object == created(Earlier!DesiredLabels)
    <2>1. /\ late.pc = "create" /\ Store(late.key, object)
          /\ late' = [late EXCEPT !.pc = "publish"]
      BY <1>2, EarlierOperators DEF Earlier!Create
    <2>2. object \in Objects
      BY LateDesires DEF created, Objects, NoStatus, Statuses
    <2> HIDE DEF object
    <2>3. late.key \in Secrets /\ LateOK'
      BY <2>1 DEF LateOK, WorkerStates, Steps
    <2>4. UNCHANGED <<secretCache, specCache, usageCache, notify, dirty, backoff, gauge, fresh>>
      BY <1>2 DEF Earlier!Create, Earlier!cacheVars
    <2> QED
      BY <1>0, <2>1, <2>2, <2>3, <2>4 DEF LateEffect
  <1>3. CASE Earlier!Publish(TRUE)
    <2> DEFINE object == published(usages[late.key].labels, Earlier!DesiredStatus)
    <2>1. /\ late.pc = "publish" /\ Store(late.key, object) /\ late' = Idle
          /\ usages[late.key] = created(Earlier!DesiredLabels)
      BY <1>3, EarlierOperators DEF Earlier!Publish, Earlier!Accepted, Earlier!Done
    <2>2. object \in Objects
      BY <2>1, LateDesires DEF created, published, Objects
    <2> HIDE DEF object
    <2>3. late.key \in Secrets /\ LateOK'
      BY <2>1, LateReturn DEF LateOK
    <2>4. UNCHANGED <<secretCache, specCache, usageCache, notify, dirty, backoff, gauge, fresh>>
      BY <1>3 DEF Earlier!Publish, Earlier!Done, Earlier!cacheVars
    <2> QED
      BY <1>0, <2>1, <2>2, <2>3, <2>4 DEF LateEffect
  <1>4. CASE Earlier!PatchLabels(TRUE)
    <2> DEFINE live    == usages[late.key]
               labels  == patchedLabels(late.current.labels, Earlier!DesiredLabels, live.labels)
               patched == [live EXCEPT !.labels = labels]
               decoded == [patched EXCEPT
                             !.status = decodedInto(late.current.status, @, live.written)]
    <2>1. /\ late.pc = "labels" /\ live # Absent /\ Store(late.key, patched)
          /\ late' = Idle \/ late' = [late EXCEPT !.pc = "status", !.current = decoded]
      BY <1>4, EarlierOperators
         DEF Earlier!PatchLabels, Earlier!Accepted, Earlier!PatchStatusNext
    <2>2. late.key \in Secrets /\ live \in Objects /\ late.current \in Objects
      BY <2>1 DEF LateOK, TypeOK, WorkerStates
    <2>3. patched \in Objects
      <3>1. labels \in SUBSET LabelKeys
        BY <2>2, LateDesires, PatchedLabelsType DEF Objects
      <3> QED
        BY <2>2, <3>1 DEF Objects
    <2>4. decoded \in Objects
      <3>1. decodedInto(late.current.status, patched.status, live.written) \in Statuses
        BY <2>2, <2>3, DecodedStatusType DEF Objects
      <3> HIDE DEF patched
      <3> QED
        BY <2>3, <3>1 DEF Objects
    <2> HIDE DEF patched, decoded
    <2>5. LateOK'
      <3>1. CASE late' = Idle
        BY <3>1, LateReturn
      <3>2. CASE late' = [late EXCEPT !.pc = "status", !.current = decoded]
        <4>1. decoded # Absent
          BY <2>4, SecretUsageControllerAssumption
        <4> QED
          BY <2>2, <2>4, <3>2, <4>1 DEF LateOK, WorkerStates, Steps
      <3> QED
        BY <2>1, <3>1, <3>2
    <2>6. UNCHANGED <<secretCache, specCache, usageCache, notify, dirty, backoff, gauge, fresh>>
      BY <1>4 DEF Earlier!PatchLabels, Earlier!cacheVars
    <2> QED
      BY <1>0, <2>1, <2>2, <2>3, <2>5, <2>6 DEF LateEffect
  <1>5. CASE Earlier!PatchStatus(TRUE)
    <2> DEFINE live   == usages[late.key]
               status == patchedStatus(late.current.status, Earlier!DesiredStatus, live.status)
               object == published(live.labels, status)
    <2>1. late.pc = "status" /\ live # Absent /\ Store(late.key, object) /\ late' = Idle
      BY <1>5, EarlierOperators DEF Earlier!PatchStatus, Earlier!Accepted, Earlier!Done
    <2>2. late.key \in Secrets /\ live \in Objects /\ late.current \in Objects
      BY <2>1 DEF LateOK, TypeOK, WorkerStates
    <2>3. object \in Objects
      <3>1. status \in Statuses
        BY <2>2, LateDesires, PatchedStatusType DEF Objects
      <3> QED
        BY <2>2, <3>1 DEF published, Objects
    <2> HIDE DEF object
    <2>4. LateOK'
      BY <2>1, LateReturn
    <2>5. UNCHANGED <<secretCache, specCache, usageCache, notify, dirty, backoff, gauge, fresh>>
      BY <1>5 DEF Earlier!PatchStatus, Earlier!Done, Earlier!cacheVars
    <2> QED
      BY <1>0, <2>1, <2>2, <2>3, <2>4, <2>5 DEF LateEffect
  <1> QED
    BY <1>1, <1>2, <1>3, <1>4, <1>5 DEF LateCall

\* To the successor, such a call is what a user's deletion is: a change of one object
\* that its informer will tell of.
LEMMA LateCallSound ==
  ASSUME Sound, LateEffect
  PROVE  Sound'
  <1> USE DEF cacheVars, queueVars
  <1>1. PICK s \in Secrets, object \in Objects \cup {Absent} : Store(s, object)
    BY DEF LateEffect
  <1>2. UNCHANGED <<worker, secretCache, specCache, usageCache, notify, dirty, backoff, gauge, fresh>>
    BY DEF LateEffect
  <1>3. TypeOK' /\ WorkerOK'
    BY <1>1, <1>2, StoreType DEF Sound, TypeOK, WorkerOK
  <1>4. OutsideFrame
    BY <1>2 DEF OutsideFrame, SameReads, cachedUsages, Pending
  <1>5. GaugeCore'
    BY <1>4, OutsideSteps DEF Sound, OutsideFrame
  <1>6. WatchEnds' /\ \A k \in Secrets : Flat(k)' => Flat(k)
    BY <1>1, <1>2, StoredWatch DEF Sound, PresenceInvariant
  <1>7. \A k \in Secrets : Calm(k)
    BY <1>2, <1>6 DEF Calm
  <1>8. PresenceInvariant'
    BY <1>4, <1>6, <1>7, OutsidePresence DEF Sound
  <1> QED
    BY <1>3, <1>5, <1>8 DEF Sound

-----------------------------------------------------------------------------
(* The successor.                                                          *)

\* It starts with every key queued that its caches have something to say about, and
\* every key that has an object, whichever leader stored it.
LEMMA FailoverSound ==
  ASSUME Sound, StandbyTypeOK, Failover
  PROVE  Sound'
  <1> USE DEF liveVars
  <1>1. /\ worker' = Idle /\ gauge' = [s \in Secrets |-> Absent]
        /\ usageWatch' = NoEvents(Secrets) /\ usageCache' = usages /\ usages' = usages
        /\ secretCache' = secrets /\ specCache' = standbyCache
        /\ dirty' = {s \in Secrets : announced(s)}
    BY DEF Failover
  <1>2. TypeOK'
    BY IdleType DEF Sound, TypeOK, StandbyTypeOK, Failover, NoEvents
  <1>3. WorkerOK' /\ ReadsCurrent' /\ GaugeRecorded' /\ NoGaugeUnlessEnabled'
    BY <1>1 DEF WorkerOK, ReadsCurrent, GaugeRecorded, NoGaugeUnlessEnabled, Idle
  <1>4. WatchEnds' /\ PresenceInReconcile'
    BY <1>1 DEF WatchEnds, EndsAt, NoEvents, PresenceInReconcile, Idle
  <1>5. ASSUME NEW s \in Secrets, s \notin dirty'
        PROVE  usages[s] = Absent /\ ~described(s)' /\ wantedSeries(s)' = Absent
    <2>1. ~secrets[s] /\ usages[s] = Absent /\ \A c \in Consumers : s \notin standbyCache[c]
      BY <1>1, <1>5 DEF announced
    <2>2. secretCache'[s] = FALSE /\ cachedUsages(s, NumKinds)' = {}
      BY <1>1, <2>1 DEF cachedUsages, Sound, TypeOK
    <2> QED
      BY <2>1, <2>2 DEF described, wantedSeries, tracked
  <1>6. GaugesSettled' /\ PresenceAtRest'
    BY <1>1, <1>5 DEF GaugesSettled, PresenceAtRest, Settled, Pending
  <1> QED
    BY <1>2, <1>3, <1>4, <1>6 DEF Sound, GaugeCore, PresenceInvariant

FailoverInv == Sound /\ LateOK /\ StandbyTypeOK

LEMMA InitFailover == FailoverInit => FailoverInv
  <1> SUFFICES ASSUME FailoverInit PROVE FailoverInv
    OBVIOUS
  <1>1. Sound
    BY InitSound DEF FailoverInit
  <1>2. LateOK
    BY IdleType DEF FailoverInit, LateOK, Idle
  <1>3. StandbyTypeOK
    BY <1>1 DEF FailoverInit, StandbyTypeOK, Sound, TypeOK, NoEvents
  <1> QED
    BY <1>1, <1>2, <1>3 DEF FailoverInv

LEMMA NextFailover ==
  ASSUME FailoverInv, [FailoverNext]_failoverVars
  PROVE  FailoverInv'
  <1> USE DEF FailoverInv, standbyVars
  <1>1. ASSUME UNCHANGED vars PROVE Sound'
    BY <1>1, NextSound
  <1>2. CASE Leads
    <2>1. NextInOrder /\ Announce /\ UNCHANGED <<late, standbyCache>>
      BY <1>2 DEF Leads, NextInOrder
    <2>2. Sound'
      BY <2>1, NextSound
    <2>3. LateOK'
      BY <2>1 DEF LateOK
    <2>4. StandbyTypeOK'
      <3>1. ASSUME NEW c \in Consumers
            PROVE  Append(standbyWatch[c], specs'[c]) \in Seq(SUBSET Secrets)
        <4>1. standbyWatch[c] \in Seq(SUBSET Secrets) /\ specs'[c] \in SUBSET Secrets
          BY <2>2 DEF StandbyTypeOK, Sound, TypeOK
        <4> QED
          BY <4>1, AppendProperties
      <3> QED
        BY <2>1, <3>1 DEF StandbyTypeOK, Announce
    <2> QED
      BY <2>2, <2>3, <2>4
  <1>3. ASSUME NEW c \in Consumers, StandbyObserves(c) PROVE FailoverInv'
    <2>1. /\ standbyWatch[c] \in Seq(SUBSET Secrets) /\ standbyWatch[c] # <<>>
          /\ standbyCache' = [standbyCache EXCEPT ![c] = Head(standbyWatch[c])]
          /\ standbyWatch' = [standbyWatch EXCEPT ![c] = Tail(@)]
          /\ UNCHANGED <<vars, late>>
      BY <1>3 DEF StandbyObserves, StandbyTypeOK
    <2>2. Head(standbyWatch[c]) \in SUBSET Secrets /\ Tail(standbyWatch[c]) \in Seq(SUBSET Secrets)
      BY <2>1, HeadTailProperties
    <2> QED
      BY <1>1, <2>1, <2>2 DEF StandbyTypeOK, LateOK
  <1>4. CASE Failover
    <2>1. Sound'
      BY <1>4, FailoverSound
    <2>2. LateOK'
      <3>1. CASE worker.pc \in Writing
        <4>1. late' = worker
          BY <1>4, <3>1 DEF Failover
        <4> QED
          BY <4>1 DEF LateOK, Sound, TypeOK, WorkerOK
      <3>2. CASE worker.pc \notin Writing
        BY <1>4, <3>2, LateReturn DEF Failover
      <3> QED
        BY <3>1, <3>2
    <2>3. StandbyTypeOK'
      BY <1>4 DEF Failover, StandbyTypeOK, Sound, TypeOK, NoEvents
    <2> QED
      BY <2>1, <2>2, <2>3
  <1>5. CASE LateCall
    <2>1. LateEffect
      BY <1>5, LateCalls DEF Sound
    <2>2. Sound' /\ LateOK'
      BY <2>1, LateCallSound DEF LateEffect
    <2>3. StandbyTypeOK'
      BY <1>5 DEF LateCall, StandbyTypeOK
    <2> QED
      BY <2>2, <2>3
  <1>6. CASE LateGone
    <2>1. late' = Idle /\ UNCHANGED <<vars, standbyVars>>
      BY <1>6 DEF LateGone
    <2> QED
      BY <1>1, <2>1, LateReturn DEF StandbyTypeOK
  <1>7. CASE UNCHANGED failoverVars
    <2>1. UNCHANGED <<vars, late, standbyCache, standbyWatch>>
      BY <1>7 DEF failoverVars
    <2> QED
      BY <1>1, <2>1 DEF LateOK, StandbyTypeOK
  <1> QED
    BY <1>2, <1>3, <1>4, <1>5, <1>6, <1>7 DEF FailoverNext

-----------------------------------------------------------------------------
(* The index two processes write.                                          *)

\* A late call that changes anything makes its key stale.
LEMMA LateCallMeddles ==
  ASSUME Sound, Sound', Index!TypeOK', LateEffect
  PROVE  [Index!SharedNext]_(Index!vars)
  <1> USE DEF cacheVars, queueVars
  <1>0. TypeOK
    BY DEF Sound
  <1>1. PICK s \in Secrets, object \in Objects \cup {Absent} : Store(s, object)
    BY DEF LateEffect
  <1>2. UNCHANGED <<worker, secretCache, specCache, notify, dirty, backoff, gauge>>
    BY DEF LateEffect
  <1>3. UNCHANGED viewOf
    BY <1>2 DEF viewOf, wantedSeries, described, cachedUsages
  <1>4. /\ \A k \in Secrets : k # s => usages'[k] = usages[k] /\ usageWatch'[k] = usageWatch[k]
        /\ usages'[s] = object
        /\ usageWatch'[s] = IF object = usages[s] THEN usageWatch[s]
                            ELSE Append(usageWatch[s], object)
    BY <1>0, <1>1 DEF Store, TypeOK
  <1>5. \A k \in Secrets : Settled(k)' <=> Settled(k)
    BY <1>2 DEF Settled, Pending
  <1>6. CASE object = usages[s]
    <2>1. staleKeys' = staleKeys
      BY <1>4, <1>5, <1>6 DEF staleKeys, Quiet
    <2>2. hasUsage' = hasUsage
      BY <1>4, <1>6 DEF hasUsage
    <2> QED
      BY <1>2, <1>3, <2>1, <2>2 DEF Index!vars
  <1>7. CASE object # usages[s]
    <2> DEFINE Stored == Objects \cup {Absent}
    <2>1. usageWatch[s] \in Seq(Stored) /\ object \in Stored
      BY <1>0 DEF TypeOK
    <2> HIDE DEF Stored
    <2>2. usageWatch'[s] # <<>>
      BY <1>4, <1>7, <2>1, AppendedWatch
    <2>3. staleKeys' = staleKeys \cup {s}
      BY <1>4, <1>5, <2>2 DEF staleKeys, Quiet
    <2>4. Index!OnlyChangesAt(hasUsage, {s})
      BY <1>4 DEF Index!OnlyChangesAt, hasUsage
    <2>5. Index!Meddle(s)
      BY <1>2, <1>3, <2>3, <2>4 DEF Index!Meddle
    <2> QED
      BY <1>0, <2>5 DEF Index!SharedNext
  <1> QED
    BY <1>6, <1>7

\* Every step of the two replicas is one of the index.
LEMMA FailoverSimulates ==
  ASSUME FailoverInv, FailoverInv', Index!TypeOK', Index!Correct',
         [FailoverNext]_failoverVars
  PROVE  [Index!SharedNext]_(Index!vars)
  <1>0. Sound /\ Sound' /\ TypeOK /\ LateOK
    BY DEF FailoverInv, Sound
  <1>1. ASSUME [NextInOrder]_vars PROVE [Index!SharedNext]_(Index!vars)
    BY <1>0, <1>1, NextSimulates DEF Index!SharedNext
  <1>2. CASE Failover
    <2>1. gauge' = [s \in Secrets |-> Absent] /\ UNCHANGED hasUsage
      BY <1>2 DEF Failover, liveVars, hasUsage
    <2>2. Index!Restart
      BY <1>0, <2>1 DEF Index!Restart
    <2> QED
      BY <1>0, <2>2 DEF Index!Next, Index!SharedNext
  <1>3. CASE LateCall
    BY <1>0, <1>3, LateCalls, LateCallMeddles
  <1>4. CASE Leads
    BY <1>1, <1>4 DEF Leads, NextInOrder
  <1>5. ASSUME UNCHANGED vars PROVE [Index!SharedNext]_(Index!vars)
    BY <1>1, <1>5
  <1> QED
    BY <1>2, <1>3, <1>4, <1>5 DEF FailoverNext, StandbyObserves, LateGone, failoverVars

-----------------------------------------------------------------------------
(* Theorems.                                                               *)

\* A quiet key has a SecretUsage object exactly if there is something to describe,
\* whoever leads, whatever the standby had seen when it took over, and whenever the
\* last calls of the earlier leader take effect.
THEOREM FailoverLeavesNoOrphans == FailoverSpec => []PresenceSettled
  <1>1. FailoverInv => PresenceSettled
    BY QuietPresence DEF FailoverInv, Sound, PresenceSettled
  <1> QED
    BY InitFailover, NextFailover, <1>1, PTL DEF FailoverSpec

\* A successor's series are right too once it has nothing more to do for a key, although
\* it starts with none and from caches that may lag behind.
THEOREM FailoverKeepsGauges == FailoverSpec => []GaugesSettled
  <1>1. FailoverInv => GaugesSettled
    BY DEF FailoverInv, Sound, GaugeCore
  <1> QED
    BY InitFailover, NextFailover, <1>1, PTL DEF FailoverSpec

\* Two replicas implement the index that somebody else may write to: the leader writes
\* stale keys only, and none stops being stale before its series and its object are right.
THEOREM FailoverIsAnIndex == FailoverSpec => FailoverImplementsIndex
  <1>1. FailoverInv => Index!TypeOK /\ Index!Correct
    BY SoundIndex DEF FailoverInv
  <1>2. Index!TypeOK /\ Index!Correct => Index!Init
    BY DEF Index!Init
  <1>3. FailoverInv /\ FailoverInv' /\ (Index!TypeOK /\ Index!Correct)'
            /\ [FailoverNext]_failoverVars
          => [Index!SharedNext]_(Index!vars)
    BY FailoverSimulates
  <1> QED
    BY InitFailover, NextFailover, <1>1, <1>2, <1>3, PTL
       DEF FailoverSpec, FailoverImplementsIndex, Index!SharedSpec
=============================================================================
