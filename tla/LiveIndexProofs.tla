--------------------------- MODULE LiveIndexProofs ---------------------------
(***************************************************************************)
(* The controller implements LiveIndex: its initial states are initial     *)
(* states of the index, and each of its steps is a step of the index or    *)
(* changes nothing there.  Events of SecretUsage are seen in order here,   *)
(* as in the proofs this one rests on; RelistProofs has relists of them.   *)
(***************************************************************************)
EXTENDS SecretUsageObjectProofs

-----------------------------------------------------------------------------
(* States.                                                                 *)

\* What the index calls for and holds is well-formed, and right where it is not stale.
LEMMA SoundIndex ==
  ASSUME Sound
  PROVE  Index!TypeOK /\ Index!Correct
  <1>1. \A s \in Secrets : wantedSeries(s) \in Series \cup {Absent} /\ described(s) \in BOOLEAN
    <2>1. \A s \in Secrets : /\ secretCache[s] \in BOOLEAN
                             /\ cachedUsages(s, NumKinds) \in SUBSET Consumers
      BY DEF Sound, TypeOK, cachedUsages
    <2> QED
      BY <2>1, SeriesType, UsageObjectAssumption DEF wantedSeries, described, tracked
  <1>2. Index!TypeOK
    <2>1. viewOf \in [Secrets -> Index!Views]
      BY <1>1 DEF viewOf, Index!Views
    <2> QED
      BY <2>1 DEF Sound, TypeOK, Index!TypeOK, hasUsage, staleKeys
  <1>3. Index!Correct
    <2> SUFFICES ASSUME NEW s \in Secrets, Quiet(s)
                 PROVE  wantedSeries(s) = gauge[s] /\ described(s) = (usages[s] # Absent)
      BY DEF Index!Correct, Index!Right, viewOf, hasUsage, staleKeys
    <2>1. gauge[s] = wantedSeries(s)
      BY DEF Sound, GaugeCore, GaugesSettled, Quiet
    <2>2. usages[s] # Absent <=> described(s)
      BY QuietPresence DEF Sound
    <2> QED
      BY <1>1, <2>1, <2>2
  <1> QED
    BY <1>2, <1>3

-----------------------------------------------------------------------------
(* Steps.                                                                  *)

\* A step that moves no view and writes nothing, and after which at most one stale key
\* is not stale any more.
LEMMA SettlesOrStutters ==
  ASSUME Index!TypeOK', Index!Correct', UNCHANGED <<viewOf, gauge, hasUsage>>,
         NEW s \in Secrets, s \in staleKeys, staleKeys' \in {staleKeys, staleKeys \ {s}}
  PROVE  [Index!Next]_(Index!vars)
  <1>1. CASE staleKeys' = staleKeys
    BY <1>1 DEF Index!vars
  <1>2. CASE staleKeys' = staleKeys \ {s}
    <2>1. Index!Right(s)'
      BY <1>2 DEF Index!Correct
    <2>2. Index!Settle(s)
      BY <1>2, <2>1 DEF Index!Settle, Index!OnlyChangesAt
    <2> QED
      BY <2>2 DEF Index!Next
  <1> QED
    BY <1>1, <1>2

\* A step of a reconcile writes about its own key only, and the step after which the
\* key is quiet does not touch the object: a write leaves an event to be seen.
LEMMA WorkerSimulates ==
  ASSUME TypeOK, WorkerOK, TypeOK', Index!TypeOK', Index!Correct', worker.pc # "idle",
         NEW key \in Secrets, worker.key = key,
         UNCHANGED <<secretCache, specCache, notify, dirty>>,
         backoff' \in {backoff, backoff \cup {key}},
         worker'.key \in {key, Absent},
         \A s \in Secrets : s # key => gauge'[s] = gauge[s],
         UNCHANGED <<usages, usageWatch>> \/ \E object : Store(key, object)
  PROVE  [Index!Next]_(Index!vars)
  <1>1. UNCHANGED viewOf
    BY DEF viewOf, wantedSeries, described, cachedUsages
  <1>2. /\ \A s \in Secrets : s # key => usages'[s] = usages[s] /\ usageWatch'[s] = usageWatch[s]
        /\ usageWatch'[key] = <<>> => usages'[key] = usages[key]
    <2>1. CASE UNCHANGED <<usages, usageWatch>>
      BY <2>1
    <2>2. ASSUME NEW object, Store(key, object)
          PROVE  /\ \A s \in Secrets : s # key => /\ usages'[s] = usages[s]
                                                  /\ usageWatch'[s] = usageWatch[s]
                 /\ usageWatch'[key] = <<>> => usages'[key] = usages[key]
      <3>1. /\ usageWatch[key] \in Seq(Objects \cup {Absent})
            /\ usages'[key] = object
            /\ usageWatch'[key] = IF object = usages[key] THEN usageWatch[key]
                                  ELSE Append(usageWatch[key], object)
        BY <2>2 DEF Store, TypeOK
      <3>2. object \in Objects \cup {Absent}
        BY <3>1 DEF TypeOK
      <3>3. Append(usageWatch[key], object) # <<>>
        <4> DEFINE Stored == Objects \cup {Absent}
        <4>1. usageWatch[key] \in Seq(Stored) /\ object \in Stored
          BY <3>1, <3>2
        <4> HIDE DEF Stored
        <4> QED
          BY <4>1, AppendedWatch
      <3> QED
        BY <2>2, <3>1, <3>3 DEF Store, TypeOK
    <2> QED
      BY <2>1, <2>2
  <1>3. /\ key \in staleKeys
        /\ \A s \in Secrets : s # key => (s \in staleKeys' <=> s \in staleKeys)
        /\ key \notin staleKeys' => UNCHANGED hasUsage
    <2>1. key \in staleKeys
      BY DEF staleKeys, Quiet, Settled
    <2>2. ASSUME NEW s \in Secrets, s # key PROVE Quiet(s)' <=> Quiet(s)
      BY <1>2, <2>2, SecretUsageControllerAssumption DEF Quiet, Settled, Pending
    <2>3. key \notin staleKeys' => UNCHANGED hasUsage
      BY <1>2 DEF staleKeys, Quiet, hasUsage
    <2> QED
      BY <2>1, <2>2, <2>3 DEF staleKeys
  <1>4. /\ Index!OnlyChangesAt(gauge, {key})
        /\ Index!OnlyChangesAt(hasUsage, {key})
    BY <1>2 DEF Index!OnlyChangesAt, hasUsage
  <1>5. CASE key \in staleKeys'
    <2>1. staleKeys' = staleKeys
      BY <1>3, <1>5 DEF staleKeys
    <2>2. Index!Write(key)
      BY <1>1, <1>3, <1>4, <2>1 DEF Index!Write
    <2> QED
      BY <2>2 DEF Index!Next
  <1>6. CASE key \notin staleKeys'
    <2>1. staleKeys' = staleKeys \ {key}
      BY <1>3, <1>6 DEF staleKeys
    <2>2. Index!Right(key)'
      BY <1>6 DEF Index!Correct
    <2>3. Index!Settle(key)
      BY <1>1, <1>3, <1>4, <1>6, <2>1, <2>2 DEF Index!Settle
    <2> QED
      BY <2>3 DEF Index!Next
  <1> QED
    BY <1>5, <1>6

\* The informer of SecretUsage moves on: at most the key of its event stops being stale.
LEMMA ObserveSimulates ==
  ASSUME TypeOK, Index!TypeOK', Index!Correct', NEW s \in Secrets, NEW n, ObserveUsage(s, n)
  PROVE  [Index!Next]_(Index!vars)
  <1>1. /\ UNCHANGED <<usages, secretCache, specCache, gauge, dirty, backoff, worker>>
        /\ n \in 1..Len(usageWatch[s])
        /\ usageWatch' = [usageWatch EXCEPT ![s] = Drop(@, n)]
        /\ enqueueOwnKey(s, usageCache[s], usageWatch[s][n])
    BY DEF ObserveUsage, liveVars
  <1>2. s \in staleKeys
    <2>1. Len(<<>>) = 0
      BY EmptySeq
    <2> QED
      BY <1>1, <2>1 DEF staleKeys, Quiet
  <1>3. \A k \in Secrets : k # s => notify'[k] = notify[k] /\ usageWatch'[k] = usageWatch[k]
    <2> DEFINE added == IF (usageCache[s] = Absent) # (usageWatch[s][n] = Absent) THEN {s} ELSE {}
    <2>1. Notify({}, added) /\ \A k \in Secrets : k # s => k \notin added
      BY <1>1 DEF enqueueOwnKey
    <2>2. \A k \in Secrets : k # s => usageWatch'[k] = usageWatch[k]
      BY <1>1 DEF TypeOK
    <2>3. notify \in [Secrets -> Nat]
      BY DEF TypeOK
    <2> HIDE DEF added
    <2> QED
      BY <2>1, <2>2, <2>3, NotifyAdds
  <1>4. staleKeys' \in {staleKeys, staleKeys \ {s}}
    <2>1. \A k \in Secrets : k # s => (Quiet(k)' <=> Quiet(k))
      BY <1>1, <1>3 DEF Quiet, Settled, Pending
    <2> QED
      BY <1>2, <2>1 DEF staleKeys
  <1>5. UNCHANGED <<viewOf, gauge, hasUsage>>
    BY <1>1 DEF hasUsage, viewOf, wantedSeries, described, cachedUsages
  <1> QED
    BY <1>2, <1>4, <1>5, SettlesOrStutters

\* Every step in order is one of the index.
LEMMA NextSimulates ==
  ASSUME Sound, Sound', Index!TypeOK', Index!Correct', [NextInOrder]_vars
  PROVE  [Index!Next]_(Index!vars)
  <1> USE DEF vars, liveVars, watchVars, cacheVars, queueVars
  <1>0. TypeOK /\ WorkerOK /\ TypeOK'
    BY DEF Sound
  <1>1. ASSUME UNCHANGED <<secretCache, specCache>> PROVE UNCHANGED viewOf
    BY <1>1 DEF viewOf, wantedSeries, described, cachedUsages
  <1>2. CASE Outside /\ UNCHANGED <<usages, usageWatch, usageCache>>
    <2>1. OutsideFrame
      BY <1>0, <1>2, OutsideFrames
    <2>2. staleKeys' = staleKeys \cup staleKeys'
      BY <1>2, <2>1 DEF staleKeys, Quiet, Settled, OutsideFrame
    <2>3. Index!OnlyChangesAt(viewOf, staleKeys')
      <3> SUFFICES ASSUME NEW s \in Secrets, Quiet(s)'
                   PROVE  wantedSeries(s)' = wantedSeries(s) /\ described(s)' = described(s)
        BY DEF Index!OnlyChangesAt, viewOf, staleKeys
      <3>1. SameReads(s) /\ NumKinds \in 0..NumKinds
        BY <2>1, SecretUsageControllerAssumption DEF OutsideFrame, Quiet, Settled
      <3> QED
        BY <3>1 DEF SameReads, wantedSeries, described
    <2>4. UNCHANGED <<gauge, hasUsage>>
      BY <1>2, <2>1 DEF OutsideFrame, hasUsage
    <2>5. PICK K \in SUBSET Secrets : K = staleKeys'
      BY DEF staleKeys
    <2>6. Index!ViewMoves(K)
      BY <2>2, <2>3, <2>4, <2>5 DEF Index!ViewMoves, Index!OnlyChangesAt
    <2> QED
      BY <2>6 DEF Index!Next
  <1>3. ASSUME NEW s \in Secrets, UserDeletesUsage(s) PROVE [Index!Next]_(Index!vars)
    <2>1. /\ usages' = [usages EXCEPT ![s] = Absent]
          /\ usageWatch' = [usageWatch EXCEPT ![s] = Append(@, Absent)]
          /\ UNCHANGED <<secretCache, specCache, gauge, notify, dirty, backoff, worker>>
      BY <1>3 DEF UserDeletesUsage, Store
    <2>2. usageWatch'[s] # <<>>
      <3> DEFINE Stored == Objects \cup {Absent}
      <3>1. usageWatch[s] \in Seq(Stored) /\ Absent \in Stored
        BY <1>0 DEF TypeOK
      <3>2. usageWatch'[s] = Append(usageWatch[s], Absent)
        BY <1>0, <2>1 DEF TypeOK
      <3> HIDE DEF Stored
      <3> QED
        BY <3>1, <3>2, AppendedWatch
    <2>3. staleKeys' = staleKeys \cup {s}
      <3>1. \A k \in Secrets : k # s => usageWatch'[k] = usageWatch[k]
        BY <1>0, <2>1 DEF TypeOK
      <3>2. \A k \in Secrets : Settled(k)' <=> Settled(k)
        BY <2>1 DEF Settled, Pending
      <3> QED
        BY <2>2, <3>1, <3>2 DEF staleKeys, Quiet
    <2>4. hasUsage' = [hasUsage EXCEPT ![s] = FALSE]
      BY <1>0, <2>1 DEF hasUsage, TypeOK
    <2>5. Index!Disturb(s)
      BY <1>1, <2>1, <2>3, <2>4 DEF Index!Disturb
    <2> QED
      BY <2>5 DEF Index!Next
  <1>4. ASSUME NEW s \in Secrets, ObserveUsage(s, 1) PROVE [Index!Next]_(Index!vars)
    BY <1>0, <1>4, ObserveSimulates
  <1>5. ASSUME NEW s \in Secrets, secretExists(s) PROVE [Index!Next]_(Index!vars)
    <2>1. /\ UNCHANGED <<usages, usageWatch, secretCache, specCache, gauge, notify, backoff>>
          /\ s \in dirty /\ dirty' = dirty \ {s}
          /\ worker.key = Absent /\ worker'.key = s
      BY <1>5 DEF secretExists, Idle
    <2>2. staleKeys' = staleKeys
      BY <2>1, SecretUsageControllerAssumption DEF staleKeys, Quiet, Settled, Pending
    <2> QED
      BY <1>1, <2>1, <2>2 DEF Index!vars, hasUsage
  <1>6. ASSUME worker.pc # "idle"
        PROVE  worker.key \in Secrets /\ worker \in WorkerStates
    BY <1>0, <1>6 DEF WorkerOK, TypeOK
  <1>7. CASE collectUsages
    <2>1. worker.pc = "list" /\ UNCHANGED <<usages, usageWatch, cacheVars, queueVars, gauge>>
      BY <1>7 DEF collectUsages
    <2>2. worker'.key = worker.key
      BY <1>6, <1>7, <2>1 DEF collectUsages, WorkerStates
    <2>3. staleKeys' = staleKeys
      BY <2>1, <2>2 DEF staleKeys, Quiet, Settled, Pending
    <2> QED
      BY <1>1, <2>1, <2>3 DEF Index!vars, hasUsage
  <1>8. CASE \/ Forget \/ Get \/ Rejected \/ CallFails
             \/ \E received \in BOOLEAN :
                  \/ Delete(received) \/ Create(received) \/ Publish(received)
                  \/ PatchLabels(received) \/ PatchStatus(received)
    <2>1. worker.pc # "idle"
      BY <1>0, <1>8 DEF WorkerOK, Forget, Get, Rejected, CallFails, Delete, Create, Publish,
                        PatchLabels, PatchStatus
    <2>2. PICK key \in Secrets : key = worker.key
      BY <1>6, <2>1
    <2>3. /\ UNCHANGED <<secretCache, specCache, notify, dirty>>
          /\ backoff' \in {backoff, backoff \cup {key}}
      BY <1>8, <2>2 DEF Forget, Get, Rejected, CallFails, Delete, Create, Publish,
                        PatchLabels, PatchStatus, Done, Fail, Key
    <2>4. worker'.key \in {key, Absent}
      <3>1. \/ worker' = Idle
            \/ \E step : worker' = [worker EXCEPT !.pc = step]
            \/ \E step, object : worker' = [worker EXCEPT !.pc = step, !.current = object]
        <4>1. CASE Forget \/ Rejected \/ CallFails
          BY <4>1 DEF Forget, Rejected, CallFails, Done, Fail
        <4>2. CASE Get
          BY <4>2 DEF Get, PatchStatusNext
        <4>3. ASSUME NEW received \in BOOLEAN,
                     Delete(received) \/ Create(received) \/ Publish(received)
                       \/ PatchLabels(received) \/ PatchStatus(received)
              PROVE  \/ worker' = Idle
                     \/ \E step : worker' = [worker EXCEPT !.pc = step]
                     \/ \E step, object : worker' = [worker EXCEPT !.pc = step, !.current = object]
          BY <4>3 DEF Delete, Create, Publish, PatchLabels, PatchStatus, PatchStatusNext, Done, Fail
        <4> QED
          BY <1>8, <4>1, <4>2, <4>3
      <3>2. \A step, object : /\ [worker EXCEPT !.pc = step].key = key
                              /\ [worker EXCEPT !.pc = step, !.current = object].key = key
        BY <1>6, <2>1, <2>2 DEF WorkerStates
      <3>3. Idle.key = Absent
        BY DEF Idle
      <3>4. CASE worker' = Idle
        BY <3>3, <3>4
      <3>5. ASSUME NEW step, worker' = [worker EXCEPT !.pc = step] PROVE worker'.key = key
        BY <3>2, <3>5
      <3>6. ASSUME NEW step, NEW object,
                   worker' = [worker EXCEPT !.pc = step, !.current = object]
            PROVE  worker'.key = key
        BY <3>2, <3>6
      <3> QED
        BY <3>1, <3>4, <3>5, <3>6
    <2>5. recordSecretMetrics \/ clearSecretMetrics \/ UNCHANGED gauge
      BY <1>8 DEF Forget, Get, Rejected, CallFails, Delete, Create, Publish, PatchLabels, PatchStatus
    <2>6. \A s \in Secrets : s # key => gauge'[s] = gauge[s]
      BY <1>0, <2>2, <2>5, GaugeOfKeyOnly DEF Sound, GaugeCore, Key
    <2>7. UNCHANGED <<usages, usageWatch>> \/ \E object : Store(key, object)
      BY <1>8, <2>2 DEF Forget, Get, Rejected, CallFails, Delete, Create, Publish, PatchLabels,
                        PatchStatus, Key
    <2> QED
      BY <1>0, <2>1, <2>2, <2>3, <2>4, <2>6, <2>7, WorkerSimulates
  <1>9. CASE Restart
    <2>1. gauge' = [s \in Secrets |-> Absent] /\ UNCHANGED hasUsage
      BY <1>9 DEF Restart, hasUsage
    <2>2. Index!Restart
      BY <2>1 DEF Index!Restart
    <2> QED
      BY <2>2 DEF Index!Next
  <1>10. CASE UNCHANGED vars
    <2>1. staleKeys' = staleKeys
      BY <1>10 DEF staleKeys, Quiet, Settled, Pending
    <2> QED
      BY <1>1, <1>10, <2>1 DEF Index!vars, hasUsage
  <1> QED
    BY <1>2, <1>3, <1>4, <1>5, <1>7, <1>8, <1>9, <1>10, InOrderCases
       DEF OutsideInOrder, WorkerStep

\* The controller implements the index: only stale keys are written, a key whose view
\* moved or whose object was touched is stale, and none stops being stale before its
\* series and its object are right.
THEOREM ControllerImplementsIndex == SpecInOrder => ImplementsIndex
  <1>1. Sound => Index!TypeOK /\ Index!Correct
    BY SoundIndex
  <1>2. Index!TypeOK /\ Index!Correct => Index!Init
    BY DEF Index!Init
  <1>3. Sound /\ [NextInOrder]_vars => Sound'
    BY NextSound
  <1>4. Sound /\ Sound' /\ (Index!TypeOK /\ Index!Correct)' /\ [NextInOrder]_vars
          => [Index!Next]_(Index!vars)
    BY NextSimulates
  <1> QED
    BY InitSound, <1>1, <1>2, <1>3, <1>4, PTL DEF SpecInOrder, ImplementsIndex, Index!Spec
=============================================================================
