---------------------------- MODULE RelistProofs ----------------------------
(***************************************************************************)
(* Proofs about SecretUsageController with interrupted watches of          *)
(* SecretUsage, for SpecUndisturbed, in which only the controller removes  *)
(* its objects.  A relist jumps over events without their handlers being   *)
(* called.  It hides nothing all the same: the controller removes what its *)
(* cache shows and creates what its cache does not show, so the events it  *)
(* has not seen never tell of both.                                        *)
(***************************************************************************)
EXTENDS LiveIndexProofs

-----------------------------------------------------------------------------
(* Watches.                                                                *)

\* After a relist: the watch is shorter, still ends at the object and changes once, and
\* if the object neither came nor went in the cache, no event it skipped said so.
LEMMA RelistedWatch ==
  ASSUME NEW S, NEW watch \in Seq(S), NEW live, NEW cache, NEW n \in 1..Len(watch),
         EndsAt(live, cache, watch), ChangesOnce(cache, watch)
  PROVE  /\ EndsAt(live, watch[n], Drop(watch, n))
         /\ ChangesOnce(watch[n], Drop(watch, n))
         /\ (watch[n] = Absent <=> cache = Absent)
              => (FlatFrom(watch[n], Drop(watch, n)) => FlatFrom(cache, watch))
  <1> DEFINE rest == Drop(watch, n)
  <1>1. Len(watch) \in Nat /\ n \in Nat /\ 1 <= n /\ n <= Len(watch) /\ watch # <<>>
    BY LenProperties, EmptySeq
  <1>2. /\ rest \in Seq(S) /\ Len(rest) = Len(watch) - n
        /\ \A i \in 1..(Len(watch) - n) : rest[i] = watch[i + n]
    <2>1. \A i \in (n + 1)..Len(watch) : watch[i] \in S
      BY <1>1, ElementOfSeq
    <2>2. rest = SubSeq(watch, n + 1, Len(watch))
      BY DEF Drop
    <2>3. /\ SubSeq(watch, n + 1, Len(watch)) \in Seq(S)
          /\ Len(SubSeq(watch, n + 1, Len(watch)))
               = IF n + 1 <= Len(watch) THEN Len(watch) - (n + 1) + 1 ELSE 0
          /\ \A i \in 1..(Len(watch) - (n + 1) + 1) :
               SubSeq(watch, n + 1, Len(watch))[i] = watch[(n + 1) + i - 1]
      BY <1>1, <2>1, SubSeqProperties
    <2>4. /\ Len(watch) - (n + 1) + 1 = Len(watch) - n
          /\ (IF n + 1 <= Len(watch) THEN Len(watch) - (n + 1) + 1 ELSE 0) = Len(watch) - n
          /\ \A i \in 1..(Len(watch) - n) : (n + 1) + i - 1 = i + n
      BY <1>1
    <2> HIDE DEF rest
    <2> QED
      BY <2>2, <2>3, <2>4
  <1> HIDE DEF rest
  <1>3. EndsAt(live, watch[n], rest)
    <2>1. CASE n = Len(watch)
      <3>1. rest = <<>>
        BY <1>1, <1>2, <2>1, EmptySeq
      <3> QED
        BY <1>1, <2>1, <3>1 DEF EndsAt
    <2>2. CASE n < Len(watch)
      <3>1. Len(watch) - n \in 1..(Len(watch) - n) /\ (Len(watch) - n) + n = Len(watch)
        BY <1>1, <2>2
      <3>2. rest[Len(rest)] = watch[Len(watch)] /\ rest # <<>>
        BY <1>2, <3>1, EmptySeq
      <3> QED
        BY <1>1, <3>2 DEF EndsAt
    <2> QED
      BY <1>1, <2>1, <2>2
  <1>4. \A i \in 1..Len(rest) : i + n \in 1..Len(watch) /\ rest[i] = watch[i + n] /\ n <= i + n
    BY <1>1, <1>2
  <1>5. ChangesOnce(watch[n], rest)
    <2> SUFFICES ASSUME NEW i \in 1..Len(rest), NEW j \in 1..Len(rest), i <= j,
                        (rest[i] = Absent) # (watch[n] = Absent)
                 PROVE  (rest[j] = Absent) # (watch[n] = Absent)
      BY DEF ChangesOnce
    <2>1. i + n <= j + n
      BY <1>1, <1>2
    <2>2. \A k, l \in 1..Len(watch) :
            k <= l /\ (watch[k] = Absent) # (cache = Absent)
              => (watch[l] = Absent) # (cache = Absent)
      BY DEF ChangesOnce
    <2>3. (watch[n] = Absent) # (cache = Absent) => (watch[i + n] = Absent) # (cache = Absent)
      BY <1>4, <2>2
    <2>4. (watch[i + n] = Absent) # (cache = Absent) => (watch[j + n] = Absent) # (cache = Absent)
      BY <1>4, <2>1, <2>2
    <2> QED
      BY <1>4, <2>3, <2>4
  <1>6. ASSUME watch[n] = Absent <=> cache = Absent, FlatFrom(watch[n], rest), NEW i \in 1..Len(watch)
        PROVE  watch[i] = Absent <=> cache = Absent
    <2>1. CASE i <= n
      BY <1>6, <2>1 DEF ChangesOnce
    <2>2. CASE i > n
      <3>1. i - n \in 1..(Len(watch) - n) /\ (i - n) + n = i
        BY <1>1, <2>2
      <3>2. rest[i - n] = watch[i]
        BY <1>2, <3>1
      <3> QED
        BY <1>2, <1>6, <3>1, <3>2 DEF FlatFrom
    <2> QED
      BY <1>1, <2>1, <2>2
  <1> QED
    BY <1>3, <1>5, <1>6 DEF FlatFrom, rest

\* A watch that changes once and ends with what the cache shows does not change at all.
LEMMA UnchangedWatch ==
  ASSUME NEW S, NEW watch \in Seq(S), NEW live, NEW cache, live = Absent <=> cache = Absent,
         EndsAt(live, cache, watch), ChangesOnce(cache, watch)
  PROVE  FlatFrom(cache, watch)
  <1> SUFFICES ASSUME NEW i \in 1..Len(watch)
               PROVE  watch[i] = Absent <=> cache = Absent
    BY DEF FlatFrom
  <1>1. Len(watch) \in 1..Len(watch) /\ i <= Len(watch) /\ watch # <<>>
    BY LenProperties, EmptySeq
  <1>2. watch[Len(watch)] = Absent <=> cache = Absent
    BY <1>1 DEF EndsAt
  <1> QED
    BY <1>1, <1>2 DEF ChangesOnce

\* An object comes or goes: the watch still changes once if the cache showed the object
\* as it was.
LEMMA AppendedChange ==
  ASSUME NEW S, NEW watch \in Seq(S), NEW live, NEW cache, NEW object \in S,
         EndsAt(live, cache, watch), ChangesOnce(cache, watch),
         (object = Absent <=> live = Absent) \/ (live = Absent <=> cache = Absent)
  PROVE  ChangesOnce(cache, Append(watch, object))
  <1>1. /\ Len(Append(watch, object)) = Len(watch) + 1
        /\ Append(watch, object)[Len(watch) + 1] = object
        /\ \A i \in 1..Len(watch) : Append(watch, object)[i] = watch[i]
        /\ Len(watch) \in Nat
    BY AppendProperties, LenProperties
  <1> SUFFICES ASSUME NEW i \in 1..(Len(watch) + 1), NEW j \in 1..(Len(watch) + 1), i <= j,
                      (Append(watch, object)[i] = Absent) # (cache = Absent)
               PROVE  (Append(watch, object)[j] = Absent) # (cache = Absent)
    BY <1>1 DEF ChangesOnce
  <1>2. CASE j <= Len(watch)
    <2>1. i \in 1..Len(watch) /\ j \in 1..Len(watch)
      BY <1>1, <1>2
    <2> QED
      BY <1>1, <2>1 DEF ChangesOnce
  <1>3. CASE i = Len(watch) + 1
    BY <1>1, <1>3
  <1>4. CASE i <= Len(watch) /\ j = Len(watch) + 1
    <2>1. i \in 1..Len(watch)
      BY <1>1, <1>4
    <2>2. ~(live = Absent <=> cache = Absent)
      <3>1. (watch[i] = Absent) # (cache = Absent)
        BY <1>1, <2>1
      <3> QED
        BY <2>1, <3>1, UnchangedWatch DEF FlatFrom
    <2> QED
      BY <1>1, <1>4, <2>2
  <1> QED
    BY <1>1, <1>2, <1>3, <1>4

\* The watches after the server stored or removed an object.
LEMMA StoredOnce ==
  ASSUME TypeOK, WatchEnds, \A k \in Secrets : ChangesOnce(usageCache[k], usageWatch[k]),
         NEW s \in Secrets, NEW object \in Objects \cup {Absent},
         Store(s, object), UNCHANGED usageCache,
         \/ object = Absent <=> usages[s] = Absent
         \/ usages[s] = Absent <=> usageCache[s] = Absent
  PROVE  \A k \in Secrets : ChangesOnce(usageCache[k], usageWatch[k])'
  <1> DEFINE Stored == Objects \cup {Absent}
  <1>1. /\ usageWatch[s] \in Seq(Stored) /\ object \in Stored
        /\ EndsAt(usages[s], usageCache[s], usageWatch[s])
        /\ ChangesOnce(usageCache[s], usageWatch[s])
    BY DEF TypeOK, WatchEnds
  <1>2. /\ \A k \in Secrets : k # s => usageWatch'[k] = usageWatch[k]
        /\ usageWatch'[s] \in {usageWatch[s], Append(usageWatch[s], object)}
    BY DEF Store, TypeOK
  <1> HIDE DEF Stored
  <1>3. ChangesOnce(usageCache[s], Append(usageWatch[s], object))
    BY <1>1, AppendedChange
  <1> QED
    BY <1>1, <1>2, <1>3

-----------------------------------------------------------------------------
(* Steps.                                                                  *)

\* The informer of SecretUsage takes an event, or jumps to a later one: a key whose
\* object came or went in the cache is pending.
LEMMA RelistedUsage ==
  ASSUME TypeOK, WatchEnds, RelistInvariant, NEW s \in Secrets, NEW n, ObserveUsage(s, n)
  PROVE  /\ WatchEnds' /\ RelistInvariant'
         /\ \A k \in Secrets : Pending(k)' \/ Calm(k)
  <1> DEFINE Stored == Objects \cup {Absent}
             next  == usageWatch[s][n]
             added == IF (usageCache[s] = Absent) # (next = Absent) THEN {s} ELSE {}
  <1>1. /\ usageWatch[s] \in Seq(Stored) /\ n \in 1..Len(usageWatch[s])
        /\ usageCache' = [usageCache EXCEPT ![s] = next]
        /\ usageWatch' = [usageWatch EXCEPT ![s] = Drop(@, n)]
        /\ Notify({}, added) /\ UNCHANGED <<usages, worker>>
        /\ EndsAt(usages[s], usageCache[s], usageWatch[s])
        /\ ChangesOnce(usageCache[s], usageWatch[s])
    BY DEF ObserveUsage, enqueueOwnKey, TypeOK, WatchEnds, RelistInvariant, liveVars
  <1>2. /\ \A k \in Secrets : k # s => /\ usageCache'[k] = usageCache[k]
                                       /\ usageWatch'[k] = usageWatch[k]
        /\ usageCache'[s] = next
        /\ usageWatch'[s] = Drop(usageWatch[s], n)
    BY <1>1 DEF TypeOK
  <1> HIDE DEF Stored
  <1>3. /\ EndsAt(usages[s], next, Drop(usageWatch[s], n))
        /\ ChangesOnce(next, Drop(usageWatch[s], n))
        /\ (next = Absent <=> usageCache[s] = Absent)
             => (FlatFrom(next, Drop(usageWatch[s], n)) => FlatFrom(usageCache[s], usageWatch[s]))
    BY <1>1, RelistedWatch
  <1>4. WatchEnds'
    BY <1>1, <1>2, <1>3 DEF WatchEnds
  <1>5. ASSUME usages[s] = Absent <=> usageCache[s] = Absent
        PROVE  next = Absent <=> usageCache[s] = Absent
    BY <1>1, <1>5, UnchangedWatch DEF FlatFrom
  <1> HIDE DEF next, added
  <1>6. RelistInvariant'
    <2>1. \A k \in Secrets : ChangesOnce(usageCache[k], usageWatch[k])'
      BY <1>2, <1>3 DEF RelistInvariant
    <2>2. ASSUME worker.pc = "create", usages[Key] = Absent PROVE usageCache'[Key] = Absent
      <3>1. usageCache[Key] = Absent
        BY <2>2 DEF RelistInvariant
      <3>2. CASE Key = s
        BY <1>2, <1>5, <2>2, <3>1, <3>2
      <3>3. CASE Key # s
        BY <1>1, <3>1, <3>3 DEF TypeOK
      <3> QED
        BY <3>2, <3>3
    <2>3. ASSUME worker.pc = "delete", usages[Key] # Absent PROVE usageCache'[Key] # Absent
      <3>1. usageCache[Key] # Absent
        BY <2>3 DEF RelistInvariant
      <3>2. CASE Key = s
        BY <1>2, <1>5, <2>3, <3>1, <3>2
      <3>3. CASE Key # s
        BY <1>1, <3>1, <3>3 DEF TypeOK
      <3> QED
        BY <3>2, <3>3
    <2> QED
      BY <1>1, <2>1, <2>2, <2>3 DEF RelistInvariant, Key
  <1>7. ASSUME NEW k \in Secrets PROVE Pending(k)' \/ Calm(k)
    <2>1. CASE k # s
      BY <1>2, <2>1 DEF Calm, Flat
    <2>2. CASE k = s /\ (next = Absent <=> usageCache[s] = Absent)
      BY <1>2, <1>3, <2>2 DEF Calm, Flat
    <2>3. CASE k = s /\ ~(next = Absent <=> usageCache[s] = Absent)
      <3>1. k \in added
        BY <2>3 DEF added
      <3>2. notify'[k] > 0
        BY <1>1, <3>1, NotifyAdds DEF TypeOK
      <3> QED
        BY <3>2 DEF Pending
    <2> QED
      BY <2>1, <2>2, <2>3
  <1> QED
    BY <1>4, <1>6, <1>7

\* A step that leaves a reconcile neither about to create nor about to remove has to keep
\* the watches in order only.
LEMMA HarmlessStep ==
  ASSUME worker'.pc \notin {"create", "delete"},
         \A k \in Secrets : ChangesOnce(usageCache[k], usageWatch[k])'
  PROVE  RelistInvariant'
  BY DEF RelistInvariant

\* The steps of a reconcile: it creates where its cache shows nothing, and removes what
\* its cache shows.
LEMMA WorkerRelist ==
  ASSUME TypeOK, WorkerOK, WatchEnds, RelistInvariant, WorkerStep
  PROVE  RelistInvariant'
  <1> USE DEF liveVars, watchVars, cacheVars, queueVars
  <1>0. \A k \in Secrets : ChangesOnce(usageCache[k], usageWatch[k])
    BY DEF RelistInvariant
  <1>1. ASSUME UNCHANGED <<usageCache, usageWatch>>
        PROVE  \A k \in Secrets : ChangesOnce(usageCache[k], usageWatch[k])'
    BY <1>0, <1>1
  <1>2. ASSUME NEW s \in Secrets, secretExists(s) PROVE RelistInvariant'
    <2>1. worker'.pc = "list" /\ UNCHANGED <<usageCache, usageWatch>>
      BY <1>2 DEF secretExists, Idle
    <2> QED
      BY <1>1, <2>1, HarmlessStep
  <1>3. CASE collectUsages
    <2>1. worker'.pc \in {"list", "decide"} /\ UNCHANGED <<usageCache, usageWatch>>
      BY <1>3 DEF collectUsages, TypeOK, WorkerStates
    <2> QED
      BY <1>1, <2>1, HarmlessStep
  <1>4. CASE Forget
    <2>1. /\ UNCHANGED <<usages, usageCache, usageWatch>>
          /\ \/ worker' = Idle
             \/ usageCache[Key] # Absent /\ worker' = [worker EXCEPT !.pc = "delete"]
      BY <1>4 DEF Forget, Done
    <2>2. CASE worker' = Idle
      BY <1>1, <2>1, <2>2, HarmlessStep DEF Idle
    <2>3. CASE usageCache[Key] # Absent /\ worker' = [worker EXCEPT !.pc = "delete"]
      <3>1. worker'.pc = "delete" /\ worker'.key = worker.key
        BY <2>3 DEF TypeOK, WorkerStates
      <3> QED
        BY <1>1, <2>1, <2>3, <3>1 DEF RelistInvariant, Key
    <2> QED
      BY <2>1, <2>2, <2>3
  <1>5. CASE Get
    <2> DEFINE current == usageCache[Key]
    <2>1. /\ UNCHANGED <<usages, usageCache, usageWatch>>
          /\ \/ worker' = Idle
             \/ current = Absent /\ worker' = [worker EXCEPT !.pc = "create"]
             \/ \E step \in {"labels", "status"} :
                  worker' = [worker EXCEPT !.pc = step, !.current = current]
      BY <1>5 DEF Get, PatchStatusNext
    <2>2. CASE worker' = Idle
      BY <1>1, <2>1, <2>2, HarmlessStep DEF Idle
    <2>3. CASE current = Absent /\ worker' = [worker EXCEPT !.pc = "create"]
      <3>1. worker'.pc = "create" /\ worker'.key = worker.key
        BY <2>3 DEF TypeOK, WorkerStates
      <3> QED
        BY <1>1, <2>1, <2>3, <3>1 DEF RelistInvariant, Key
    <2> HIDE DEF current
    <2>4. ASSUME NEW step \in {"labels", "status"},
                 worker' = [worker EXCEPT !.pc = step, !.current = current]
          PROVE  RelistInvariant'
      <3>1. worker'.pc = step
        BY <2>4 DEF TypeOK, WorkerStates
      <3> QED
        BY <1>1, <2>1, <3>1, HarmlessStep
    <2> QED
      BY <2>1, <2>2, <2>3, <2>4
  <1>6. CASE Rejected \/ CallFails
    <2>1. worker' = Idle /\ UNCHANGED <<usageCache, usageWatch>>
      BY <1>6 DEF Rejected, CallFails, Fail
    <2> QED
      BY <1>1, <2>1, HarmlessStep DEF Idle
  <1>7. ASSUME NEW received \in BOOLEAN, Delete(received) PROVE RelistInvariant'
    <2>1. /\ worker.pc = "delete" /\ Store(Key, Absent) /\ Key \in Secrets
          /\ worker' = Idle /\ UNCHANGED usageCache
      BY <1>7 DEF Delete, Done, Fail, WorkerOK, Key
    <2>2. \/ Absent = Absent <=> usages[Key] = Absent
          \/ usages[Key] = Absent <=> usageCache[Key] = Absent
      BY <2>1 DEF RelistInvariant
    <2>3. Absent \in Objects \cup {Absent}
      OBVIOUS
    <2> QED
      BY <1>0, <2>1, <2>2, <2>3, StoredOnce, HarmlessStep DEF Idle
  <1>8. ASSUME NEW received \in BOOLEAN, Create(received) PROVE RelistInvariant'
    <2> DEFINE object == created(DesiredLabels)
    <2>1. /\ worker.pc = "create" /\ Store(Key, object) /\ Key \in Secrets
          /\ usages[Key] = Absent /\ UNCHANGED usageCache
          /\ worker' = Idle \/ worker' = [worker EXCEPT !.pc = "publish"]
      BY <1>8 DEF Create, Accepted, Fail, WorkerOK, Key
    <2>2. object \in Objects \cup {Absent}
      BY CreatedType
    <2> HIDE DEF object
    <2>3. worker'.pc \in {"idle", "publish"}
      BY <2>1 DEF TypeOK, WorkerStates, Idle
    <2>4. usageCache[Key] = Absent
      BY <2>1 DEF RelistInvariant
    <2> QED
      BY <1>0, <2>1, <2>2, <2>3, <2>4, StoredOnce, HarmlessStep
  <1>9. ASSUME NEW received \in BOOLEAN,
               Publish(received) \/ PatchLabels(received) \/ PatchStatus(received)
        PROVE  RelistInvariant'
    <2>1. PICK object \in Objects : Store(Key, object)
      BY <1>9, RewriteKeepsPresence
    <2>2. Key \in Secrets /\ usages[Key] # Absent /\ object # Absent
      BY <1>9, RewriteKeepsPresence, SecretUsageControllerAssumption
    <2>3. UNCHANGED usageCache
      BY <1>9 DEF Publish, PatchLabels, PatchStatus
    <2>4. \A k \in Secrets : ChangesOnce(usageCache[k], usageWatch[k])'
      BY <1>0, <2>1, <2>2, <2>3, StoredOnce
    <2>5. \/ worker' = Idle
          \/ \E next : worker' = [worker EXCEPT !.pc = "status", !.current = next]
      BY <1>9 DEF Publish, PatchLabels, PatchStatus, PatchStatusNext, Done, Fail
    <2>6. CASE worker' = Idle
      BY <2>4, <2>6, HarmlessStep DEF Idle
    <2>7. ASSUME NEW next, worker' = [worker EXCEPT !.pc = "status", !.current = next]
          PROVE  RelistInvariant'
      <3>1. worker'.pc = "status"
        BY <2>7 DEF TypeOK, WorkerStates
      <3> QED
        BY <2>4, <3>1, HarmlessStep
    <2> QED
      BY <2>5, <2>6, <2>7
  <1> QED
    BY <1>2, <1>3, <1>4, <1>5, <1>6, <1>7, <1>8, <1>9 DEF WorkerStep

\* Every step is one in order, or a relist of SecretUsage.
LEMMA UndisturbedSteps ==
  ASSUME [NextUndisturbed]_vars
  PROVE  /\ [Next]_vars
         /\ [NextInOrder]_vars \/ \E s \in Secrets : \E n \in 2..Len(usageWatch[s]) : ObserveUsage(s, n)
  BY DEF NextUndisturbed, Next, NextInOrder, Running, RelistUsages

\* Every step keeps the invariant, and what the other proofs take for granted.
LEMMA NextRelist ==
  ASSUME Sound, RelistInvariant, [NextUndisturbed]_vars
  PROVE  Sound' /\ RelistInvariant'
  <1>0. TypeOK /\ WorkerOK /\ GaugeCore /\ PresenceInvariant /\ WatchEnds
    BY DEF Sound, PresenceInvariant
  <1>1. Sound'
    <2>1. CASE [NextInOrder]_vars
      BY <2>1, NextSound
    <2>2. ASSUME NEW s \in Secrets, NEW n \in 2..Len(usageWatch[s]), ObserveUsage(s, n) PROVE Sound'
      <3>1. TypeOK' /\ WorkerOK' /\ GaugeCore'
        BY <1>0, UndisturbedSteps, NextTypes, NextGauge
      <3>2. Outside
        BY <2>2, ObservedIsThere DEF Outside
      <3>3. PresenceInvariant'
        BY <1>0, <2>2, <3>1, <3>2, RelistedUsage, OutsideFrames, OutsidePresence
      <3> QED
        BY <3>1, <3>3 DEF Sound
    <2> QED
      BY <2>1, <2>2, UndisturbedSteps
  <1>2. ASSUME NEW s \in Secrets, NEW n, ObserveUsage(s, n) PROVE RelistInvariant'
    BY <1>0, <1>2, RelistedUsage
  <1>3. ASSUME Outside, UNCHANGED <<usages, usageWatch, usageCache>> PROVE RelistInvariant'
    <2>1. worker' = worker
      BY <1>0, <1>1, <1>3, OutsideFrames DEF OutsideFrame, Sound
    <2> QED
      BY <1>3, <2>1 DEF RelistInvariant, Key
  <1>4. ASSUME WorkerStep PROVE RelistInvariant'
    BY <1>0, <1>4, WorkerRelist
  <1>5. ASSUME Restart PROVE RelistInvariant'
    <2>1. worker'.pc = "idle" /\ \A s \in Secrets : usageWatch'[s] = <<>>
      BY <1>5 DEF Restart, Idle, NoEvents
    <2>2. 1..Len(<<>>) = {}
      BY EmptySeq
    <2> QED
      BY <2>1, <2>2, HarmlessStep DEF ChangesOnce
  <1>6. ASSUME UNCHANGED vars PROVE RelistInvariant'
    BY <1>6 DEF RelistInvariant, Key, vars, liveVars, watchVars, cacheVars
  <1> QED
    BY <1>1, <1>2, <1>3, <1>4, <1>5, <1>6, UndisturbedCases DEF NextUndisturbed, RelistUsages

\* No watch tells of anything when the process comes up.
LEMMA InitRelist == Init => RelistInvariant
  <1> SUFFICES ASSUME Init PROVE RelistInvariant
    OBVIOUS
  <1>1. worker.pc = "idle" /\ \A s \in Secrets : usageWatch[s] = <<>>
    BY DEF Init, Idle, NoEvents
  <1>2. 1..Len(<<>>) = {}
    BY EmptySeq
  <1> QED
    BY <1>1, <1>2 DEF RelistInvariant, ChangesOnce

-----------------------------------------------------------------------------
(* Theorems.                                                               *)

\* The inductive invariant: what a watch has still to tell of is at most one creation
\* or one removal, and the reconcile that is about to make one has seen the other.
THEOREM RelistInvariantHolds == SpecUndisturbed => []RelistInvariant
  <1>1. Init => Sound /\ RelistInvariant
    BY InitSound, InitRelist
  <1>2. Sound /\ RelistInvariant /\ [NextUndisturbed]_vars => (Sound /\ RelistInvariant)'
    BY NextRelist
  <1> QED
    BY <1>1, <1>2, PTL DEF SpecUndisturbed

\* However often the watch of SecretUsage is interrupted: once nothing will reconcile a
\* key any more, its object exists exactly if there is something to describe.
THEOREM RelistsLeaveNoOrphans == SpecUndisturbed => []PresenceSettled
  <1>1. Init => Sound /\ RelistInvariant
    BY InitSound, InitRelist
  <1>2. Sound /\ RelistInvariant /\ [NextUndisturbed]_vars => (Sound /\ RelistInvariant)'
    BY NextRelist
  <1>3. Sound => PresenceSettled
    BY QuietPresence DEF Sound, PresenceSettled
  <1> QED
    BY <1>1, <1>2, <1>3, PTL DEF SpecUndisturbed

\* Nor does an interrupted watch keep a reconcile that read the latest object from
\* leaving an exact one.
THEOREM RelistsKeepExact == SpecUndisturbed => []FreshReadSettles
  <1>1. Init => Sound /\ RelistInvariant /\ ExactInvariant
    BY InitSound, InitRelist, InitExact
  <1>2. Sound /\ RelistInvariant /\ [NextUndisturbed]_vars => (Sound /\ RelistInvariant)'
    BY NextRelist
  <1>3. Sound /\ Sound' /\ RelistInvariant /\ ExactInvariant /\ [NextUndisturbed]_vars
          => ExactInvariant'
    <2> SUFFICES ASSUME Sound, Sound', RelistInvariant, ExactInvariant, [NextUndisturbed]_vars
                 PROVE  ExactInvariant'
      OBVIOUS
    <2>1. CASE [NextInOrder]_vars
      BY <2>1, NextExact
    <2>2. ASSUME NEW s \in Secrets, NEW n \in 2..Len(usageWatch[s]), ObserveUsage(s, n)
          PROVE  ExactInvariant'
      <3>1. /\ TypeOK /\ WorkerOK /\ WatchEnds /\ TypeOK' /\ PresenceInvariant'
            /\ UnwrittenEmpty /\ ExactAtRest /\ ExactInReconcile
        BY DEF Sound, PresenceInvariant, ExactInvariant
      <3>2. usages' = usages
        BY <2>2 DEF ObserveUsage, liveVars
      <3>3. OutsideFrame /\ \A k \in Secrets : Pending(k)' \/ Calm(k)
        BY <2>2, <3>1, ObservedIsThere, RelistedUsage, OutsideFrames DEF Outside
      <3>4. ExactAtRest' /\ ExactInReconcile'
        BY <3>1, <3>2, <3>3, OutsideExact
      <3> QED
        BY <3>1, <3>2, <3>4 DEF ExactInvariant, UnwrittenEmpty
    <2> QED
      BY <2>1, <2>2, UndisturbedSteps
  <1>4. Sound /\ ExactInvariant => FreshReadSettles
    BY QuietPresence DEF FreshReadSettles, ExactInvariant, ExactAtRest, Sound
  <1> QED
    BY <1>1, <1>2, <1>3, <1>4, PTL DEF SpecUndisturbed

\* With interrupted watches the controller still implements the index.
THEOREM RelistsImplementIndex == SpecUndisturbed => ImplementsIndex
  <1>1. Init => Sound /\ RelistInvariant
    BY InitSound, InitRelist
  <1>2. Sound /\ RelistInvariant /\ [NextUndisturbed]_vars => (Sound /\ RelistInvariant)'
    BY NextRelist
  <1>3. Sound => Index!TypeOK /\ Index!Correct
    BY SoundIndex
  <1>4. Index!TypeOK /\ Index!Correct => Index!Init
    BY DEF Index!Init
  <1>5. Sound /\ Sound' /\ (Index!TypeOK /\ Index!Correct)' /\ [NextUndisturbed]_vars
          => [Index!Next]_(Index!vars)
    BY NextSimulates, ObserveSimulates, UndisturbedSteps DEF Sound
  <1> QED
    BY <1>1, <1>2, <1>3, <1>4, <1>5, PTL DEF SpecUndisturbed, ImplementsIndex, Index!Spec
=============================================================================
