----------------------- MODULE AggregateMetricsProofs -----------------------
(***************************************************************************)
(* Proofs about AggregateMetrics.  The timer reads the objects and writes  *)
(* two gauges: what is proved about the objects holds beside it, and what  *)
(* it counts is right when the objects are.                                *)
(***************************************************************************)
EXTENDS AggregateMetrics, SecretUsageObjectProofs

-----------------------------------------------------------------------------
(* Counting.                                                               *)

\* A total of zero says that nothing was found.
LEMMA CountOfFound ==
  ASSUME NEW found \in SUBSET Consumers
  PROVE  /\ Cardinality(found) \in Nat
         /\ Cardinality(found) = 0 <=> found = {}
  <1>1. IsFiniteSet(found)
    BY FS_Subset, UsageObjectAssumption
  <1> QED
    BY <1>1, FS_CardinalityType, FS_EmptySet

\* The status a reconcile publishes is counted as missing or unused exactly if its
\* Secret is.
LEMMA CountsAsIs ==
  ASSUME NEW exists \in BOOLEAN, NEW found \in SUBSET Consumers
  PROVE  /\ countsMissing(desiredStatus(exists, found)) <=> ~exists /\ found # {}
         /\ countsUnused(desiredStatus(exists, found)) <=> exists /\ found = {}
  <1>1. /\ desiredStatus(exists, found).exists = exists
        /\ desiredStatus(exists, found).usageCount = Cardinality(found)
    BY DEF desiredStatus
  <1>2. Cardinality(found) > 0 <=> found # {}
    BY CountOfFound
  <1> QED
    BY <1>1, <1>2, CountOfFound DEF countsMissing, countsUnused

\* A quiet key whose last reconcile read the latest object: the object is listed and
\* counted exactly as the caches call for.
LEMMA CountedAsWanted ==
  ASSUME TypeOK, PresenceInvariant, ExactInvariant, NEW s \in Secrets, Quiet(s),
         described(s) => fresh[s]
  PROVE  /\ s \in listed /\ countsMissing(usageCache[s].status)
              <=> ~secretCache[s] /\ cachedUsages(s, NumKinds) # {}
         /\ s \in listed /\ countsUnused(usageCache[s].status)
              <=> /\ TrackUnusedSecrets /\ secretCache[s]
                  /\ cachedUsages(s, NumKinds) = {}
  <1> DEFINE exists == secretCache[s]
             found  == cachedUsages(s, NumKinds)
  <1>1. exists \in BOOLEAN /\ found \in SUBSET Consumers
    BY DEF TypeOK, cachedUsages
  <1>2. usageCache[s] = usages[s]
    BY DEF PresenceInvariant, WatchEnds, EndsAt, Quiet
  <1>3. described(s) <=> found # {} \/ (exists /\ TrackUnusedSecrets)
    BY DEF described, tracked
  <1>4. s \in listed <=> described(s)
    BY <1>2, QuietPresence DEF listed
  <1>5. ASSUME described(s) PROVE usageCache[s].status = desiredStatus(exists, found)
    <2>1. usages[s] = wantedUsage(s)
      BY <1>5, QuietPresence DEF ExactInvariant, ExactAtRest, exact
    <2> QED
      BY <1>2, <2>1 DEF wantedUsage, published
  <1> HIDE DEF exists, found
  <1>6. ASSUME described(s)
        PROVE  /\ countsMissing(usageCache[s].status) <=> ~exists /\ found # {}
               /\ countsUnused(usageCache[s].status) <=> exists /\ found = {}
    BY <1>1, <1>5, <1>6, CountsAsIs
  <1>7. /\ s \in listed /\ countsMissing(usageCache[s].status) <=> ~exists /\ found # {}
        /\ s \in listed /\ countsUnused(usageCache[s].status)
             <=> TrackUnusedSecrets /\ exists /\ found = {}
    BY <1>3, <1>4, <1>6
  <1> QED
    BY <1>7 DEF exists, found

-----------------------------------------------------------------------------
(* The summary.                                                            *)

\* The timer changes nothing of the reconcile loop, so what is proved of SpecInOrder
\* can be used here.
LEMMA TimerAside == SummarySpec => SpecInOrder
  <1>1. SummaryInit => Init
    BY DEF SummaryInit
  <1>2. [SummaryNext]_summaryVars => [NextInOrder]_vars
    BY DEF SummaryNext, summaryVars, runAggregateMetrics, NextInOrder
  <1> QED
    BY <1>1, <1>2, PTL DEF SummarySpec, SpecInOrder

\* While every key is quiet, and the last reconcile of each object read the latest one,
\* the timer counts how many Secrets are missing and how many unused, whatever happened
\* before.
THEOREM SummaryIsExact == SummarySpec => []SummaryExact
  <1>1. SummarySpec => [](TypeOK /\ PresenceInvariant /\ ExactInvariant)
    <2>1. SpecInOrder => []TypeOK
      <3>1. Sound => TypeOK
        BY DEF Sound
      <3> QED
        BY InitSound, NextSound, <3>1, PTL DEF SpecInOrder
    <2> QED
      BY <2>1, TimerAside, PresenceInvariantHolds, ExactInvariantHolds, PTL
  <1>2. TypeOK /\ PresenceInvariant /\ ExactInvariant => SummaryExact
    <2> SUFFICES ASSUME TypeOK, PresenceInvariant, ExactInvariant,
                        \A s \in Secrets : Quiet(s) /\ (described(s) => fresh[s])
                 PROVE  counted = wantedSummary
      BY DEF SummaryExact
    <2>1. {s \in listed : countsMissing(usageCache[s].status)}
            = {s \in Secrets : ~secretCache[s] /\ cachedUsages(s, NumKinds) # {}}
      BY CountedAsWanted DEF listed
    <2>2. {s \in listed : countsUnused(usageCache[s].status)}
            = {s \in Secrets : /\ TrackUnusedSecrets /\ secretCache[s]
                               /\ cachedUsages(s, NumKinds) = {}}
      BY CountedAsWanted DEF listed
    <2> QED
      BY <2>1, <2>2 DEF counted, wantedSummary
  <1> QED
    BY <1>1, <1>2, PTL
=============================================================================
