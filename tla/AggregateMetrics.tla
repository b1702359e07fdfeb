-------------------------- MODULE AggregateMetrics --------------------------
(***************************************************************************)
(* The two cluster-wide gauges: beside the reconcile loop, a timer counts  *)
(* the cached SecretUsage objects by what their status says                *)
(* (runAggregateMetrics in secretusage_controller.go, metrics.go).  The    *)
(* cached objects may be old, and their status may be a mixture of two or  *)
(* not written yet.                                                        *)
(***************************************************************************)
EXTENDS SecretUsageController

VARIABLE summary  \* secretsMissingTotal and secretsUnusedTotal

summaryVars == <<vars, summary>>

\* A gauge that was registered and not set yet.
NoSummary == [missing |-> 0, unused |-> 0]

countsMissing(status) == ~status.exists /\ status.usageCount > 0

countsUnused(status) == status.exists /\ status.usageCount = 0

\* The objects in the cache.
listed == {s \in Secrets : usageCache[s] # Absent}

\* What they add up to.
counted ==
  [missing |-> Cardinality({s \in listed : countsMissing(usageCache[s].status)}),
   unused  |-> Cardinality({s \in listed : countsUnused(usageCache[s].status)})]

\* Mutant: nothing is set when there is nothing to list.
setUnlessEmpty ==
  /\ IF listed = {} THEN UNCHANGED summary ELSE summary' = counted
  /\ UNCHANGED vars

\* The timer fires.  When the list fails, nothing happens until the next time.
runAggregateMetrics == summary' = counted /\ UNCHANGED vars

SummaryInit == Init /\ summary = NoSummary

SummaryNext ==
  \/ Running /\ UNCHANGED summary
  \/ Restart /\ summary' = NoSummary
  \/ runAggregateMetrics

SummarySpec == SummaryInit /\ [][SummaryNext]_summaryVars

-----------------------------------------------------------------------------
(* Properties.                                                             *)

\* The Secrets that are missing and those that are unused, going by the caches.
wantedSummary ==
  [missing |-> Cardinality({s \in Secrets :
                             ~secretCache[s] /\ cachedUsages(s, NumKinds) # {}}),
   unused  |-> Cardinality({s \in Secrets :
                             /\ TrackUnusedSecrets /\ secretCache[s]
                             /\ cachedUsages(s, NumKinds) = {}})]

\* The timer counts what objects say of themselves, and not what exists. It would get
\* the same numbers all the same, fired at any moment when every key is quiet and the
\* last reconcile of those that have an object read the latest one.
SummaryExact ==
  (\A s \in Secrets : Quiet(s) /\ (described(s) => fresh[s])) => counted = wantedSummary
=============================================================================
