------------------------- MODULE MCAggregateMetrics -------------------------
(***************************************************************************)
(* AggregateMetrics for TLC, with the budgets of MCSecretUsageController.  *)
(***************************************************************************)
EXTENDS MCSecretUsageController, AggregateMetrics

mcSummaryVars == <<mcVars, summary>>

MCSummaryInit == MCInit /\ summary = NoSummary

MCSummaryNext ==
  \/ MCRunning /\ UNCHANGED summary
  \/ Spend("crashes") /\ Restart /\ summary' = NoSummary
  \/ Keep /\ runAggregateMetrics

\* The timer fires again and again, and the ten-hour resync comes round.
MCSummarySpec ==
  /\ MCSummaryInit /\ [][MCSummaryNext]_mcSummaryVars
  /\ Fairness
  /\ WF_mcVars(ResyncSteps)
  /\ WF_summary(runAggregateMetrics)

\* Once users stop, the periodic resync leaves the two gauges with the number of
\* Secrets that are missing and the number of those that are unused, going by what
\* exists and not by what any object said on the way; an object that is left without
\* a status for ever is not counted.
EventuallySummarised ==
  EmptyStatusFilled =>
    <>[](summary =
           [missing |-> Cardinality({s \in Secrets : ~secrets[s] /\ liveUsages(s) # {}}),
            unused  |-> Cardinality({s \in Secrets : secrets[s] /\ liveUsages(s) = {}})])
=============================================================================
