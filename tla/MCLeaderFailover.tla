-------------------------- MODULE MCLeaderFailover --------------------------
(***************************************************************************)
(* LeaderFailover for TLC, with the budgets of MCSecretUsageController;    *)
(* a crash is a failover.  The standby goes on while there is one to come. *)
(***************************************************************************)
EXTENDS MCSecretUsageController, LeaderFailover

mcFailoverVars == <<mcVars, late, standbyVars>>

MCFailoverInit == FailoverInit /\ MCInit

MCFailoverNext ==
  \/ MCRunning /\ Announce /\ UNCHANGED <<late, standbyCache>>
  \/ Keep /\ left["crashes"] > 0 /\ \E c \in Consumers : StandbyObserves(c)
  \/ Spend("crashes") /\ Failover
  \/ Keep /\ (LateCall \/ LateGone)

\* Nothing makes the earlier leader go on, and no lease has to change hands.
MCFailoverSpec ==
  MCFailoverInit /\ [][MCFailoverNext]_mcFailoverVars /\ Fairness
=============================================================================
