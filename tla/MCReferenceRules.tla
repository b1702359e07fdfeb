-------------------------- MODULE MCReferenceRules --------------------------
(***************************************************************************)
(* ReferenceRules for TLC: two kinds, one of them built in at one version; *)
(* failures and changes of the cluster are bounded by budgets.             *)
(***************************************************************************)
EXTENDS ReferenceRules

CONSTANTS MaxChanges, MaxFaults

VARIABLE left

mcVars == <<vars, left>>

NativeKinds == {<<"ingress", "v1">>}

Spend(budget) == left[budget] > 0 /\ left' = [left EXCEPT ![budget] = @ - 1]

MCInit == Init /\ left = [changes |-> MaxChanges, faults |-> MaxFaults]

MCNext ==
  \/ Startup /\ UNCHANGED left
  \/ Spend("faults") /\ (DiscoveryFails \/ Stops)
  \/ Spend("changes") /\ \E gvk \in GVKs : ChangeServed(gvk)

MCSpec == MCInit /\ [][MCNext]_mcVars

\* The process goes on with what it does, and is restarted when it exits.
MCFairSpec == MCSpec /\ WF_vars(Startup)
=============================================================================
