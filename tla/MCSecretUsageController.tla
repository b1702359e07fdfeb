----------------------- MODULE MCSecretUsageController -----------------------
(***************************************************************************)
(* SecretUsageController for TLC: how often users, informers and faults    *)
(* may disturb the system is bounded by budgets, everything the controller *)
(* itself does is not.                                                     *)
(***************************************************************************)
EXTENDS SecretUsageController, TLC

CONSTANTS
  MaxChanges,  \* changes of Secrets and of consumers
  MaxDeletes,  \* SecretUsage objects removed by a user
  MaxFaults,   \* failed calls and lost replies
  MaxCrashes,  \* restarts
  MaxRelists,  \* informer jumps over events
  Resyncs      \* whether the periodic resync happens

VARIABLE left  \* what is left of each budget

mcVars == <<vars, left>>

\* Each consumer is an object of a kind of its own.
OneKindEach == [c \in Consumers |-> c]

Symmetry == Permutations(Secrets)

Spend(budget) == left[budget] > 0 /\ left' = [left EXCEPT ![budget] = @ - 1]

Keep == UNCHANGED left

MCInit ==
  /\ Init
  /\ left = [changes |-> MaxChanges, deletes |-> MaxDeletes, faults |-> MaxFaults,
             crashes |-> MaxCrashes, relists |-> MaxRelists]

Users ==
  \/ /\ Spend("changes")
     /\ \/ \E s \in Secrets : ChangeSecret(s)
        \/ \E c \in Consumers, names \in SUBSET Secrets : ChangeSpec(c, names)
  \/ Spend("deletes") /\ \E s \in Secrets : UserDeletesUsage(s)

InformerSteps ==
  \/ Keep /\ \E s \in Secrets : ObserveSecret(s, 1) \/ ObserveUsage(s, 1)
  \/ Keep /\ \E c \in Consumers : ObserveSpec(c, 1)
  \/ /\ Spend("relists")
     /\ \/ \E s \in Secrets : \E n \in 2..Len(secretWatch[s]) : ObserveSecret(s, n)
        \/ \E s \in Secrets : \E n \in 2..Len(usageWatch[s]) : ObserveUsage(s, n)
        \/ \E c \in Consumers : \E n \in 2..Len(specWatch[c]) : ObserveSpec(c, n)

\* A resync does not overtake the handlers of the one before.
ResyncSteps ==
  /\ Resyncs
  /\ Keep
  /\ \A s \in Secrets : notify[s] = 0
  /\ (\E s \in Secrets : ResyncSecret(s)) \/ (\E c \in Consumers : ResyncSpec(c))

QueueSteps == Keep /\ \E s \in Secrets : Enqueue(s) \/ RetryDue(s) \/ secretExists(s)

MCRunning ==
  \/ Users
  \/ InformerSteps
  \/ ResyncSteps
  \/ QueueSteps
  \/ Keep /\ Answered
  \/ Spend("faults") /\ (LostReply \/ CallFails)

MCNext == MCRunning \/ (Spend("crashes") /\ Restart)

MCSpec == MCInit /\ [][MCNext]_mcVars

(* Fairness: informers deliver, handlers run, rate-limited keys come back,  *)
(* the worker takes every queued key at some point (the queue is first in, *)
(* first out, so a key is not overtaken for ever) and calls are answered.  *)
Fairness ==
  /\ \A s \in Secrets : /\ WF_vars(ObserveSecret(s, 1))
                        /\ WF_vars(ObserveUsage(s, 1))
                        /\ WF_vars(Enqueue(s))
                        /\ WF_vars(RetryDue(s))
                        /\ SF_vars(secretExists(s))
  /\ \A c \in Consumers : WF_vars(ObserveSpec(c, 1))
  /\ WF_vars(Answered)

MCFairSpec == MCSpec /\ Fairness

-----------------------------------------------------------------------------
(* Liveness.                                                               *)

liveUsages(s) == {c \in Consumers : s \in specs[c]}

\* Once users stop, an object ends up existing exactly for the Secrets that
\* exist or are referenced, through lost replies, failed calls, a change of
\* leader and the late calls of the one before.
EventuallyPresent ==
  \A s \in Secrets :
    <>[](usages[s] # Absent <=> tracked(secrets[s], liveUsages(s)))

\* What a comment in Reconcile promises: when the status write after Create
\* fails, the next reconcile fills the empty status in.
EmptyStatusFilled == <>[](\A s \in Secrets : usages[s] # Absent => usages[s].written)

\* Once users stop, the periodic resync leaves every object with the labels
\* and the status the live objects call for, restarts included, unless one is
\* left without a status for ever.
EventuallyExact ==
  EmptyStatusFilled =>
    \A s \in Secrets :
      <>[](tracked(secrets[s], liveUsages(s)) =>
             usages[s] = published(desiredLabelsFor(s, secrets[s], liveUsages(s)),
                                   desiredStatus(secrets[s], liveUsages(s))))

\* The retries end: once users stop, and unless an object is left without a
\* status for ever, a time comes from which no key is queued, delayed or under
\* work.  A reconcile whose comparison never succeeds (an empty list is read
\* back as nil), whose object exists already or is gone, does not go on for ever.
EventuallyAtRest == EmptyStatusFilled => <>[](\A s \in Secrets : Settled(s))
=============================================================================
