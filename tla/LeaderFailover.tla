--------------------------- MODULE LeaderFailover ---------------------------
(***************************************************************************)
(* Two replicas under leader election (--leader-elect in main.go).  The    *)
(* one that leads runs SecretUsageController.  The standby has the         *)
(* informers of the consumers running, since their caches are indexed      *)
(* before the manager starts, and waits for the lease; it lists Secrets    *)
(* and SecretUsages when it gets it.  The process that loses the lease     *)
(* exits, but the reconcile it was in may have calls on their way, which   *)
(* reach the API server when its successor is at work already.             *)
(***************************************************************************)
EXTENDS SecretUsageController

VARIABLES
  late,          \* the reconcile the earlier leader was in, or Idle
  standbyCache,  \* the consumers as the standby has them in its caches
  standbyWatch   \* the events its informers have not seen

standbyVars == <<standbyCache, standbyWatch>>
failoverVars == <<vars, late, standbyVars>>

\* The earlier leader: it has a worker, and no metrics anybody reads.
Earlier == INSTANCE SecretUsageController WITH worker <- late, PerSecretMetrics <- FALSE

Writing == {"delete", "create", "publish", "labels", "status"}

FailoverInit ==
  /\ Init
  /\ late = Idle
  /\ standbyCache = specs
  /\ standbyWatch = NoEvents(Consumers)

\* What happens to consumers goes to both replicas.
Announce ==
  standbyWatch' = [c \in Consumers |-> IF specs'[c] = specs[c] THEN standbyWatch[c]
                                       ELSE Append(standbyWatch[c], specs'[c])]

Leads == Running /\ Announce /\ UNCHANGED <<late, standbyCache>>

StandbyObserves(c) ==
  /\ standbyWatch[c] # <<>>
  /\ standbyCache' = [standbyCache EXCEPT ![c] = Head(standbyWatch[c])]
  /\ standbyWatch' = [standbyWatch EXCEPT ![c] = Tail(@)]
  /\ UNCHANGED <<vars, late>>

\* Mutant: the successor queues the Secrets and the names in consumers only.
announcedWithoutUsages(s) ==
  secrets[s] \/ \E c \in Consumers : s \in standbyCache[c]

\* Mutant: the successor queues what exists only, and no name without a Secret.
announcedWithoutNames(s) == secrets[s] \/ usages[s] # Absent

\* The keys the successor is told of when its controller starts.
announced(s) ==
  secrets[s] \/ usages[s] # Absent \/ \E c \in Consumers : s \in standbyCache[c]

\* The leader loses the lease and exits; a new standby takes the place of the old one.
Failover ==
  /\ late = Idle
  /\ late' = IF worker.pc \in Writing THEN worker ELSE Idle
  /\ UNCHANGED liveVars
  /\ secretCache' = secrets
  /\ usageCache'  = usages
  /\ specCache'   = standbyCache
  /\ secretWatch' = NoEvents(Secrets)
  /\ usageWatch'  = NoEvents(Secrets)
  /\ specWatch'   = standbyWatch
  /\ notify'  = [s \in Secrets |-> 0]
  /\ dirty'   = {s \in Secrets : announced(s)}
  /\ backoff' = {}
  /\ worker'  = Idle
  /\ gauge'   = [s \in Secrets |-> Absent]
  /\ fresh'   = [s \in Secrets |-> FALSE]
  /\ standbyCache' = specs
  /\ standbyWatch' = NoEvents(Consumers)

\* A call of the earlier leader takes effect; a slow process goes on to the second
\* call of its reconcile.
LateCall ==
  /\ \/ Earlier!Delete(TRUE)
     \/ Earlier!Create(TRUE)
     \/ Earlier!Publish(TRUE)
     \/ Earlier!PatchLabels(TRUE)
     \/ Earlier!PatchStatus(TRUE)
  /\ UNCHANGED <<worker, standbyVars>>

\* Its call is refused or never arrives, and it is gone.
LateGone ==
  /\ late # Idle
  /\ late' = Idle
  /\ UNCHANGED <<vars, standbyVars>>

FailoverNext ==
  \/ Leads
  \/ \E c \in Consumers : StandbyObserves(c)
  \/ Failover
  \/ LateCall
  \/ LateGone

FailoverSpec == FailoverInit /\ [][FailoverNext]_failoverVars

-----------------------------------------------------------------------------
(* Properties.                                                             *)

\* Two processes that write keep the promise of one: the leader writes stale keys only,
\* and a key that a late call touches, or that nobody announced to the successor
\* although there is something to say about it, is stale until the leader put it right.
FailoverImplementsIndex == Index!SharedSpec
=============================================================================
