------------------------------ MODULE LiveIndex ------------------------------
(***************************************************************************)
(* What the controller promises, without caches, events, queues or calls:  *)
(* an index of the Secrets of a cluster, with a series and an object for   *)
(* each, that lags behind what the cluster calls for and catches up.       *)
(*                                                                         *)
(* A key is stale from the moment its view moves, or somebody touches what *)
(* is said about it, until that is right.  Only stale keys are written,    *)
(* one at a time, and what is said about the others is right.              *)
(***************************************************************************)
CONSTANTS
  Keys,      \* what the index is about
  Series,    \* what a series may say
  NoSeries   \* the series of a key that has none

Views == [series : Series \cup {NoSeries}, present : BOOLEAN]

VARIABLES
  wanted,   \* what the view of each key calls for
  series,   \* the series of each key: kept in memory
  present,  \* whether each key has an object: kept by the API server
  stale     \* the keys that still have to be brought up to date

vars == <<wanted, series, present, stale>>

TypeOK ==
  /\ wanted \in [Keys -> Views]
  /\ series \in [Keys -> Series \cup {NoSeries}]
  /\ present \in [Keys -> BOOLEAN]
  /\ stale \in SUBSET Keys

Right(k) == wanted[k] = [series |-> series[k], present |-> present[k]]

Correct == \A k \in Keys \ stale : Right(k)

Init == TypeOK /\ Correct

OnlyChangesAt(f, K) == \A k \in Keys \ K : f'[k] = f[k]

\* The view of some keys moves: all of them become stale.
ViewMoves(K) ==
  /\ OnlyChangesAt(wanted, K)
  /\ stale' = stale \cup K
  /\ UNCHANGED <<series, present>>

\* Somebody else removes an object.
Disturb(k) ==
  /\ present' = [present EXCEPT ![k] = FALSE]
  /\ stale' = stale \cup {k}
  /\ UNCHANGED <<wanted, series>>

\* What is said about a stale key is written, or a part of it.
Write(k) ==
  /\ k \in stale
  /\ OnlyChangesAt(series, {k})
  /\ OnlyChangesAt(present, {k})
  /\ UNCHANGED <<wanted, stale>>

\* The last write: what is said about the key is right and will be left alone.
Settle(k) ==
  /\ k \in stale
  /\ OnlyChangesAt(series, {k})
  /\ UNCHANGED <<wanted, present>>
  /\ stale' = stale \ {k}
  /\ Right(k)'

\* What is kept in memory is lost, and the view is taken anew.
Restart ==
  /\ series' = [k \in Keys |-> NoSeries]
  /\ UNCHANGED present
  /\ Correct'

Next ==
  /\ TypeOK'
  /\ \/ \E K \in SUBSET Keys : ViewMoves(K)
     \/ \E k \in Keys : Disturb(k) \/ Write(k) \/ Settle(k)
     \/ Restart

Spec == Init /\ [][Next]_vars

\* Somebody else writes about a key, which makes it stale.
Meddle(k) ==
  /\ OnlyChangesAt(present, {k})
  /\ stale' = stale \cup {k}
  /\ UNCHANGED <<wanted, series>>

\* The index when somebody else writes the objects too.
SharedNext == Next \/ (TypeOK' /\ \E k \in Keys : Meddle(k))

SharedSpec == Init /\ [][SharedNext]_vars

\* However its view moves and whoever touches it, a key is right again and again.
CatchesUp == \A k \in Keys : []<>Right(k)
=============================================================================
