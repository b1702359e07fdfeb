----------------------------- MODULE UsageObject -----------------------------
(***************************************************************************)
(* The SecretUsage object: the labels and status one reconcile wants to    *)
(* write, the comparisons it makes before writing, and the JSON merge      *)
(* patches it sends (api/v1alpha1/secretusage_types.go and the pure parts  *)
(* of internal/controller/secretusage_controller.go).                      *)
(*                                                                         *)
(* A consumer is an object that can name Secrets.  It is identified by its *)
(* rank in the order usageReferenceLess puts the references in, so the     *)
(* sorted list of references to a Secret is a set of consumers.  Each      *)
(* consumer holds at most one reference to a given Secret.                 *)
(***************************************************************************)
EXTENDS Integers, FiniteSets

CONSTANTS
  Secrets,            \* Secret names: the keys of the work queue
  LongNames,          \* the names that are too long to be a label value
  Consumers,          \* the objects that may reference Secrets, by rank
  MaxUsages,          \* the --max-usages flag
  TrackUnusedSecrets, \* the --track-unused-secrets flag
  Absent              \* "no such object", "no such series"

ASSUME UsageObjectAssumption ==
  /\ LongNames \subseteq Secrets
  /\ Consumers \subseteq Nat
  /\ IsFiniteSet(Consumers)
  /\ MaxUsages \in Int
  /\ TrackUnusedSecrets \in BOOLEAN

-----------------------------------------------------------------------------
(* The object.                                                             *)

LabelKeys == {"secret-name", "unused", "missing"}

Statuses == [exists     : BOOLEAN,
             usageCount : Nat,
             truncated  : BOOLEAN,
             usages     : SUBSET Consumers]

\* "written" is FALSE until the status subresource is written for the first
\* time: creating the object drops the status sent along with it.
Objects == [labels : SUBSET LabelKeys, status : Statuses, written : BOOLEAN]

\* What a status that was never written decodes to.
NoStatus == [exists     |-> FALSE,
             usageCount |-> 0,
             truncated  |-> FALSE,
             usages     |-> {}]

\* The object Create stores, and the one Status().Update leaves.
created(labels) == [labels |-> labels, status |-> NoStatus, written |-> FALSE]

published(labels, status) == [labels |-> labels, status |-> status, written |-> TRUE]

-----------------------------------------------------------------------------
(* What a reconcile wants to publish about a Secret.                       *)

DefaultMaxUsages == 500

\* Mutant: a flag of zero is the limit.
limitAsGiven == MaxUsages

maxUsages == IF MaxUsages > 0 THEN MaxUsages ELSE DefaultMaxUsages

\* Mutant: the limit itself is one too many.
truncateOneEarly(found) ==
  {c \in found : Cardinality({d \in found : d <= c}) < maxUsages}

\* The references to record: the first maxUsages ones of the sorted list.
truncateUsages(found) ==
  {c \in found : Cardinality({d \in found : d <= c}) <= maxUsages}

desiredStatus(exists, found) ==
  [exists     |-> exists,
   usageCount |-> Cardinality(found),
   truncated  |-> Cardinality(found) > maxUsages,
   usages     |-> truncateUsages(found)]

desiredLabelsFor(s, exists, found) ==
  {l \in LabelKeys :
     \/ l = "secret-name" /\ s \notin LongNames
     \/ l = "unused"  /\ exists  /\ found = {}
     \/ l = "missing" /\ ~exists /\ found # {}}

\* Whether there is anything to describe.
tracked(exists, found) == found # {} \/ (exists /\ TrackUnusedSecrets)

-----------------------------------------------------------------------------
(* Comparing and patching.  The object read from the cache was decoded     *)
(* from JSON: an empty label map and an empty reference list were omitted  *)
(* there and come back as nil, while the desired ones are allocated.       *)
(* reflect.DeepEqual tells nil from empty, so an empty map or list never   *)
(* compares equal.                                                         *)

labelsDeepEqual(current, desired) == current = desired /\ desired # {}

\* Mutant: the counts are compared instead of the references.
statusCountsEqual(current, desired) ==
  [current EXCEPT !.usages = {}] = [desired EXCEPT !.usages = {}]

statusDeepEqual(current, desired) == current = desired /\ desired.usages # {}

\* client.MergeFrom sends only what differs between the object the reconcile
\* read (base) and the one it wants; the server applies that to the object it
\* holds (live).  A list is one value: it is replaced as a whole.
patchedLabels(base, desired, live) == (live \ (base \ desired)) \cup (desired \ base)

patchedField(base, desired, live) == IF base = desired THEN live ELSE desired

patchedStatus(base, desired, live) ==
  [exists     |-> patchedField(base.exists, desired.exists, live.exists),
   usageCount |-> patchedField(base.usageCount, desired.usageCount, live.usageCount),
   truncated  |-> patchedField(base.truncated, desired.truncated, live.truncated),
   usages     |-> patchedField(base.usages, desired.usages, live.usages)]

\* The reply to a patch is decoded into the object the worker holds: the fields
\* it omits, being FALSE or empty, keep the value they had there, and so does the
\* whole status when the object was removed and created again meanwhile, and its
\* status has not been written yet.
decodedInto(base, live, liveWritten) ==
  IF liveWritten THEN [live EXCEPT !.truncated = @ \/ base.truncated,
                                   !.usages    = IF @ = {} THEN base.usages ELSE @]
                 ELSE base

\* The custom resource definition requires exists and usageCount in a status.
\* A status that was never written has neither, so the first patch must bring
\* both, and it brings only what differs from the base: from the zero values of a copy
\* that was not written either, or from what decodedInto kept.
statusPatchValid(base, desired, liveWritten) ==
  \/ liveWritten
  \/ base.exists # desired.exists /\ base.usageCount # desired.usageCount
=============================================================================
