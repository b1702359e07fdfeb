-------------------------- MODULE ConsumerTracking --------------------------
(***************************************************************************)
(* What an object contributes to the references of a Secret, and which     *)
(* keys its events add to the work queue (secret_refs.go, rules.go and the *)
(* collectors and event handlers of secretusage_controller.go).            *)
(*                                                                         *)
(* An object that may name Secrets is the list of its slots, in the order  *)
(* the extractors visit them: image pull secrets, volumes, init            *)
(* containers, containers, ephemeral containers; TLS entries; the results  *)
(* of a rule's paths.  A slot holds the Secret name found there and what   *)
(* tells references apart: the field path, and the container, the key and  *)
(* the optional flag as one value.  The field path of a built-in kind has  *)
(* the index of the slot in it; that of a rule is the rule's expression,   *)
(* so one object may hold the same slot twice.                             *)
(*                                                                         *)
(* A list of references is the set of its positions.  This module says     *)
(* what is tracked, given the objects as the caches hold them; when the    *)
(* controller looks at them is SecretUsageController's subject.            *)
(***************************************************************************)
EXTENDS Integers, Sequences, FiniteSets

CONSTANTS
  Names,           \* Secret names
  Empty,           \* the empty Secret name
  Paths,           \* field paths, in their order
  Workloads,       \* objects of the kinds in podControllerKinds
  Pods,
  MaxSlots,        \* bound on the slots of an object
  TrackOwnedPods,  \* the --track-owned-pods flag
  Absent

ASSUME ConsumerTrackingAssumption ==
  /\ Empty \notin Names
  /\ Workloads \cap Pods = {}
  /\ MaxSlots \in Nat
  /\ TrackOwnedPods \in BOOLEAN

VARIABLES
  templates,  \* the slots of each workload's pod template, or Absent
  pods,       \* each Pod, or Absent
  enqueued    \* the keys the handlers of the last event added

vars == <<templates, pods, enqueued>>

Slots == [name : Names \cup {Empty}, path : Paths]

SlotLists == UNION {[1..n -> Slots] : n \in 0..MaxSlots}

\* A Pod's owner is a workload, an object of another kind, or nobody.
Foreign == "foreign"
Nobody  == "nobody"

PodStates == [slots    : SlotLists,
              owner    : Workloads \cup {Foreign, Nobody},
              controls : BOOLEAN]  \* the owner reference has controller: true

TypeOK ==
  /\ templates \in [Workloads -> SlotLists \cup {Absent}]
  /\ pods \in [Pods -> PodStates \cup {Absent}]
  /\ enqueued \in SUBSET Names

-----------------------------------------------------------------------------
(* Extraction.                                                             *)

\* Mutant: references are not deduplicated.
keepAll(slots, refs) == refs

\* The first of equal references is kept.
dedupeReferences(slots, refs) ==
  {i \in refs : \A j \in refs : j < i => slots[j] # slots[i]}

\* A slot without a name is no reference.
appendReference(slots) == {i \in DOMAIN slots : slots[i].name # Empty}

referencesForObject(slots) == dedupeReferences(slots, appendReference(slots))

\* The names the field index holds for the object; the empty one is left out again.
SecretNamesForObject(slots) == {slots[i].name : i \in referencesForObject(slots)} \ {Empty}

usageReferencesForObject(slots, s) ==
  {i \in referencesForObject(slots) : slots[i].name = s}

\* Mutant: the controller flag of the owner reference is not looked at.
PodIsCoveredByAnyOwner(pod) == pod.owner \in Workloads

PodIsCoveredByController(pod) == pod.controls /\ pod.owner \in Workloads

skipPod(pod) == ~TrackOwnedPods /\ PodIsCoveredByController(pod)

-----------------------------------------------------------------------------
(* Collection.                                                             *)

\* An object the collectors look at: Pods covered by their controller are not.
collected(o) ==
  IF o \in Pods THEN pods[o] # Absent /\ ~skipPod(pods[o])
  ELSE templates[o] # Absent

slotsOf(o) == IF o \in Pods THEN pods[o].slots ELSE templates[o]

\* The references to Secret s: indexed lookup, then the object's references.
collectUsages(s) ==
  {ref \in (Workloads \cup Pods) \X (1..MaxSlots) :
     /\ collected(ref[1])
     /\ s \in SecretNamesForObject(slotsOf(ref[1]))
     /\ ref[2] \in usageReferencesForObject(slotsOf(ref[1]), s)}

\* A status entry: the object, and all a reference says.
entry(ref) == <<ref[1], slotsOf(ref[1])[ref[2]]>>

entries(s) == {entry(ref) : ref \in collectUsages(s)}

-----------------------------------------------------------------------------
(* Events.                                                                 *)

enqueueTemplate(slots) == IF slots = Absent THEN {} ELSE SecretNamesForObject(slots)

\* Mutant: the key of the Pod's owner is added, as a handler for owned objects would.
enqueueOwner(pod) == IF pod = Absent \/ skipPod(pod) THEN {} ELSE {pod.owner}

enqueuePod(pod) ==
  IF pod = Absent \/ skipPod(pod) THEN {}
  ELSE SecretNamesForObject(pod.slots)

\* Mutant: whether the Pod is skipped is decided for the new object only.
enqueueUnlessNewSkipped(old, new) ==
  IF new # Absent /\ skipPod(new) THEN {} ELSE enqueuePod(old) \cup enqueuePod(new)

\* A Pod event: the names in the old object and in the new one, each unless skipped.
enqueuePodEvent(old, new) == enqueuePod(old) \cup enqueuePod(new)

ChangeWorkload(w, new) ==
  /\ new # templates[w]
  /\ templates' = [templates EXCEPT ![w] = new]
  /\ enqueued' = enqueueTemplate(templates[w]) \cup enqueueTemplate(new)
  /\ UNCHANGED pods

ChangePod(p, new) ==
  /\ new # pods[p]
  /\ pods' = [pods EXCEPT ![p] = new]
  /\ enqueued' = enqueuePodEvent(pods[p], new)
  /\ UNCHANGED templates

\* A workload creates its Pod from its template; any other Pod is what its
\* creator says.
CreatePod(p, new) ==
  /\ pods[p] = Absent
  /\ new.owner \in Workloads /\ new.controls => new.slots = templates[new.owner]
  /\ ChangePod(p, new)

DeletePod(p) == pods[p] # Absent /\ ChangePod(p, Absent)

\* kubectl debug: ephemeral containers are the one part of a Pod that can grow.
AddEphemeralContainer(p, slot) ==
  /\ pods[p] # Absent
  /\ Len(pods[p].slots) < MaxSlots
  /\ ChangePod(p, [pods[p] EXCEPT !.slots = Append(@, slot)])

\* Adoption, and orphaning when the owner is deleted with its Pods left behind.
ChangeOwner(p, owner, controls) ==
  /\ pods[p] # Absent
  /\ owner \in Workloads => templates[owner] # Absent
  /\ ChangePod(p, [pods[p] EXCEPT !.owner = owner, !.controls = controls])

Init ==
  /\ templates = [w \in Workloads |-> Absent]
  /\ pods = [p \in Pods |-> Absent]
  /\ enqueued = {}

Next ==
  \/ \E w \in Workloads, new \in SlotLists \cup {Absent} : ChangeWorkload(w, new)
  \/ \E p \in Pods, new \in PodStates : CreatePod(p, new)
  \/ \E p \in Pods : DeletePod(p)
  \/ \E p \in Pods, slot \in Slots : AddEphemeralContainer(p, slot)
  \/ \E p \in Pods, owner \in Workloads \cup {Foreign, Nobody}, controls \in BOOLEAN :
       ChangeOwner(p, owner, controls)

Spec == Init /\ [][Next]_vars

-----------------------------------------------------------------------------
(* Properties.                                                             *)

\* Whatever an event changes in the references of a Secret, the Secret's key is
\* added: the handlers skip no more than the collectors do, through creation,
\* deletion, adoption, orphaning and ephemeral containers.
EnqueueCoversChange ==
  [][\A s \in Names : entries(s)' # entries(s) => s \in enqueued']_vars

\* No reference is counted twice, and no two are equal in usageReferenceLess, so
\* sorting and cutting the list always leaves the same one.
NoDoubleCount ==
  \A s \in Names : \A a, b \in collectUsages(s) : a # b => entry(a) # entry(b)

\* A Pod that no tracked workload controls is always recorded.
UncontrolledRecorded ==
  \A p \in Pods :
    pods[p] # Absent /\ ~(pods[p].controls /\ pods[p].owner \in Workloads) =>
      \A i \in DOMAIN pods[p].slots :
        pods[p].slots[i].name # Empty =>
          <<p, pods[p].slots[i]>> \in entries(pods[p].slots[i].name)

\* Every Secret a Pod names has a recorded reference.  It holds when owned Pods are
\* tracked.  The documentation states it for the default too, for "a Pod's Secret
\* references always come from its controller's pod template".
NothingLost ==
  \A p \in Pods :
    pods[p] # Absent =>
      \A s \in SecretNamesForObject(pods[p].slots) : collectUsages(s) # {}
=============================================================================
