------------------------ MODULE ReferenceRulesProofs ------------------------
(***************************************************************************)
(* Proofs about ReferenceRules, for any kinds, versions and built-in       *)
(* types, a rules file of any length, and a cluster that changes and fails *)
(* at any time.                                                            *)
(***************************************************************************)
EXTENDS ReferenceRules, SequenceTheorems, TLAPS

-----------------------------------------------------------------------------
(* Lists.                                                                  *)

\* What a list holds after something was appended to it.
LEMMA AppendedElements ==
  ASSUME NEW S, NEW list \in Seq(S), NEW element \in S
  PROVE  /\ Append(list, element) \in Seq(S)
         /\ Len(list) \in Nat /\ Len(Append(list, element)) = Len(list) + 1
         /\ DOMAIN list = 1..Len(list)
         /\ DOMAIN Append(list, element) = 1..(Len(list) + 1)
         /\ \A i \in 1..Len(list) : Append(list, element)[i] = list[i]
         /\ Append(list, element)[Len(list) + 1] = element
         /\ Elements(Append(list, element)) = Elements(list) \cup {element}
  <1>1. /\ Append(list, element) \in Seq(S)
        /\ Len(list) \in Nat /\ Len(Append(list, element)) = Len(list) + 1
        /\ DOMAIN list = 1..Len(list)
        /\ DOMAIN Append(list, element) = 1..(Len(list) + 1)
        /\ \A i \in 1..Len(list) : Append(list, element)[i] = list[i]
        /\ Append(list, element)[Len(list) + 1] = element
    BY AppendProperties, LenProperties
  <1>2. 1..(Len(list) + 1) = 1..Len(list) \cup {Len(list) + 1}
    BY <1>1
  <1> HIDE DEF Elements
  <1>3. Elements(Append(list, element)) = Elements(list) \cup {element}
    BY <1>1, <1>2 DEF Elements
  <1> QED
    BY <1>1, <1>3

\* Appending something new keeps the elements of a list distinct.
LEMMA AppendedDistinct ==
  ASSUME NEW S, NEW list \in Seq(S), NEW element \in S, element \notin Elements(list),
         \A i, j \in DOMAIN list : list[i] = list[j] => i = j
  PROVE  \A i, j \in DOMAIN Append(list, element) :
           Append(list, element)[i] = Append(list, element)[j] => i = j
  <1> DEFINE longer == Append(list, element)
  <1>1. /\ DOMAIN list = 1..Len(list) /\ DOMAIN longer = 1..(Len(list) + 1) /\ Len(list) \in Nat
        /\ \A i \in 1..Len(list) : longer[i] = list[i]
        /\ longer[Len(list) + 1] = element
    BY AppendedElements
  <1>2. \A i \in 1..Len(list) : longer[i] # element
    BY <1>1 DEF Elements
  <1>3. \A i \in 1..(Len(list) + 1) : i \in 1..Len(list) \/ i = Len(list) + 1
    BY <1>1
  <1> HIDE DEF longer
  <1> QED
    BY <1>1, <1>2, <1>3 DEF longer

\* One more of the kinds compiled.
LEMMA NextKind ==
  ASSUME position \in Nat
  PROVE  FirstKinds(position + 1) = FirstKinds(position) \cup {compiled[position + 1]}
  <1>1. 1..(position + 1) = 1..position \cup {position + 1}
    OBVIOUS
  <1> QED
    BY <1>1 DEF FirstKinds

-----------------------------------------------------------------------------
(* Steps.                                                                  *)

LEMMA InitRules == Init => TypeOK /\ RulesInvariant
  <1> SUFFICES ASSUME Init PROVE TypeOK /\ RulesInvariant
    OBVIOUS
  <1>1. file \in Seq(Rules) /\ Len(file) \in 0..MaxRules
    <2>1. PICK n \in 0..MaxRules : file \in [1..n -> Rules]
      BY DEF Init, Files
    <2>2. n \in Nat
      BY <2>1, ReferenceRulesAssumption
    <2> QED
      BY <2>1, <2>2, IsASeq, LenProperties
  <1>2. compiled = <<>> /\ installed = <<>> /\ Elements(<<>>) = {} /\ DOMAIN <<>> = {} /\ Len(<<>>) = 0
    BY EmptySeq DEF Init, Elements
  <1>3. TypeOK
    BY <1>1, <1>2, EmptySeq, ReferenceRulesAssumption DEF Init, TypeOK
  <1>4. RulesInvariant
    BY <1>1, <1>2 DEF Init, RulesInvariant, NoKindTwice
  <1> QED
    BY <1>3, <1>4

\* The three loops and what ends them keep the invariant.
LEMMA NextRules ==
  ASSUME TypeOK, RulesInvariant, [Next]_vars
  PROVE  TypeOK' /\ RulesInvariant'
  <1> USE ReferenceRulesAssumption DEF vars
  <1>1. /\ Len(file) \in Nat /\ Len(compiled) \in Nat /\ position \in Nat
        /\ Len(file) <= MaxRules
        /\ DOMAIN file = 1..Len(file) /\ DOMAIN compiled = 1..Len(compiled)
    BY LenProperties DEF TypeOK
  <1>2. CASE CompileRules
    <2> DEFINE rule == file[position + 1]
    <2>1. /\ pc = "compile" /\ position < Len(file) /\ position + 1 \in 1..Len(file)
          /\ UNCHANGED <<file, readable, served, installed, missed>>
      BY <1>1, <1>2 DEF CompileRules
    <2>2. rule \in Rules
      BY <2>1, ElementOfSeq DEF TypeOK
    <2>3. CASE refuses(rule)
      <3>1. pc' = "exited" /\ UNCHANGED <<position, compiled>>
        BY <1>2, <2>3 DEF CompileRules, exit
      <3>2. TypeOK'
        BY <2>1, <3>1 DEF TypeOK
      <3>3. RulesInvariant'
        BY <2>1, <3>1 DEF RulesInvariant, NoKindTwice, Elements
      <3> QED
        BY <3>2, <3>3
    <2>4. CASE ~refuses(rule)
      <3>1. /\ position' = position + 1 /\ compiled' = Append(compiled, rule.gvk) /\ UNCHANGED pc
            /\ rule.gvk \in GVKs /\ rule.gvk \notin BuiltIn /\ rule.gvk \notin Elements(compiled)
            /\ rule.paths = "good"
        BY <1>2, <2>2, <2>4 DEF CompileRules, refuses, Rules
      <3>2. /\ compiled' \in Seq(GVKs) /\ Len(compiled') = Len(compiled) + 1
            /\ DOMAIN compiled' = 1..(Len(compiled) + 1)
            /\ \A i \in 1..Len(compiled) : compiled'[i] = compiled[i]
            /\ compiled'[Len(compiled) + 1] = rule.gvk
            /\ Elements(compiled') = Elements(compiled) \cup {rule.gvk}
        BY <3>1, AppendedElements DEF TypeOK
      <3>3. TypeOK'
        <4> HIDE DEF rule
        <4>1. position' = position + 1 /\ pc' = pc
          BY <3>1
        <4>2. position' \in Nat
          BY <1>1, <4>1
        <4> QED
          BY <2>1, <3>2, <4>1, <4>2 DEF TypeOK
      <3>4. Len(compiled) = position /\ installed = <<>> /\ missed = {}
        BY <2>1 DEF RulesInvariant
      <3>5. Len(compiled') <= Len(file) /\ Len(compiled') = position'
        BY <1>1, <2>1, <3>1, <3>2, <3>4
      <3>6. \A i \in DOMAIN compiled' : compiled'[i] = file[i].gvk /\ file[i].paths = "good"
        <4>1. \A i \in 1..Len(compiled) : compiled[i] = file[i].gvk /\ file[i].paths = "good"
          BY <1>1, <2>1 DEF RulesInvariant
        <4>2. \A i \in 1..(Len(compiled) + 1) : i \in 1..Len(compiled) \/ i = position + 1
          BY <1>1, <3>4
        <4> QED
          BY <3>1, <3>2, <3>4, <4>1, <4>2
      <3>7. \A i, j \in DOMAIN compiled' : compiled'[i] = compiled'[j] => i = j
        <4>1. \A i, j \in DOMAIN compiled : compiled[i] = compiled[j] => i = j
          BY DEF RulesInvariant
        <4>2. compiled \in Seq(GVKs)
          BY DEF TypeOK
        <4> QED
          BY <3>1, <4>1, <4>2, AppendedDistinct
      <3>8. Elements(compiled') \cap BuiltIn = {}
        BY <3>1, <3>2 DEF RulesInvariant
      <3>9. NoKindTwice'
        BY <2>1 DEF RulesInvariant, NoKindTwice
      <3> QED
        BY <2>1, <3>1, <3>3, <3>4, <3>5, <3>6, <3>7, <3>8, <3>9 DEF RulesInvariant
    <2> QED
      BY <2>3, <2>4
  <1>3. CASE Compiled
    <2>1. /\ pc = "compile" /\ position = Len(file) /\ pc' = "setup" /\ position' = 0
          /\ UNCHANGED <<file, readable, served, compiled, installed, missed>>
      BY <1>3 DEF Compiled
    <2>2. installed = <<>> /\ missed = {} /\ Len(compiled) = Len(file) /\ readable
      BY <2>1 DEF RulesInvariant
    <2>3. FirstKinds(0)' = {} /\ Elements(<<>>) = {}
      BY EmptySeq DEF FirstKinds, Elements
    <2>4. TypeOK'
      BY <1>1, <2>1 DEF TypeOK
    <2>5. FirstKinds(position)' = Elements(installed)' \cup missed'
      BY <2>1, <2>2, <2>3 DEF FirstKinds
    <2>6. NoKindTwice'
      BY <2>1 DEF RulesInvariant, NoKindTwice
    <2> QED
      BY <1>1, <2>1, <2>2, <2>4, <2>5, <2>6 DEF RulesInvariant
  <1>4. CASE setupRules
    <2> DEFINE gvk == compiled[position + 1]
    <2>1. /\ pc = "setup" /\ position < Len(compiled) /\ position + 1 \in 1..Len(compiled)
          /\ position' = position + 1 /\ UNCHANGED <<file, readable, served, pc, compiled>>
      BY <1>1, <1>4 DEF setupRules
    <2>2. gvk \in GVKs
      BY <2>1, ElementOfSeq DEF TypeOK
    <2>3. /\ FirstKinds(position) = Elements(installed) \cup missed
          /\ Len(compiled) = Len(file)
      BY <2>1 DEF RulesInvariant
    <2>4. FirstKinds(position') = FirstKinds(position) \cup {gvk}
      BY <1>1, <2>1, NextKind
    <2>41. FirstKinds(position)' = FirstKinds(position')
      BY <2>1 DEF FirstKinds
    <2>5. gvk \notin FirstKinds(position) /\ gvk \notin BuiltIn
      <3>1. \A i \in 1..position : compiled[i] # gvk
        BY <1>1, <2>1 DEF RulesInvariant
      <3>2. gvk \in Elements(compiled)
        BY <1>1, <2>1 DEF Elements
      <3> QED
        BY <3>1, <3>2 DEF FirstKinds, RulesInvariant
    <2> HIDE DEF gvk
    <2>6. CASE installed' = Append(installed, gvk) /\ UNCHANGED missed
      <3>1. installed \in Seq(GVKs) /\ gvk \notin Elements(installed)
        BY <2>3, <2>5 DEF TypeOK
      <3>2. installed' \in Seq(GVKs) /\ Elements(installed') = Elements(installed) \cup {gvk}
        BY <2>2, <2>6, <3>1, AppendedElements
      <3>3. \A i, j \in DOMAIN installed' : installed'[i] = installed'[j] => i = j
        <4>1. \A i, j \in DOMAIN installed : installed[i] = installed[j] => i = j
          BY DEF RulesInvariant, NoKindTwice
        <4> QED
          BY <2>2, <2>6, <3>1, <4>1, AppendedDistinct
      <3>4. NoKindTwice'
        BY <2>5, <3>2, <3>3 DEF RulesInvariant, NoKindTwice
      <3>5. TypeOK'
        BY <1>1, <2>1, <2>3, <2>6, <3>2 DEF TypeOK
      <3>6. FirstKinds(position)' = Elements(installed)' \cup missed'
        <4>1. FirstKinds(position)' = (Elements(installed) \cup missed) \cup {gvk}
          BY <2>3, <2>4, <2>41
        <4>2. Elements(installed)' = Elements(installed) \cup {gvk} /\ missed' = missed
          BY <2>6, <3>2 DEF Elements
        <4> QED
          BY <4>1, <4>2
      <3> QED
        BY <1>1, <2>1, <3>4, <3>5, <3>6 DEF RulesInvariant
    <2>7. CASE missed' = missed \cup {gvk} /\ UNCHANGED installed
      <3>1. TypeOK'
        BY <1>1, <2>1, <2>2, <2>3, <2>7 DEF TypeOK
      <3>2. FirstKinds(position)' = Elements(installed)' \cup missed'
        <4>1. FirstKinds(position)' = (Elements(installed) \cup missed) \cup {gvk}
          BY <2>3, <2>4, <2>41
        <4>2. Elements(installed)' = Elements(installed) /\ missed' = missed \cup {gvk}
          BY <2>7 DEF Elements
        <4> QED
          BY <4>1, <4>2
      <3>3. NoKindTwice'
        BY <2>7 DEF RulesInvariant, NoKindTwice
      <3> QED
        BY <1>1, <2>1, <3>1, <3>2, <3>3 DEF RulesInvariant
    <2> QED
      BY <1>4, <2>6, <2>7 DEF setupRules, gvk
  <1>5. CASE Installed \/ IndexRules \/ Indexed \/ Start \/ DiscoveryFails \/ Stops
    <2>1. /\ UNCHANGED <<file, readable, served, compiled, installed, missed>>
          /\ pc \in {"setup", "index", "start", "running"}
          /\ pc' \in {"index", "start", "running", "exited"}
          /\ pc' # "exited" /\ pc = "setup" => position = Len(compiled)
          /\ position' \in Nat
      <3>1. CASE Installed
        BY <3>1 DEF Installed
      <3>2. CASE IndexRules
        BY <1>1, <3>2 DEF IndexRules, exit
      <3>3. CASE Indexed \/ Start
        BY <1>1, <3>3 DEF Indexed, Start
      <3>4. CASE DiscoveryFails \/ Stops
        BY <1>1, <3>4 DEF DiscoveryFails, Stops, exit
      <3> QED
        BY <1>5, <3>1, <3>2, <3>3, <3>4
    <2>2. TypeOK'
      BY <2>1 DEF TypeOK
    <2>3. NoKindTwice' /\ \A n : FirstKinds(n)' = FirstKinds(n)
      BY <2>1 DEF FirstKinds, RulesInvariant, NoKindTwice
    <2>4. pc' # "exited" => FirstKinds(Len(compiled)) = Elements(installed) \cup missed
      BY <2>1 DEF RulesInvariant
    <2>5. Elements(compiled)' = Elements(compiled) /\ Elements(installed)' = Elements(installed)
      BY <2>1 DEF Elements
    <2> QED
      BY <2>1, <2>2, <2>3, <2>4, <2>5 DEF RulesInvariant
  <1>6. CASE Restarted \/ LoadRules
    <2>1. CASE Restarted
      <3>1. /\ pc' = "load" /\ position' = 0 /\ compiled' = <<>> /\ installed' = <<>>
            /\ missed' = {} /\ UNCHANGED <<file, readable, served>>
        BY <2>1 DEF Restarted
      <3>2. Elements(<<>>) = {} /\ DOMAIN <<>> = {} /\ Len(<<>>) = 0
        BY EmptySeq DEF Elements
      <3>3. TypeOK'
        BY <3>1, EmptySeq DEF TypeOK
      <3>4. NoKindTwice'
        BY <3>1, <3>2 DEF NoKindTwice
      <3>5. /\ Len(compiled') <= Len(file') /\ Len(compiled') = position'
            /\ Elements(compiled') = {} /\ DOMAIN compiled' = {}
        BY <1>1, <3>1, <3>2
      <3> QED
        BY <3>1, <3>3, <3>4, <3>5 DEF RulesInvariant
    <2>2. CASE LoadRules
      <3>1. /\ pc = "load" /\ pc' \in {"compile", "exited"}
            /\ pc' = "compile" => readable
            /\ UNCHANGED <<file, readable, served, position, compiled, installed, missed>>
        BY <2>2 DEF LoadRules
      <3>2. TypeOK'
        BY <3>1 DEF TypeOK
      <3>3. NoKindTwice' /\ Elements(compiled)' = Elements(compiled)
        BY <3>1 DEF RulesInvariant, NoKindTwice, Elements
      <3> QED
        BY <3>1, <3>2, <3>3 DEF RulesInvariant
    <2> QED
      BY <1>6, <2>1, <2>2
  <1>7. ASSUME NEW gvk \in GVKs, ChangeServed(gvk) PROVE TypeOK' /\ RulesInvariant'
    <2>1. UNCHANGED <<file, readable, pc, position, compiled, installed, missed>> /\ served' \in SUBSET GVKs
      BY <1>7 DEF ChangeServed, TypeOK
    <2> QED
      BY <2>1 DEF TypeOK, RulesInvariant, NoKindTwice, FirstKinds
  <1>8. CASE UNCHANGED vars
    BY <1>8 DEF TypeOK, RulesInvariant, NoKindTwice, FirstKinds
  <1> QED
    BY <1>2, <1>3, <1>4, <1>5, <1>6, <1>7, <1>8 DEF Next, Startup

\* The inductive invariant: what each loop has taken over so far.
THEOREM RulesInvariantHolds == Spec => []RulesInvariant
  <1>1. TypeOK /\ RulesInvariant /\ [Next]_vars => (TypeOK /\ RulesInvariant)'
    BY NextRules
  <1> QED
    BY InitRules, <1>1, PTL DEF Spec

\* The process only ever holds lists of kinds it can watch.
THEOREM RulesTypeCorrect == Spec => []TypeOK
  <1>1. TypeOK /\ RulesInvariant /\ [Next]_vars => (TypeOK /\ RulesInvariant)'
    BY NextRules
  <1> QED
    BY InitRules, <1>1, PTL DEF Spec

\* A file with an invalid rule never gets a process running, and a process that runs has
\* taken over every rule of its file but those for kinds the cluster did not serve when
\* it was asked.
THEOREM FileTakenAsAWhole == Spec => []AllOrNothing
  <1>1. TypeOK /\ RulesInvariant => AllOrNothing
    <2> SUFFICES ASSUME TypeOK, RulesInvariant, pc = "running"
                 PROVE  /\ validFile
                        /\ {file[i].gvk : i \in DOMAIN file} = Elements(installed) \cup missed
      BY DEF AllOrNothing
    <2>1. /\ readable /\ Len(compiled) = Len(file)
          /\ FirstKinds(Len(compiled)) = Elements(installed) \cup missed
          /\ DOMAIN compiled = 1..Len(compiled) /\ DOMAIN file = 1..Len(file)
          /\ compiled \in Seq(GVKs)
      BY LenProperties DEF TypeOK, RulesInvariant
    <2>2. \A i \in DOMAIN file : compiled[i] = file[i].gvk /\ file[i].paths = "good"
      BY <2>1 DEF RulesInvariant
    <2>3. validFile
      <3> SUFFICES ASSUME NEW i \in DOMAIN file
                   PROVE  /\ file[i].gvk \in GVKs \ BuiltIn
                          /\ file[i].paths = "good"
                          /\ \A j \in DOMAIN file : file[j].gvk = file[i].gvk => i = j
        BY <2>1 DEF validFile
      <3>1. compiled[i] \in GVKs
        BY <2>1, ElementOfSeq
      <3>2. compiled[i] \in Elements(compiled)
        BY <2>1 DEF Elements
      <3>3. \A j \in DOMAIN file : compiled[j] = compiled[i] => i = j
        BY <2>1 DEF RulesInvariant
      <3> QED
        BY <2>2, <3>1, <3>2, <3>3 DEF RulesInvariant
    <2> QED
      BY <2>1, <2>2, <2>3 DEF FirstKinds
  <1> QED
    BY <1>1, RulesInvariantHolds, RulesTypeCorrect, PTL

\* Whatever the file says, and however the cluster changes between two starts, no kind
\* is watched twice at one version.
THEOREM NeverWatchedTwice == Spec => []NoKindTwice
  <1>1. RulesInvariant => NoKindTwice
    BY DEF RulesInvariant
  <1> QED
    BY <1>1, RulesInvariantHolds, PTL
=============================================================================
