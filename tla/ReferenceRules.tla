--------------------------- MODULE ReferenceRules ---------------------------
(***************************************************************************)
(* How the process comes up with its custom-resource rules: the rules file *)
(* is read (LoadRules) and compiled (CompileRules), each kind is looked up *)
(* in the cluster (setupRules, kindIsInstalled), the fields are indexed,   *)
(* and the manager starts; or it exits and is restarted (rules.go,         *)
(* setupRules in secretusage_controller.go, main.go).  Meanwhile users     *)
(* install and remove custom resource definitions, and discovery may fail. *)
(***************************************************************************)
EXTENDS Integers, Sequences, FiniteSets

CONSTANTS
  Kinds,      \* group and kind: what identifies the stored objects
  Versions,   \* API versions a kind may be served at
  BuiltIn,    \* the pairs of kind and version tracked in code
  MaxRules,   \* bound on the rules of the file
  NoGVK,      \* apiVersion or kind left empty
  BadGVK      \* an apiVersion that does not parse

GVKs == Kinds \X Versions

\* paths: there are none, one of them does not parse, or all are good.
Rules == [gvk : GVKs \cup {NoGVK, BadGVK}, paths : {"none", "bad", "good"}]

ASSUME ReferenceRulesAssumption ==
  /\ BuiltIn \subseteq GVKs
  /\ MaxRules \in Nat
  /\ {NoGVK, BadGVK} \cap GVKs = {}

VARIABLES
  file,      \* the rules of the rules file: the same at every start
  readable,  \* the file is there, and has no field that is not known
  served,    \* what the API server serves
  pc,        \* where the process is
  position,  \* how many rules the loop at pc has handled
  compiled,  \* the rules CompileRules has accepted, in order
  installed, \* the rules setupRules has kept, in order
  missed     \* history: the kinds setupRules dropped since the process started

vars == <<file, readable, served, pc, position, compiled, installed, missed>>

TypeOK ==
  /\ file \in Seq(Rules) /\ Len(file) <= MaxRules
  /\ readable \in BOOLEAN
  /\ served \in SUBSET GVKs
  /\ pc \in {"load", "compile", "setup", "index", "start", "running", "exited"}
  /\ position \in Nat
  /\ compiled \in Seq(GVKs)
  /\ installed \in Seq(GVKs)
  /\ missed \in SUBSET GVKs

Elements(list) == {list[i] : i \in DOMAIN list}

exit == pc' = "exited" /\ UNCHANGED position

-----------------------------------------------------------------------------
(* LoadRules and CompileRules.                                             *)

\* The file is read and parsed; a file that cannot be ends the process.
LoadRules ==
  /\ pc = "load"
  /\ pc' = IF readable THEN "compile" ELSE "exited"
  /\ UNCHANGED <<file, readable, served, position, compiled, installed, missed>>

\* Mutant: a second rule for a kind is accepted.
acceptsDuplicate(rule) ==
  rule.gvk \in {NoGVK, BadGVK} \/ rule.paths # "good" \/ rule.gvk \in BuiltIn

\* Mutant: apiVersion and kind are not required.
acceptsIncomplete(rule) ==
  rule.gvk = BadGVK \/ rule.paths # "good" \/ rule.gvk \in BuiltIn \cup Elements(compiled)

\* Mutant: a path that does not parse is accepted.
acceptsAnyPath(rule) ==
  rule.gvk \in {NoGVK, BadGVK} \cup BuiltIn \cup Elements(compiled) \/ rule.paths = "none"

\* Why a rule is refused: incomplete, no path, an apiVersion that does not parse,
\* tracked natively, a duplicate, a bad path.
refuses(rule) ==
  \/ rule.gvk = NoGVK
  \/ rule.paths = "none"
  \/ rule.gvk = BadGVK
  \/ rule.gvk \in BuiltIn
  \/ rule.gvk \in Elements(compiled)
  \/ rule.paths = "bad"

\* Mutant: an invalid rule is skipped.
CompileOrSkip ==
  LET rule == file[position + 1] IN
  /\ pc = "compile"
  /\ position < Len(file)
  /\ position' = position + 1
  /\ compiled' = IF refuses(rule) THEN compiled ELSE Append(compiled, rule.gvk)
  /\ UNCHANGED <<file, readable, served, pc, installed, missed>>

\* One round of the loop: the first invalid rule ends it and the process.
CompileRules ==
  LET rule == file[position + 1] IN
  /\ pc = "compile"
  /\ position < Len(file)
  /\ IF refuses(rule)
     THEN exit /\ UNCHANGED compiled
     ELSE /\ position' = position + 1
          /\ compiled' = Append(compiled, rule.gvk)
          /\ UNCHANGED pc
  /\ UNCHANGED <<file, readable, served, installed, missed>>

Compiled ==
  /\ pc = "compile"
  /\ position = Len(file)
  /\ pc' = "setup"
  /\ position' = 0
  /\ UNCHANGED <<file, readable, served, compiled, installed, missed>>

-----------------------------------------------------------------------------
(* setupRules.                                                             *)

\* Mutant: a kind that is not served is kept.
setupKeepsAbsent ==
  LET gvk == compiled[position + 1] IN
  /\ pc = "setup"
  /\ position < Len(compiled)
  /\ position' = position + 1
  /\ installed' = Append(installed, gvk)
  /\ missed' = IF gvk \in served THEN missed ELSE missed \cup {gvk}
  /\ UNCHANGED <<file, readable, served, pc, compiled>>

\* kindIsInstalled answers for one rule.
setupRules ==
  LET gvk == compiled[position + 1] IN
  /\ pc = "setup"
  /\ position < Len(compiled)
  /\ position' = position + 1
  /\ IF gvk \in served
     THEN installed' = Append(installed, gvk) /\ UNCHANGED missed
     ELSE missed' = missed \cup {gvk} /\ UNCHANGED installed
  /\ UNCHANGED <<file, readable, served, pc, compiled>>

Installed ==
  /\ pc = "setup"
  /\ position = Len(compiled)
  /\ pc' = "index"
  /\ position' = 0
  /\ UNCHANGED <<file, readable, served, compiled, installed, missed>>

\* IndexField for one rule that is left.  It needs the kind's resource, and returns an
\* error when the kind was removed since it was looked up, unless the client's mapping
\* of kinds to resources still has it.
IndexRules ==
  /\ pc = "index"
  /\ position < Len(installed)
  /\ \/ position' = position + 1 /\ UNCHANGED pc
     \/ installed[position + 1] \notin served /\ exit
  /\ UNCHANGED <<file, readable, served, compiled, installed, missed>>

\* Discovery fails with something else than NotFound, for either loop: an API server
\* that is not reachable, an aggregated API that is down.
DiscoveryFails ==
  /\ \/ pc = "setup" /\ position < Len(compiled)
     \/ pc = "index" /\ position < Len(installed)
  /\ exit
  /\ UNCHANGED <<file, readable, served, compiled, installed, missed>>

\* Every kind that is left is indexed, and is watched.
Indexed ==
  /\ pc = "index"
  /\ position = Len(installed)
  /\ pc' = "start"
  /\ UNCHANGED <<file, readable, served, position, compiled, installed, missed>>

-----------------------------------------------------------------------------
(* The process.                                                            *)

\* The manager waits for the caches to sync; the cache of a kind that is not
\* served any more never does, and the manager stops.
Start ==
  /\ pc = "start"
  /\ pc' = IF Elements(installed) \subseteq served THEN "running" ELSE "exited"
  /\ UNCHANGED <<file, readable, served, position, compiled, installed, missed>>

\* A crash, or a rollout when the chart's checksum of the rules changes.
Stops ==
  /\ pc = "running"
  /\ exit
  /\ UNCHANGED <<file, readable, served, compiled, installed, missed>>

\* The container is restarted, and everything starts over.
Restarted ==
  /\ pc = "exited"
  /\ pc' = "load"
  /\ position' = 0
  /\ compiled' = <<>>
  /\ installed' = <<>>
  /\ missed' = {}
  /\ UNCHANGED <<file, readable, served>>

\* Users install and remove custom resource definitions.
ChangeServed(gvk) ==
  /\ gvk \notin BuiltIn
  /\ served' = IF gvk \in served THEN served \ {gvk} ELSE served \cup {gvk}
  /\ UNCHANGED <<file, readable, pc, position, compiled, installed, missed>>

Files == UNION {[1..n -> Rules] : n \in 0..MaxRules}

Init ==
  /\ file \in Files
  /\ readable \in BOOLEAN
  /\ served = BuiltIn
  /\ pc = "load"
  /\ position = 0
  /\ compiled = <<>>
  /\ installed = <<>>
  /\ missed = {}

Startup ==
  \/ LoadRules \/ CompileRules \/ Compiled
  \/ setupRules \/ Installed \/ IndexRules \/ Indexed
  \/ Start \/ Restarted

Next ==
  \/ Startup
  \/ DiscoveryFails
  \/ Stops
  \/ \E gvk \in GVKs : ChangeServed(gvk)

Spec == Init /\ [][Next]_vars

-----------------------------------------------------------------------------
(* Properties.                                                             *)

\* What the rules file must be: readable, and each rule complete, with paths that
\* parse, and for a kind that neither another rule nor the code tracks.
validFile ==
  /\ readable
  /\ \A i \in DOMAIN file :
       /\ file[i].gvk \in GVKs \ BuiltIn
       /\ file[i].paths = "good"
       /\ \A j \in DOMAIN file : file[j].gvk = file[i].gvk => i = j

\* A rules file is taken as a whole or not at all: a file with an invalid rule never
\* gets a process running, whatever was compiled before that rule was met, and a
\* process that runs tracks every kind the file names, but for those the cluster did
\* not serve when it was asked.
AllOrNothing ==
  pc = "running" =>
    /\ validFile
    /\ {file[i].gvk : i \in DOMAIN file} = Elements(installed) \cup missed

\* No kind is indexed or watched twice at the same version, natively or by rules.
NoKindTwice ==
  /\ Elements(installed) \cap BuiltIn = {}
  /\ \A i, j \in DOMAIN installed : installed[i] = installed[j] => i = j

FirstKinds(n) == {compiled[i] : i \in 1..n}

\* The inductive invariant behind the two: how far each loop has come, what it has
\* taken over from the list before, that it took over valid rules only, and that no
\* list holds a kind twice.
RulesInvariant ==
  /\ pc \notin {"load", "exited"} => readable
  /\ pc # "exited" => /\ Len(compiled) <= Len(file)
                      /\ \A i \in DOMAIN compiled :
                           compiled[i] = file[i].gvk /\ file[i].paths = "good"
  /\ pc \in {"load", "compile"} => Len(compiled) = position /\ installed = <<>> /\ missed = {}
  /\ pc = "setup" => position <= Len(compiled)
  /\ pc \in {"setup", "index", "start", "running"} =>
       /\ Len(compiled) = Len(file)
       /\ FirstKinds(IF pc = "setup" THEN position ELSE Len(compiled))
            = Elements(installed) \cup missed
  /\ Elements(compiled) \cap BuiltIn = {}
  /\ \A i, j \in DOMAIN compiled : compiled[i] = compiled[j] => i = j
  /\ NoKindTwice

\* What the documentation promises of a duplicate kind, and of a kind that is
\* tracked natively: they are refused, since they would be counted twice.  The same
\* objects are served at every version of a kind.
NoObjectTwice ==
  pc = "running" =>
    \A a, b \in Elements(installed) \cup BuiltIn :
      a # b /\ {a, b} \subseteq served /\ ~({a, b} \subseteq BuiltIn) => a[1] # b[1]

\* A file the cluster can serve, or whose kinds it does not know, does not keep the
\* process from running: it comes up each time, unless the file is invalid.
ValidFileRuns == validFile => <>[](pc = "running")
=============================================================================
