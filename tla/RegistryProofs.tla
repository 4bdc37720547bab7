--------------------------- MODULE RegistryProofs ---------------------------
(* Proofs about Registry, for any services and methods, of any shape and     *)
(* number, any docs, and any values nested to any depth: what is listed can  *)
(* be called, a service is refused for a method that cannot be served, and   *)
(* for nothing else, the command line has a command for each method, however *)
(* often they are added, the converter writes the JSON of what it reads, and *)
(* the version depends on the services alone.                                *)
EXTENDS Registry, TLAPS, WellFoundedInduction, SequenceTheorems

EntryType(N, G) == [name : N, public : BOOLEAN, generator : BOOLEAN, args : Seq(Nat), group : G]

Count      == Len(services)
LastOf(s)  == Len(services[s].methods)
M(s, i)    == services[s].methods[i]
Served(m, s) == IsApi(m) /\ Accepted(m.ins) /\ HasType(m, s)
Generates(m, s) == IsGenerator(m.ins) \/ dashedName(m.name) \in s.gens
Taken(s, i) == \E name \in DOMAIN routes : routes[name].svc = s /\ routes[name].idx = i
Bad(s, j)  == j \in 1 .. LastOf(s) /\ IsApi(M(s, j)) /\ ~Accepted(M(s, j).ins)

ServicesTyped ==
  /\ services \in Seq(Range(services))
  /\ \A s \in 1 .. Count : IsService(services[s])

Typed ==
  /\ ServicesTyped
  /\ \E N, G : registry \in Seq(EntryType(N, G))
  /\ phase \in Phases
  /\ svc \in Nat \ {0} /\ svc <= Count + 1
  /\ method \in Nat \ {0} /\ (svc <= Count => method <= LastOf(svc) + 2)
  /\ docsLeft # {} => InDocs /\ docsLeft \subseteq DOMAIN services[svc].docs

(* What the mux calls was seen, can be served, and has the name it is under. *)
Routed ==
  \A name \in DOMAIN routes :
    LET h == routes[name] IN
    /\ h.svc \in 1 .. Count /\ h.idx \in 1 .. LastOf(h.svc)
    /\ Served(Target(name), services[h.svc]) /\ dashedName(Target(name).name) = name
    /\ h.public = (Target(name).prefix = "PublicApi")
    /\ h.svc < svc \/ (h.svc = svc /\ h.idx < method)
    /\ \A j : Bad(h.svc, j) => h.idx < j

(* The manifest says the same of the same names. *)
ManifestMatches ==
  phase # "panicked" =>
    /\ DOMAIN routes = {registry[i].name : i \in DOMAIN registry}
    /\ \A i \in DOMAIN registry :
         LET e == registry[i]  t == Target(e.name)  s == services[routes[e.name].svc]
         IN  e.public = (t.prefix = "PublicApi") /\ e.generator = Generates(t, s) /\ e.args = t.args

(* All methods of the present service that were passed are served; of those  *)
(* before it, all up to the first that could not be.                         *)
Passed ==
  /\ svc <= Count =>
       \A i \in 1 .. LastOf(svc) : i < method /\ IsApi(M(svc, i)) => Accepted(M(svc, i).ins) /\ Taken(svc, i)
  /\ \A s \in 1 .. Count : s < svc =>
       \A i \in 1 .. LastOf(s) : IsApi(M(s, i)) => Taken(s, i) \/ \E j : Bad(s, j) /\ j <= i

(* MakeService fails at the first of its services that is refused. *)
Failed ==
  /\ phase = "failed" => svc > 1 /\ svc - 1 <= Made /\ \E j : Bad(svc - 1, j)
  /\ phase # "failed" => \A s \in 1 .. Made : s < svc => \A j : ~Bad(s, j)

IInv == Typed /\ Routed /\ ManifestMatches /\ Passed /\ Failed

-----------------------------------------------------------------------------

LEMMA MadeIs == Made = 3
BY DEF Made, Own

(* A function on 1 .. n with values in S is a sequence over S. *)
LEMMA SequenceIs ==
  ASSUME NEW S, NEW n \in Nat, NEW f, f = [i \in 1 .. n |-> f[i]], \A i \in 1 .. n : f[i] \in S
  PROVE  f \in Seq(S)
OBVIOUS

LEMMA OwnServices == Len(Own) = 2 /\ Own \in Seq({DefaultMethods, MetricsMethods})
                     /\ IsService(DefaultMethods) /\ IsService(MetricsMethods)
<1>1. Ping \in Seq(Nat) /\ Scrape \in Seq(Nat)
  BY DEF Ping, Scrape, Upper, Lower
<1>2. DefaultMethods.methods \in Seq(Methods)
  <2> DEFINE m == Method("PublicApi", Ping, <<"info", "struct">>, FALSE, <<1>>)
  <2>0. <<"info", "struct">> \in Seq(Kinds) /\ <<1>> \in Seq(Nat)
    BY DEF Kinds
  <2>1. m \in Methods
    BY <1>1, <2>0 DEF Kinds, Method, Methods
  <2>2. DefaultMethods.methods = <<m>>
    BY DEF DefaultMethods, Service
  <2> HIDE DEF m
  <2> QED BY <2>1, <2>2
<1>3. MetricsMethods.methods \in Seq(Methods)
  <2> DEFINE m == Method("PublicApi", Scrape, <<"info">>, FALSE, <<>>)
  <2>0. <<"info">> \in Seq(Kinds) /\ <<>> \in Seq(Nat)
    BY DEF Kinds
  <2>1. m \in Methods
    BY <1>1, <2>0 DEF Kinds, Method, Methods
  <2>2. MetricsMethods.methods = <<m>>
    BY DEF MetricsMethods, Service
  <2> HIDE DEF m
  <2> QED BY <2>1, <2>2
<1>4. DefaultMethods.declared = <<>> /\ MetricsMethods.declared = <<>>
  BY DEF DefaultMethods, MetricsMethods, Service
<1>5. <<>> \in Seq(Range(<<>>))
  OBVIOUS
<1>7. Len(Own) = 2 /\ Own \in Seq({DefaultMethods, MetricsMethods})
  BY DEF Own
<1>8. IsService(DefaultMethods)
  <2>1. \A i \in DOMAIN DefaultMethods.methods :
          LET m == DefaultMethods.methods[i] IN m.ins # <<>> /\ m.ins[Len(m.ins)] = "struct"
    BY DEF DefaultMethods, Service, Method
  <2> QED BY <1>2, <1>4, <1>5, <2>1 DEF IsService
<1>9. IsService(MetricsMethods)
  <2>1. \A i \in DOMAIN MetricsMethods.methods : MetricsMethods.methods[i].args = <<>>
    BY DEF MetricsMethods, Service, Method
  <2> QED BY <1>3, <1>4, <1>5, <2>1 DEF IsService
<1> QED BY <1>7, <1>8, <1>9

LEMMA InitServices ==
  ASSUME Init
  PROVE  ServicesTyped
<1>1. CASE services = <<>>
  BY <1>1 DEF ServicesTyped, Count, Range
<1>2. CASE \E program \in Programs : services = Own \o program
  <2>1. PICK program \in Programs : services = Own \o program
    BY <1>2
  <2> DEFINE S == {DefaultMethods, MetricsMethods} \union Range(program)
  <2>2. program \in Seq(Range(program)) /\ \A s \in Range(program) : IsService(s)
    BY ProgramsKnown
  <2>3. \A s \in S : IsService(s)
    BY <2>2, OwnServices
  <2>4. Own \in Seq(S) /\ program \in Seq(S)
    BY <2>2, OwnServices
  <2> HIDE DEF S
  <2>5. services \in Seq(S)
    BY <2>1, <2>4
  <2>6. \A s \in 1 .. Count : services[s] \in S
    BY <2>5 DEF Count
  <2>7. services \in Seq(Range(services))
    <3>1. services = [i \in 1 .. Len(services) |-> services[i]] /\ Len(services) \in Nat
          /\ DOMAIN services = 1 .. Len(services)
      BY <2>5
    <3>2. \A i \in 1 .. Len(services) : services[i] \in Range(services)
      BY <3>1 DEF Range
    <3> QED BY <3>1, <3>2
  <2> QED BY <2>3, <2>6, <2>7 DEF ServicesTyped
<1> QED BY <1>1, <1>2 DEF Init

LEMMA InitIInv == Init => IInv
<1> SUFFICES ASSUME Init PROVE IInv
  OBVIOUS
<1>1. ServicesTyped
  BY InitServices
<1>2. Count \in Nat
  BY <1>1 DEF ServicesTyped, Count
<1>3. svc = 1 /\ method = 1 /\ docsLeft = {} /\ registry = <<>> /\ routes = <<>> /\ phase \in {"register", "client"}
  BY DEF Init
<1>4. DOMAIN routes = {} /\ DOMAIN registry = {}
  BY <1>3
<1>5. svc <= Count => LastOf(svc) \in Nat
  BY <1>1, <1>2, <1>3 DEF ServicesTyped, IsService, LastOf
<1>6. Typed
  <2>1. registry \in Seq(EntryType({}, {}))
    BY <1>3
  <2> QED BY <1>1, <1>2, <1>3, <1>5, <2>1 DEF Typed, Phases
<1>7. Routed /\ ManifestMatches
  BY <1>4 DEF Routed, ManifestMatches
<1>8. Passed /\ Failed
  BY <1>3 DEF Passed, Failed
<1> QED BY <1>6, <1>7, <1>8 DEF IInv

-----------------------------------------------------------------------------
(* The steps. *)

(* Facts about the services that each step needs.                            *)
LEMMA Facts ==
  ASSUME Typed
  PROVE  /\ Count \in Nat /\ DOMAIN services = 1 .. Count
         /\ \A s \in 1 .. Count :
              /\ LastOf(s) \in Nat /\ DOMAIN services[s].methods = 1 .. LastOf(s)
              /\ \A i \in 1 .. LastOf(s) : M(s, i) \in Methods
<1>1. services \in Seq(Range(services)) /\ \A s \in 1 .. Count : IsService(services[s])
  BY DEF Typed, ServicesTyped
<1>2. Count \in Nat /\ DOMAIN services = 1 .. Count
  BY <1>1 DEF Count
<1>3. ASSUME NEW s \in 1 .. Count
      PROVE  /\ LastOf(s) \in Nat /\ DOMAIN services[s].methods = 1 .. LastOf(s)
             /\ \A i \in 1 .. LastOf(s) : M(s, i) \in Methods
  <2>1. services[s].methods \in Seq(Methods)
    BY <1>1, <1>3 DEF IsService
  <2> QED BY <2>1 DEF LastOf, M
<1> QED BY <1>2, <1>3

(* The method RegisterService is at. *)
LEMMA AtCurrent ==
  ASSUME Typed, AtMethod
  PROVE  /\ svc \in 1 .. Count /\ method \in 1 .. LastOf(svc) /\ Current = M(svc, method)
         /\ Current \in Methods /\ docsLeft = {} /\ phase = "register"
<1>1. svc \in 1 .. Count /\ method \in Nat \ {0} /\ Count \in Nat /\ method <= LastOf(svc) /\ Current = M(svc, method)
      /\ phase = "register"
  BY Facts DEF Typed, AtMethod, Registering, Current, M, Count, LastOf
<1>2. LastOf(svc) \in Nat
  BY <1>1, Facts
<1>3. method \in 1 .. LastOf(svc)
  BY <1>1, <1>2
<1>4. Current \in Methods
  BY <1>1, <1>3, Facts
<1>5. ~InDocs
  BY <1>1, <1>2 DEF InDocs, LastOf
<1> QED BY <1>1, <1>3, <1>4, <1>5 DEF Typed

(* A step that leaves the services, the manifest and the mux as they are and *)
(* goes on to another method or service, or to another phase.                *)
LEMMA Unchanged ==
  ASSUME IInv, services' = services, routes' = routes
  PROVE  /\ ServicesTyped' /\ Count' = Count /\ \A s : LastOf(s)' = LastOf(s)
         /\ \A s, i : M(s, i)' = M(s, i) /\ (Taken(s, i)' <=> Taken(s, i)) /\ (Bad(s, i)' <=> Bad(s, i))
         /\ \A name : Target(name)' = Target(name)
<1>1. Range(services)' = Range(services)
  BY DEF Range
<1> QED BY <1>1 DEF IInv, Typed, ServicesTyped, Count, LastOf, M, Taken, Bad, Target

LEMMA RoutedStays ==
  ASSUME IInv, services' = services, routes' = routes, svc' \in Nat, method' \in Nat,
         svc < svc' \/ (svc' = svc /\ method <= method')
  PROVE  Routed'
<1> SUFFICES ASSUME NEW name \in DOMAIN routes
             PROVE  LET h == routes[name] IN
                    /\ h.svc \in 1 .. Count /\ h.idx \in 1 .. LastOf(h.svc)
                    /\ Served(Target(name), services[h.svc]) /\ dashedName(Target(name).name) = name
                    /\ h.public = (Target(name).prefix = "PublicApi")
                    /\ h.svc < svc' \/ (h.svc = svc' /\ h.idx < method')
                    /\ \A j : Bad(h.svc, j) => h.idx < j
  BY Unchanged DEF Routed
<1> DEFINE h == routes[name]
<1>1. /\ h.svc \in 1 .. Count /\ h.idx \in 1 .. LastOf(h.svc)
      /\ Served(Target(name), services[h.svc]) /\ dashedName(Target(name).name) = name
      /\ h.public = (Target(name).prefix = "PublicApi")
      /\ h.svc < svc \/ (h.svc = svc /\ h.idx < method)
      /\ \A j : Bad(h.svc, j) => h.idx < j
  BY DEF IInv, Routed
<1>2. h.svc \in Nat /\ h.idx \in Nat /\ svc \in Nat /\ method \in Nat
  BY <1>1, Facts DEF IInv, Typed
<1>3. h.svc < svc' \/ (h.svc = svc' /\ h.idx < method')
  BY <1>1, <1>2
<1> QED BY <1>1, <1>3

LEMMA ManifestStays ==
  ASSUME IInv, services' = services, routes' = routes, registry' = registry,
         phase = "panicked" => phase' = "panicked"
  PROVE  ManifestMatches'
BY Unchanged DEF IInv, ManifestMatches

(* The parts that a step which stays in phase and manifest has to show.      *)
LEMMA FailedStays ==
  ASSUME IInv, services' = services, routes' = routes,
         phase' = "failed" <=> phase = "failed", svc' = svc
  PROVE  Failed'
BY Unchanged DEF IInv, Failed

LEMMA SkipStep == ASSUME IInv, SkipMethod PROVE IInv'
<1>1. /\ AtMethod /\ ~IsApi(Current) /\ method' = method + 1
      /\ UNCHANGED <<services, phase, svc, docsLeft, registry, routes>>
  BY DEF SkipMethod
<1>2. /\ svc \in 1 .. Count /\ method \in 1 .. LastOf(svc) /\ Current = M(svc, method)
      /\ docsLeft = {} /\ LastOf(svc) \in Nat /\ Count \in Nat
  BY <1>1, AtCurrent, Facts DEF IInv
<1>3. Typed'
  <2>1. method' \in Nat \ {0} /\ method' <= LastOf(svc)' + 2
    BY <1>1, <1>2, Unchanged
  <2> QED BY <1>1, <1>2, <2>1, Unchanged DEF IInv, Typed
<1>4. Routed' /\ ManifestMatches' /\ Failed'
  BY <1>1, <1>2, RoutedStays, ManifestStays, FailedStays
<1>5. Passed'
  <2>1. ASSUME NEW i \in 1 .. LastOf(svc), i < method + 1, IsApi(M(svc, i))
        PROVE  Accepted(M(svc, i).ins) /\ Taken(svc, i)
    <3>1. i < method
      BY <1>1, <1>2, <2>1
    <3> QED BY <1>2, <2>1, <3>1 DEF IInv, Passed
  <2> QED BY <1>1, <2>1, Unchanged DEF IInv, Passed
<1> QED BY <1>3, <1>4, <1>5 DEF IInv

(* On to the next service. *)
LEMMA NextService ==
  ASSUME IInv, svc \in 1 .. Count, services' = services, routes' = routes, svc' = svc + 1, method' = 1,
         \A i \in 1 .. LastOf(svc) : IsApi(M(svc, i)) => Taken(svc, i) \/ \E j : Bad(svc, j) /\ j <= i
  PROVE  Passed'
<1>1. Count \in Nat /\ svc \in Nat
  BY Facts DEF IInv
<1>2. ASSUME NEW s \in 1 .. Count, s < svc + 1, NEW i \in 1 .. LastOf(s), IsApi(M(s, i))
      PROVE  Taken(s, i) \/ \E j : Bad(s, j) /\ j <= i
  <2>1. CASE s = svc
    BY <1>2, <2>1
  <2>2. CASE s # svc
    <3>1. s < svc
      BY <1>1, <1>2, <2>2
    <3> QED BY <1>2, <3>1 DEF IInv, Passed
  <2> QED BY <2>1, <2>2
<1>3. svc + 1 <= Count => \A i \in 1 .. LastOf(svc + 1) : ~(i < 1)
  BY <1>1, Facts DEF IInv
<1> QED BY <1>1, <1>2, <1>3, Unchanged DEF Passed

LEMMA RejectStep == ASSUME IInv, RejectMethod PROVE IInv'
<1>1. /\ AtMethod /\ IsApi(Current) /\ ~Accepted(Current.ins)
      /\ phase' = (IF svc <= Made THEN "failed" ELSE phase)
      /\ svc' = svc + 1 /\ method' = 1
      /\ UNCHANGED <<services, docsLeft, registry, routes>>
  BY DEF RejectMethod
<1>2. /\ svc \in 1 .. Count /\ method \in 1 .. LastOf(svc) /\ Current = M(svc, method)
      /\ docsLeft = {} /\ phase = "register" /\ LastOf(svc) \in Nat /\ Count \in Nat
  BY <1>1, AtCurrent, Facts DEF IInv
<1>3. Bad(svc, method)
  BY <1>1, <1>2 DEF Bad
<1>4. Typed'
  <2>1. svc' \in Nat \ {0} /\ svc' <= Count + 1 /\ phase' \in Phases
    BY <1>1, <1>2 DEF Phases
  <2>2. svc + 1 <= Count => LastOf(svc + 1) \in Nat
    BY <1>2, Facts DEF IInv
  <2>3. svc' <= Count' => method' <= LastOf(svc)' + 2
    BY <1>1, <2>2 DEF LastOf, Count
  <2> QED BY <1>1, <1>2, <2>1, <2>3, Unchanged DEF IInv, Typed
<1>5. Routed' /\ ManifestMatches'
  BY <1>1, <1>2, RoutedStays, ManifestStays
<1>6. Passed'
  <2>1. ASSUME NEW i \in 1 .. LastOf(svc), IsApi(M(svc, i))
        PROVE  Taken(svc, i) \/ \E j : Bad(svc, j) /\ j <= i
    <3>1. i < method \/ method <= i
      BY <1>2
    <3> QED BY <1>2, <1>3, <2>1, <3>1 DEF IInv, Passed
  <2> QED BY <1>1, <1>2, <2>1, NextService
<1>7. Failed'
  <2>1. CASE svc <= Made
    <3>1. phase' = "failed" /\ svc' > 1 /\ svc' - 1 = svc
      BY <1>1, <1>2, <2>1
    <3> QED BY <1>3, <2>1, <3>1, Unchanged, <1>1 DEF Failed
  <2>2. CASE ~(svc <= Made)
    <3>1. phase' = "register" /\ \A s \in 1 .. Made : s < svc
      BY <1>1, <1>2, <2>2, MadeIs
    <3>2. \A s \in 1 .. Made : \A j : ~Bad(s, j)
      BY <1>2, <3>1 DEF IInv, Failed
    <3> QED BY <1>1, <3>1, <3>2, Unchanged DEF Failed
  <2> QED BY <2>1, <2>2
<1> QED BY <1>4, <1>5, <1>6, <1>7 DEF IInv

LEMMA PanicStep == ASSUME IInv, PanicAtMethod PROVE IInv'
<1>1. /\ AtMethod /\ phase' = "panicked" /\ UNCHANGED <<services, svc, method, docsLeft, routes>>
      /\ \/ registry' = registry
         \/ registry' = Append(registry, Describe(Current, services[svc]))
  BY DEF PanicAtMethod, registering
<1>2. /\ svc \in 1 .. Count /\ Current \in Methods /\ docsLeft = {} /\ phase = "register"
      /\ method \in Nat /\ svc \in Nat
  BY <1>1, AtCurrent, Facts DEF IInv, Typed
<1>3. \E N, G : registry' \in Seq(EntryType(N, G))
  <2>1. PICK N, G : registry \in Seq(EntryType(N, G))
    BY DEF IInv, Typed
  <2> DEFINE e == Describe(Current, services[svc])
             T == EntryType(N \union {e.name}, G \union {e.group})
  <2>2. EntryType(N, G) \subseteq T
    BY DEF EntryType
  <2>3. e \in T
    BY <1>2 DEF Describe, EntryType, Methods, IsGenerator
  <2> HIDE DEF e, T
  <2>4. registry \in Seq(T) /\ Append(registry, e) \in Seq(T)
    BY <2>1, <2>2, <2>3
  <2>5. registry' \in Seq(T)
    BY <1>1, <2>4 DEF e
  <2> QED BY <2>5 DEF T
<1>4. Typed'
  <2>1. phase' \in Phases
    BY <1>1 DEF Phases
  <2> QED BY <1>1, <1>2, <1>3, <2>1, Unchanged DEF IInv, Typed
<1>5. Routed'
  BY <1>1, <1>2, RoutedStays
<1>6. ManifestMatches' /\ Failed'
  BY <1>1, <1>2, Unchanged DEF IInv, ManifestMatches, Failed
<1>7. Passed'
  BY <1>1, Unchanged DEF IInv, Passed
<1> QED BY <1>4, <1>5, <1>6, <1>7 DEF IInv

(* Going through the docs, and to the other phases. *)
LEMMA MethodsDone == ASSUME IInv, AllMethods PROVE IInv'
<1>1. /\ phase = "register" /\ svc <= Count /\ method = LastOf(svc) + 1
      /\ docsLeft' = DOMAIN services[svc].docs /\ method' = method + 1
      /\ UNCHANGED <<services, phase, svc, registry, routes>>
  BY DEF AllMethods, Registering, Count, LastOf
<1>2. svc \in 1 .. Count /\ LastOf(svc) \in Nat /\ Count \in Nat /\ method \in Nat /\ svc \in Nat
  BY <1>1, Facts DEF IInv, Typed
<1>3. Typed'
  <2>1. InDocs' /\ method' \in Nat \ {0} /\ method' <= LastOf(svc)' + 2
    BY <1>1, <1>2, Unchanged DEF InDocs, Registering, Count, LastOf
  <2> QED BY <1>1, <1>2, <2>1, Unchanged DEF IInv, Typed
<1>4. Routed' /\ ManifestMatches' /\ Failed'
  BY <1>1, <1>2, RoutedStays, ManifestStays, FailedStays
<1>5. Passed'
  <2>1. \A i \in 1 .. LastOf(svc) : i < method + 1 => i < method
    BY <1>1, <1>2
  <2> QED BY <1>1, <2>1, Unchanged DEF IInv, Passed
<1> QED BY <1>3, <1>4, <1>5 DEF IInv

LEMMA RegroupStep == ASSUME IInv, RegroupOne PROVE IInv'
<1>1. PICK name \in docsLeft : Regroup(name) /\ InDocs
  BY DEF RegroupOne
<1> DEFINE group == services[svc].docs[name]
<1>2. /\ registry' = [i \in DOMAIN registry |->
             IF registry[i].name = name /\ group # NoGroup
             THEN [registry[i] EXCEPT !.group = group] ELSE registry[i]]
      /\ docsLeft' = docsLeft \ {name}
      /\ UNCHANGED <<services, phase, svc, method, routes>>
  BY <1>1 DEF Regroup
<1> HIDE DEF group
<1>3. PICK N, G : registry \in Seq(EntryType(N, G))
  BY DEF IInv, Typed
<1>4. Len(registry) \in Nat /\ DOMAIN registry = 1 .. Len(registry)
      /\ \A i \in 1 .. Len(registry) : registry[i] \in EntryType(N, G)
  BY <1>3
<1>5. \A i \in 1 .. Len(registry) : registry'[i] \in EntryType(N, G \union {group})
  BY <1>2, <1>4 DEF EntryType
<1>6. DOMAIN registry' = 1 .. Len(registry)
  BY <1>2, <1>4
<1>7. registry' \in Seq(EntryType(N, G \union {group}))
  <2>1. registry' = [i \in 1 .. Len(registry) |-> registry'[i]]
    BY <1>2, <1>4
  <2> QED BY <1>4, <1>5, <2>1, SequenceIs
<1>8. \A i \in DOMAIN registry :
        /\ registry'[i].name = registry[i].name /\ registry'[i].public = registry[i].public
        /\ registry'[i].generator = registry[i].generator /\ registry'[i].args = registry[i].args
  BY <1>2, <1>4 DEF EntryType
<1>9. Typed'
  <2>1. InDocs' /\ docsLeft' \subseteq DOMAIN services'[svc'].docs
    BY <1>1, <1>2 DEF IInv, Typed, InDocs, Registering
  <2> QED BY <1>2, <1>7, <2>1, Unchanged DEF IInv, Typed
<1>10. ManifestMatches'
  BY <1>2, <1>4, <1>6, <1>8, Unchanged DEF IInv, ManifestMatches
<1>11. svc \in Nat /\ method \in Nat
  BY DEF IInv, Typed
<1>12. Routed' /\ Failed' /\ Passed'
  BY <1>2, <1>11, RoutedStays, FailedStays, Unchanged DEF IInv, Passed
<1> QED BY <1>9, <1>10, <1>12 DEF IInv

(* One more method in the manifest and in the mux. *)
LEMMA RegisterStep == ASSUME IInv, RegisterMethod PROVE IInv'
<1>1. PICK d, h, e :
        /\ d = dashedName(Current.name) /\ h = Handler(Current) /\ e = Describe(Current, services[svc])
        /\ AtMethod /\ Served(Current, services[svc]) /\ d \notin DOMAIN routes
        /\ registry' = Append(registry, e)
        /\ routes' = [name \in DOMAIN routes \union {d} |-> IF name \in DOMAIN routes THEN routes[name] ELSE h]
        /\ method' = method + 1 /\ UNCHANGED <<services, phase, svc, docsLeft>>
  BY DEF RegisterMethod, Served
<1>2. /\ svc \in 1 .. Count /\ method \in 1 .. LastOf(svc) /\ Current = M(svc, method) /\ Current \in Methods
      /\ docsLeft = {} /\ phase = "register" /\ LastOf(svc) \in Nat /\ Count \in Nat
  BY <1>1, AtCurrent, Facts DEF IInv
<1>3. h.svc = svc /\ h.idx = method /\ h.public = (Current.prefix = "PublicApi")
  BY <1>1 DEF Handler
<1>4. /\ e.name = d /\ e.public = (Current.prefix = "PublicApi") /\ e.generator = Generates(Current, services[svc])
      /\ e.args = Current.args
  BY <1>1 DEF Describe, Generates
<1>5. \E N, G : registry' \in Seq(EntryType(N, G)) /\ registry \in Seq(EntryType(N, G))
  <2>1. PICK N, G : registry \in Seq(EntryType(N, G))
    BY DEF IInv, Typed
  <2> DEFINE T == EntryType(N \union {e.name}, G \union {e.group})
  <2>2. EntryType(N, G) \subseteq T
    BY DEF EntryType
  <2>3. e \in T
    BY <1>1, <1>2 DEF Describe, EntryType, Methods, IsGenerator
  <2> HIDE DEF T
  <2>4. registry \in Seq(T) /\ Append(registry, e) \in Seq(T)
    BY <2>1, <2>2, <2>3
  <2> QED BY <1>1, <2>4 DEF T
<1> DEFINE At(name) == services'[routes'[name].svc].methods[routes'[name].idx]
<1>6. /\ DOMAIN routes' = DOMAIN routes \union {d} /\ routes'[d] = h
      /\ \A name \in DOMAIN routes : routes'[name] = routes[name]
  BY <1>1
<1>7. /\ Count' = Count /\ ServicesTyped' /\ \A s : LastOf(s)' = LastOf(s)
      /\ \A s, i : M(s, i)' = M(s, i) /\ (Bad(s, i)' <=> Bad(s, i))
  <2>1. Range(services)' = Range(services)
    BY <1>1 DEF Range
  <2> QED BY <1>1, <2>1 DEF IInv, Typed, ServicesTyped, Count, LastOf, M, Bad
<1>8. (\A name \in DOMAIN routes : At(name) = Target(name)) /\ At(d) = Current
  BY <1>1, <1>2, <1>3, <1>6 DEF Target, M
<1>9. \A s, i : Taken(s, i) \/ (s = svc /\ i = method) => Taken(s, i)'
  BY <1>3, <1>6 DEF Taken
<1>10. Typed'
  <2>1. method' \in Nat \ {0} /\ method' <= LastOf(svc)' + 2
    BY <1>1, <1>2, <1>7
  <2> QED BY <1>1, <1>2, <1>5, <1>7, <2>1 DEF IInv, Typed
<1>11. Routed'
  <2>1. ASSUME NEW name \in DOMAIN routes
        PROVE  LET r == routes[name] IN
               /\ r.svc \in 1 .. Count /\ r.idx \in 1 .. LastOf(r.svc)
               /\ Served(Target(name), services[r.svc]) /\ dashedName(Target(name).name) = name
               /\ r.public = (Target(name).prefix = "PublicApi")
               /\ r.svc < svc \/ (r.svc = svc /\ r.idx < method + 1)
               /\ \A j : Bad(r.svc, j) => r.idx < j
    <3> DEFINE r == routes[name]
    <3>1. /\ r.svc \in 1 .. Count /\ r.idx \in 1 .. LastOf(r.svc)
          /\ Served(Target(name), services[r.svc]) /\ dashedName(Target(name).name) = name
          /\ r.public = (Target(name).prefix = "PublicApi")
          /\ r.svc < svc \/ (r.svc = svc /\ r.idx < method)
          /\ \A j : Bad(r.svc, j) => r.idx < j
      BY DEF IInv, Routed
    <3>2. r.svc \in Nat /\ r.idx \in Nat
      BY <1>2, <3>1, Facts DEF IInv
    <3>3. r.svc < svc \/ (r.svc = svc /\ r.idx < method + 1)
      BY <1>2, <3>1, <3>2
    <3> QED BY <3>1, <3>3
  <2>2. \A j : Bad(svc, j) => method < j
    <3>1. ASSUME NEW j, Bad(svc, j) PROVE method < j
      <4>1. j \in 1 .. LastOf(svc) /\ IsApi(M(svc, j)) /\ ~Accepted(M(svc, j).ins)
        BY <3>1 DEF Bad
      <4>2. ~(j < method)
        BY <1>2, <4>1 DEF IInv, Passed
      <4>3. j # method
        BY <1>1, <1>2, <4>1 DEF Served
      <4> QED BY <1>2, <4>1, <4>2, <4>3
    <3> QED BY <3>1
  <2>3. /\ h.svc \in 1 .. Count /\ h.idx \in 1 .. LastOf(h.svc)
        /\ Served(Current, services[svc]) /\ dashedName(Current.name) = d
        /\ h.public = (Current.prefix = "PublicApi")
        /\ h.svc = svc /\ h.idx < method + 1
        /\ \A j : Bad(h.svc, j) => h.idx < j
    <3>1. Served(Current, services[svc]) /\ dashedName(Current.name) = d
      BY <1>1
    <3>2. svc \in 1 .. Count /\ method \in 1 .. LastOf(svc) /\ method < method + 1
      BY <1>2
    <3> QED BY <1>3, <2>2, <3>1, <3>2
  <2>4. ASSUME NEW name \in DOMAIN routes'
        PROVE  LET r == routes'[name] IN
               /\ r.svc \in 1 .. Count /\ r.idx \in 1 .. LastOf(r.svc)
               /\ Served(At(name), services'[r.svc]) /\ dashedName(At(name).name) = name
               /\ r.public = (At(name).prefix = "PublicApi")
               /\ r.svc < svc \/ (r.svc = svc /\ r.idx < method + 1)
               /\ \A j : Bad(r.svc, j) => r.idx < j
    <3>1. CASE name \in DOMAIN routes
      BY <1>1, <1>6, <1>8, <2>1, <3>1
    <3>2. CASE name = d
      BY <1>1, <1>3, <1>6, <1>8, <2>3, <3>2
    <3> QED BY <1>6, <3>1, <3>2
  <2>5. services' = services /\ svc' = svc /\ method' = method + 1
    BY <1>1
  <2> QED BY <2>4, <2>5 DEF Routed, Target, Count, LastOf, Bad, M
<1>12. ManifestMatches'
  <2>1. /\ DOMAIN routes = {registry[i].name : i \in DOMAIN registry}
        /\ \A i \in DOMAIN registry :
             LET x == registry[i]  t == Target(registry[i].name)
             IN  x.public = (t.prefix = "PublicApi") /\ x.generator = Generates(t, services[routes[x.name].svc]) /\ x.args = t.args
    BY <1>2 DEF IInv, ManifestMatches
  <2>2. /\ DOMAIN registry' = DOMAIN registry \union {Len(registry) + 1}
        /\ \A i \in DOMAIN registry : registry'[i] = registry[i]
        /\ registry'[Len(registry) + 1] = e
    BY <1>1, <1>5
  <2>3. DOMAIN routes' = {registry'[i].name : i \in DOMAIN registry'}
    BY <1>4, <1>6, <2>1, <2>2
  <2>4. ASSUME NEW i \in DOMAIN registry'
        PROVE  LET x == registry'[i]  t == At(registry'[i].name)
               IN  x.public = (t.prefix = "PublicApi") /\ x.generator = Generates(t, services'[routes'[x.name].svc]) /\ x.args = t.args
    <3>1. CASE i \in DOMAIN registry
      <4>1. registry[i].name \in DOMAIN routes
        BY <2>1, <3>1
      <4>2. /\ At(registry'[i].name) = Target(registry[i].name)
            /\ services'[routes'[registry'[i].name].svc] = services[routes[registry[i].name].svc]
        BY <1>1, <1>6, <1>8, <2>2, <3>1, <4>1
      <4> QED BY <2>1, <2>2, <3>1, <4>2
    <3>2. CASE i = Len(registry) + 1
      <4>0. registry'[i].name = d
        BY <1>4, <2>2, <3>2
      <4>1. At(registry'[i].name) = Current /\ services'[routes'[registry'[i].name].svc] = services[svc]
        <5>1. At(d) = Current
          BY <1>8
        <5>2. services'[routes'[d].svc] = services[svc]
          BY <1>1, <1>3, <1>6
        <5> HIDE DEF At
        <5> QED BY <4>0, <5>1, <5>2
      <4> QED BY <1>4, <2>2, <3>2, <4>1
    <3> QED BY <2>2, <3>1, <3>2
  <2> QED BY <2>3, <2>4 DEF ManifestMatches, Target
<1>13. Passed'
  <2>1. ASSUME NEW i \in 1 .. LastOf(svc), i < method + 1, IsApi(M(svc, i))
        PROVE  Accepted(M(svc, i).ins) /\ (Taken(svc, i) \/ i = method)
    <3>1. CASE i = method
      BY <1>1, <1>2, <3>1 DEF Served
    <3>2. CASE i # method
      <4>1. i < method
        BY <1>2, <2>1, <3>2
      <4> QED BY <1>2, <2>1, <4>1 DEF IInv, Passed
    <3> QED BY <3>1, <3>2
  <2>2. ASSUME NEW s \in 1 .. Count, s < svc, NEW i \in 1 .. LastOf(s), IsApi(M(s, i))
        PROVE  Taken(s, i)' \/ \E j : Bad(s, j) /\ j <= i
    BY <1>9, <2>2 DEF IInv, Passed
  <2>3. svc <= Count => \A i \in 1 .. LastOf(svc) :
            i < method + 1 /\ IsApi(M(svc, i)) => Accepted(M(svc, i).ins) /\ \A s : s = svc => Taken(s, i)'
    BY <1>9, <2>1
  <2> QED BY <1>1, <1>7, <2>2, <2>3 DEF Passed
<1>14. Failed'
  BY <1>1, <1>7 DEF IInv, Failed
<1> QED BY <1>10, <1>11, <1>12, <1>13, <1>14 DEF IInv

(* All docs of a service are gone through. *)
LEMMA RegisteredStep == ASSUME IInv, RegisteredService PROVE IInv'
<1>1. /\ phase = "register" /\ svc <= Count /\ method = LastOf(svc) + 2 /\ docsLeft = {}
      /\ svc' = svc + 1 /\ method' = 1
      /\ phase' = (IF svc = Made THEN "version" ELSE phase)
      /\ UNCHANGED <<services, docsLeft, registry, routes>>
  BY DEF RegisteredService, InDocs, Registering, Count, LastOf
<1>2. svc \in 1 .. Count /\ LastOf(svc) \in Nat /\ Count \in Nat
  BY <1>1, Facts DEF IInv, Typed
<1>3. \A i \in 1 .. LastOf(svc) : IsApi(M(svc, i)) => Accepted(M(svc, i).ins) /\ Taken(svc, i)
  <2>1. \A i \in 1 .. LastOf(svc) : i < method
    BY <1>1, <1>2
  <2> QED BY <1>1, <2>1 DEF IInv, Passed
<1>4. Typed'
  <2>1. svc' \in Nat \ {0} /\ svc' <= Count + 1 /\ phase' \in Phases
    BY <1>1, <1>2 DEF Phases
  <2>2. svc + 1 <= Count => LastOf(svc + 1) \in Nat
    BY <1>2, Facts DEF IInv
  <2>3. svc' <= Count' => method' <= LastOf(svc)' + 2
    BY <1>1, <2>2 DEF LastOf, Count
  <2> QED BY <1>1, <1>2, <2>1, <2>3, Unchanged DEF IInv, Typed
<1>5. Routed' /\ ManifestMatches'
  BY <1>1, <1>2, RoutedStays, ManifestStays
<1>6. Passed'
  BY <1>1, <1>2, <1>3, NextService
<1>7. Failed'
  <2>1. phase' # "failed" /\ \A j : ~Bad(svc, j)
    BY <1>1, <1>3 DEF Bad
  <2>2. ASSUME NEW s \in 1 .. Made, s < svc + 1
        PROVE  \A j : ~Bad(s, j)
    <3>1. CASE s = svc
      BY <2>1, <3>1
    <3>2. CASE s # svc
      <4>1. s < svc
        BY <1>2, <2>2, <3>2, MadeIs
      <4> QED BY <1>1, <4>1 DEF IInv, Failed
    <3> QED BY <3>1, <3>2
  <2> QED BY <1>1, <2>1, <2>2, Unchanged DEF Failed
<1> QED BY <1>4, <1>5, <1>6, <1>7 DEF IInv

(* A step that only goes on to another phase, or makes commands.             *)
LEMMA OtherSteps ==
  ASSUME IInv, phase' \in Phases,
         phase' = phase \/ (phase = "version" /\ phase' = "register")
                        \/ (phase = "register" /\ svc > Len(services) /\ phase' = "serve"),
         UNCHANGED <<services, registering, registry, routes>>
  PROVE  IInv'
<1>1. UNCHANGED <<services, svc, method, docsLeft, registry, routes>>
  BY DEF registering
<1>2. svc \in Nat /\ method \in Nat /\ Count \in Nat
  BY Facts DEF IInv, Typed
<1>3. Typed'
  <2>1. docsLeft # {} => phase' = phase
    BY <1>2 DEF IInv, Typed, InDocs, Registering, Count
  <2>2. docsLeft' # {} => InDocs' /\ docsLeft' \subseteq DOMAIN services'[svc'].docs
    BY <1>1, <2>1 DEF IInv, Typed, InDocs, Registering
  <2> QED BY <1>1, <2>2, Unchanged DEF IInv, Typed
<1>4. Routed' /\ ManifestMatches' /\ Failed' /\ Passed'
  BY <1>1, <1>2, RoutedStays, ManifestStays, FailedStays, Unchanged DEF IInv, Passed
<1> QED BY <1>3, <1>4 DEF IInv

LEMMA StepIInv == IInv /\ [Next]_vars => IInv'
<1> SUFFICES ASSUME IInv, [Next]_vars PROVE IInv'
  OBVIOUS
<1>0. phase \in Phases
  BY DEF IInv, Typed
<1>1. CASE SkipMethod
  BY <1>1, SkipStep
<1>2. CASE RegisterMethod
  BY <1>2, RegisterStep
<1>3. CASE RejectMethod
  BY <1>3, RejectStep
<1>4. CASE PanicAtMethod
  BY <1>4, PanicStep
<1>5. CASE AllMethods
  BY <1>5, MethodsDone
<1>6. CASE RegroupOne
  BY <1>6, RegroupStep
<1>7. CASE RegisteredService
  BY <1>7, RegisteredStep
<1>8. CASE Serve
  BY <1>8, OtherSteps DEF Serve, Phases
<1>9. CASE addRpcCommands
  BY <1>0, <1>9, OtherSteps DEF addRpcCommands
<1>10. CASE Versioned
  BY <1>10, OtherSteps DEF Versioned, Phases
<1>11. CASE UNCHANGED vars
  BY <1>0, <1>11, OtherSteps DEF vars
<1> QED BY <1>1, <1>2, <1>3, <1>4, <1>5, <1>6, <1>7, <1>8, <1>9, <1>10, <1>11 DEF Next, Register

-----------------------------------------------------------------------------
(* RegisterService accepts the four shapes that handleRPC knows.             *)
LEMMA AcceptedIsShape ==
  ASSUME NEW m \in Methods
  PROVE  Accepted(m.ins) <=> m.ins \in Shapes
<1> DEFINE ins == m.ins
<1>1. ins \in Seq(Kinds) /\ Len(ins) \in Nat
  BY DEF Methods
<1>2. ASSUME Accepted(ins) PROVE m.ins \in Shapes
  <2>1. CASE Len(ins) = 1
    <3>1. ins[1] = "info"
      BY <1>2, <2>1 DEF Accepted, IsGenerator
    <3>2. ins = <<"info">>
      BY <1>1, <2>1, <3>1
    <3> QED BY <3>2 DEF Shapes
  <2>2. CASE Len(ins) = 2 /\ ins[1] = "send"
    <3>1. ins[2] = "info"
      BY <1>2, <2>2 DEF Accepted, IsGenerator
    <3>2. ins = <<"send", "info">>
      BY <1>1, <2>2, <3>1
    <3> QED BY <3>2 DEF Shapes
  <2>3. CASE Len(ins) = 2 /\ ins[1] # "send"
    <3>1. ins[1] = "info" /\ ins[2] = "struct"
      BY <1>2, <2>3 DEF Accepted, IsGenerator
    <3>2. ins = <<"info", "struct">>
      BY <1>1, <2>3, <3>1
    <3> QED BY <3>2 DEF Shapes
  <2>4. CASE Len(ins) = 3
    <3>1. ins[1] = "send" /\ ins[2] = "info" /\ ins[3] = "struct"
      BY <1>2, <2>4 DEF Accepted, IsGenerator
    <3>2. ins = <<"send", "info", "struct">>
      BY <1>1, <2>4, <3>1
    <3> QED BY <3>2 DEF Shapes
  <2>5. Len(ins) \in 1 .. 3
    BY <1>2 DEF Accepted
  <2> QED BY <1>1, <2>1, <2>2, <2>3, <2>4, <2>5
<1>3. ASSUME m.ins \in Shapes PROVE Accepted(ins)
  <2>1. CASE ins = <<"info">>
    BY <2>1 DEF Accepted, IsGenerator
  <2>2. CASE ins = <<"info", "struct">>
    BY <2>2 DEF Accepted, IsGenerator
  <2>3. CASE ins = <<"send", "info">>
    BY <2>3 DEF Accepted, IsGenerator
  <2>4. CASE ins = <<"send", "info", "struct">>
    BY <2>4 DEF Accepted, IsGenerator
  <2> QED BY <1>3, <2>1, <2>2, <2>3, <2>4 DEF Shapes
<1> QED BY <1>2, <1>3

LEMMA SafetyOfListed == IInv => ListedIsCallable
<1> SUFFICES ASSUME IInv, phase # "panicked", NEW authed \in BOOLEAN
             PROVE  /\ Answered(authed) = {registry[i].name : i \in Listed(authed)}
                    /\ \A i \in Listed(authed) :
                         LET m == registry[i]  target == Target(m.name)
                         IN  /\ dashedName(target.name) = m.name /\ target.args = m.args
                             /\ target.prefix = "PublicApi" <=> m.public
                             /\ m.generator <=> \/ target.ins[1] = "send"
                                                \/ m.name \in services[routes[m.name].svc].gens
  BY DEF ListedIsCallable
<1>1. PICK N, G : registry \in Seq(EntryType(N, G))
  BY DEF IInv, Typed
<1>2. \A i \in DOMAIN registry : registry[i].public \in BOOLEAN /\ registry[i].generator \in BOOLEAN
  <2>1. \A i \in DOMAIN registry : registry[i] \in EntryType(N, G)
    BY <1>1
  <2> QED BY <2>1 DEF EntryType
<1>3. /\ DOMAIN routes = {registry[i].name : i \in DOMAIN registry}
      /\ \A i \in DOMAIN registry :
           /\ registry[i].public = (Target(registry[i].name).prefix = "PublicApi")
           /\ registry[i].generator = Generates(Target(registry[i].name), services[routes[registry[i].name].svc])
           /\ registry[i].args = Target(registry[i].name).args
  BY DEF IInv, ManifestMatches
<1>4. \A name \in DOMAIN routes :
        /\ Accepted(Target(name).ins) /\ dashedName(Target(name).name) = name
        /\ routes[name].public = (Target(name).prefix = "PublicApi")
  BY DEF IInv, Routed, Served
<1>5. \A name \in DOMAIN routes : Target(name).ins[1] = "send" <=> IsGenerator(Target(name).ins)
  <2> SUFFICES ASSUME NEW name \in DOMAIN routes, Target(name).ins[1] = "send"
               PROVE  IsGenerator(Target(name).ins)
    BY DEF IsGenerator
  <2> DEFINE ins == Target(name).ins
  <2>1. Accepted(ins) /\ ins[1] = "send"
    BY <1>4
  <2> HIDE DEF ins
  <2>2. Len(ins) \in 1 .. 3 /\ (~IsGenerator(ins) => ins[1] = "info")
    BY <2>1 DEF Accepted
  <2> QED BY <2>1, <2>2 DEF ins
<1>6. Answered(authed) = {registry[i].name : i \in Listed(authed)}
  <2>1. ASSUME NEW name \in Answered(authed)
        PROVE  \E i \in Listed(authed) : name = registry[i].name
    <3>1. PICK i \in DOMAIN registry : name = registry[i].name
      BY <1>3 DEF Answered
    <3> QED BY <1>3, <1>4, <2>1, <3>1 DEF Answered, Listed
  <2>2. ASSUME NEW i \in Listed(authed)
        PROVE  registry[i].name \in Answered(authed)
    BY <1>3, <1>4 DEF Answered, Listed
  <2> QED BY <2>1, <2>2
<1>7. ASSUME NEW i \in Listed(authed)
      PROVE  LET m == registry[i]  target == Target(m.name)
             IN  /\ dashedName(target.name) = m.name /\ target.args = m.args
                 /\ target.prefix = "PublicApi" <=> m.public
                 /\ m.generator <=> \/ target.ins[1] = "send"
                                    \/ m.name \in services[routes[m.name].svc].gens
  <2>1. i \in DOMAIN registry /\ registry[i].name \in DOMAIN routes
    BY <1>3 DEF Listed
  <2> QED BY <1>2, <1>3, <1>4, <1>5, <2>1 DEF Generates
<1> QED BY <1>6, <1>7

(* The parameters that handleRPC passes, one appended after the other.       *)
LEMMA CallsAre ==
  /\ Append(<<>>, "info") = <<"info">> /\ Append(<<"send">>, "info") = <<"send", "info">>
  /\ Append(<<"info">>, "struct") = <<"info", "struct">>
  /\ Append(<<"send", "info">>, "struct") = <<"send", "info", "struct">>
<1>1. <<>> \in Seq(Kinds) /\ <<"send">> \in Seq(Kinds) /\ <<"info">> \in Seq(Kinds) /\ <<"send", "info">> \in Seq(Kinds)
      /\ "info" \in Kinds /\ "struct" \in Kinds
  BY DEF Kinds
<1>2. \A s \in Seq(Kinds), x \in Kinds :
        /\ Append(s, x) \in Seq(Kinds) /\ Len(Append(s, x)) = Len(s) + 1
        /\ \A i \in 1 .. Len(s) + 1 : Append(s, x)[i] = IF i <= Len(s) THEN s[i] ELSE x
  OBVIOUS
<1>3. \A s \in Seq(Kinds) :
        /\ Len(s) = 1 => s = <<s[1]>>
        /\ Len(s) = 2 => s = <<s[1], s[2]>>
        /\ Len(s) = 3 => s = <<s[1], s[2], s[3]>>
  OBVIOUS
<1>4. Append(<<>>, "info") = <<"info">>
  <2> DEFINE s == Append(<<>>, "info")
  <2>1. s \in Seq(Kinds) /\ Len(s) = 1 /\ s[1] = "info"
    BY <1>1, <1>2
  <2> HIDE DEF s
  <2> QED BY <1>3, <2>1 DEF s
<1>5. Append(<<"send">>, "info") = <<"send", "info">>
  <2> DEFINE s == Append(<<"send">>, "info")
  <2>1. s \in Seq(Kinds) /\ Len(s) = 2 /\ s[1] = "send" /\ s[2] = "info"
    BY <1>1, <1>2
  <2> HIDE DEF s
  <2>2. s = <<"send", "info">>
    BY <1>3, <2>1
  <2> QED BY <2>2 DEF s
<1>6. Append(<<"info">>, "struct") = <<"info", "struct">>
  <2> DEFINE s == Append(<<"info">>, "struct")
  <2>1. s \in Seq(Kinds) /\ Len(s) = 2 /\ s[1] = "info" /\ s[2] = "struct"
    BY <1>1, <1>2
  <2> HIDE DEF s
  <2>2. s = <<"info", "struct">>
    BY <1>3, <2>1
  <2> QED BY <2>2 DEF s
<1>7. Append(<<"send", "info">>, "struct") = <<"send", "info", "struct">>
  <2> DEFINE s == Append(<<"send", "info">>, "struct")
  <2>1. s \in Seq(Kinds) /\ Len(s) = 3 /\ s[1] = "send" /\ s[2] = "info" /\ s[3] = "struct"
    BY <1>1, <1>2
  <2> HIDE DEF s
  <2>2. s = <<"send", "info", "struct">>
    BY <1>3, <2>1
  <2> QED BY <2>2 DEF s
<1> QED BY <1>4, <1>5, <1>6, <1>7

(* A method of these shapes gets what it takes, but for the two kinds.       *)
LEMMA CalledRight ==
  ASSUME NEW m \in Methods, NEW s, m.ins \in Shapes,
         m.args # <<>> => m.ins[Len(m.ins)] = "struct"
  PROVE  CallArgs(Describe(m, s)) = m.ins <=> ~(Fieldless(m) \/ Misnamed(m, s))
<1> DEFINE g == dashedName(m.name) \in s.gens
<1>1. CallArgs(Describe(m, s)) =
        LET first == Append(IF IsGenerator(m.ins) \/ g THEN <<"send">> ELSE <<>>, "info")
        IN  IF m.args # <<>> THEN Append(first, "struct") ELSE first
  BY DEF CallArgs, Describe
<1>2. (Misnamed(m, s) <=> m.ins[1] # "send" /\ g)
      /\ (Fieldless(m) <=> m.ins[Len(m.ins)] = "struct" /\ m.args = <<>>)
  BY DEF Misnamed, Fieldless
<1> HIDE DEF g
<1>3. CallArgs(Describe(m, s)) =
        IF m.args # <<>> THEN (IF IsGenerator(m.ins) \/ g THEN <<"send", "info", "struct">> ELSE <<"info", "struct">>)
                         ELSE (IF IsGenerator(m.ins) \/ g THEN <<"send", "info">> ELSE <<"info">>)
  BY <1>1, CallsAre, Zenon
<1>4. /\ <<"info">> # <<"send", "info">> /\ <<"info", "struct">> # <<"send", "info">>
      /\ <<"info", "struct">> # <<"info">> /\ <<"info", "struct">> # <<"send", "info", "struct">>
      /\ <<"send", "info", "struct">> # <<"send", "info">>
  OBVIOUS
<1>5. CASE m.ins = <<"info">>
  <2>1. ~IsGenerator(m.ins) /\ m.ins[1] = "info" /\ m.ins[Len(m.ins)] = "info"
    BY <1>5 DEF IsGenerator
  <2>2. m.args = <<>> /\ ~Fieldless(m) /\ (Misnamed(m, s) <=> g)
    BY <1>2, <2>1
  <2> QED BY <1>5, <1>3, <1>4, <2>1, <2>2
<1>6. CASE m.ins = <<"info", "struct">>
  <2>1. ~IsGenerator(m.ins) /\ m.ins[1] = "info" /\ m.ins[Len(m.ins)] = "struct"
    BY <1>6 DEF IsGenerator
  <2>2. (Fieldless(m) <=> m.args = <<>>) /\ (Misnamed(m, s) <=> g)
    BY <1>2, <2>1
  <2> QED BY <1>6, <1>3, <1>4, <2>1, <2>2
<1>7. CASE m.ins = <<"send", "info">>
  <2>1. IsGenerator(m.ins) /\ m.ins[1] = "send" /\ m.ins[Len(m.ins)] = "info"
    BY <1>7 DEF IsGenerator
  <2>2. m.args = <<>> /\ ~Fieldless(m) /\ ~Misnamed(m, s)
    BY <1>2, <2>1
  <2> QED BY <1>7, <1>3, <1>4, <2>1, <2>2
<1>8. CASE m.ins = <<"send", "info", "struct">>
  <2>1. IsGenerator(m.ins) /\ m.ins[1] = "send" /\ m.ins[Len(m.ins)] = "struct"
    BY <1>8 DEF IsGenerator
  <2>2. (Fieldless(m) <=> m.args = <<>>) /\ ~Misnamed(m, s)
    BY <1>2, <2>1
  <2> QED BY <1>8, <1>3, <1>4, <2>1, <2>2
<1> QED BY <1>5, <1>6, <1>7, <1>8 DEF Shapes

LEMMA SafetyOfPrefix == IInv => AllOrPrefix
<1> SUFFICES ASSUME IInv PROVE AllOrPrefix
  OBVIOUS
<1> DEFINE api(s) == {i \in DOMAIN services[s].methods : IsApi(services[s].methods[i])}
           bad(s) == {i \in api(s) : services[s].methods[i].ins \notin Shapes}
           have(s) == {i \in api(s) : \E name \in DOMAIN routes : routes[name].svc = s /\ routes[name].idx = i}
<1>1. /\ Count \in Nat /\ DOMAIN services = 1 .. Count /\ svc \in Nat \ {0} /\ svc <= Count + 1
      /\ \A s \in 1 .. Count :
           /\ LastOf(s) \in Nat /\ DOMAIN services[s].methods = 1 .. LastOf(s)
           /\ \A i \in 1 .. LastOf(s) : M(s, i) \in Methods
  BY Facts DEF IInv, Typed
<1>2. \A s \in 1 .. Count :
        /\ \A i : i \in api(s) <=> i \in 1 .. LastOf(s) /\ IsApi(M(s, i))
        /\ \A j : j \in bad(s) <=> Bad(s, j)
        /\ \A i : i \in have(s) <=> i \in api(s) /\ Taken(s, i)
  BY <1>1, AcceptedIsShape DEF M, Bad, Taken
<1>3. ASSUME NEW s \in 1 .. Count, NEW i \in have(s)
      PROVE  LET m == services[s].methods[i]
             IN  /\ HasType(m, services[s])
                 /\ CallArgs(Describe(m, services[s])) = m.ins <=> ~(Fieldless(m) \/ Misnamed(m, services[s]))
                 /\ \A j \in bad(s) : i < j
  <2>1. PICK name \in DOMAIN routes : routes[name].svc = s /\ routes[name].idx = i
    OBVIOUS
  <2>2. Served(Target(name), services[s]) /\ \A j : Bad(s, j) => i < j
    BY <2>1 DEF IInv, Routed
  <2>3. Target(name) = services[s].methods[i] /\ M(s, i) = services[s].methods[i]
    BY <2>1 DEF Target, M
  <2>4. i \in 1 .. LastOf(s) /\ IsService(services[s])
    BY <1>2 DEF IInv, Typed, ServicesTyped
  <2>5. CallArgs(Describe(M(s, i), services[s])) = M(s, i).ins
          <=> ~(Fieldless(M(s, i)) \/ Misnamed(M(s, i), services[s]))
    <3>1. M(s, i) \in Methods /\ (M(s, i).args # <<>> => M(s, i).ins[Len(M(s, i).ins)] = "struct")
      BY <1>1, <2>3, <2>4 DEF IsService
    <3>2. M(s, i).ins \in Shapes
      BY <2>2, <2>3, <3>1, AcceptedIsShape DEF Served
    <3> QED BY <3>1, <3>2, CalledRight
  <2> QED BY <1>2, <2>2, <2>3, <2>5 DEF Served
<1>4. ASSUME NEW s \in 1 .. (svc - 1), NEW i \in api(s)
      PROVE  i \in have(s) \/ \E j \in bad(s) : j <= i
  <2>1. s \in 1 .. Count /\ s < svc
    BY <1>1
  <2>2. i \in 1 .. LastOf(s) /\ IsApi(M(s, i))
    BY <1>2, <2>1
  <2>3. Taken(s, i) \/ \E j : Bad(s, j) /\ j <= i
    BY <2>1, <2>2 DEF IInv, Passed
  <2> HIDE DEF api, bad, have
  <2> QED BY <1>2, <1>4, <2>1, <2>3
<1>5. phase = "failed" <=> svc > 1 /\ svc - 1 <= Made /\ bad(svc - 1) # {}
  <2> HIDE DEF api, bad, have
  <2>1. svc > 1 => svc - 1 \in 1 .. Count /\ svc - 1 < svc
    BY <1>1
  <2>2. svc > 1 => (bad(svc - 1) # {} <=> \E j : Bad(svc - 1, j))
    BY <1>2, <2>1
  <2>3. svc > 1 /\ svc - 1 <= Made => svc - 1 \in 1 .. Made
    BY <1>1, MadeIs
  <2> QED BY <2>1, <2>2, <2>3 DEF IInv, Failed
<1> HIDE DEF api, bad, have
<1>6. /\ \A s \in DOMAIN services : \A i \in have(s) :
           LET m == services[s].methods[i]
           IN  /\ HasType(m, services[s])
               /\ CallArgs(Describe(m, services[s])) = m.ins <=> ~(Fieldless(m) \/ Misnamed(m, services[s]))
               /\ \A j \in bad(s) : i < j
      /\ phase # "panicked" => \A s \in 1..(svc - 1) :
           \A i \in api(s) : i \in have(s) \/ \E j \in bad(s) : j <= i
      /\ phase = "failed" <=> svc > 1 /\ svc - 1 <= Made /\ bad(svc - 1) # {}
  BY <1>1, <1>3, <1>4, <1>5
<1> QED BY <1>6 DEF AllOrPrefix, api, bad, have

LEMMA InvariantHolds == Spec => []IInv
BY InitIInv, StepIInv, PTL DEF Spec

(* What the manifest lists to a caller, logged in or not, and what that      *)
(* caller may call are the same, under the same names and with the same      *)
(* arguments: for any services (ListedIsCallable; service.go:204-320).       *)
THEOREM RegistrationListedIsCallable == Spec => []ListedIsCallable
BY InvariantHolds, SafetyOfListed, PTL

(* A service is refused exactly for a method that has none of the four       *)
(* shapes; the methods before it stay, none of an accepted service is        *)
(* missing, each has a type to return and is called with the parameters it   *)
(* takes, but for a field-less struct or docs that call a function a         *)
(* generator, and MakeService fails for one of its own services alone        *)
(* (AllOrPrefix; service.go:222-310 and 398-431).                            *)
THEOREM RegistrationAllOrPrefix == Spec => []AllOrPrefix
BY InvariantHolds, SafetyOfPrefix, PTL

(* Every handler points to a method of a service (TypeOK; service.go:113).   *)
THEOREM RegistrationTypeOK == Spec => []TypeOK
<1> DEFINE Few == built \in 0 .. MaxBuilds
<1>1. Init => Few
  BY DEF Init, MaxBuilds
<1>2. Few /\ [Next]_vars => Few'
  <2> SUFFICES ASSUME Few, [Next]_vars PROVE Few'
    OBVIOUS
  <2>1. CASE built' = built
    BY <2>1
  <2>2. CASE addRpcCommands
    BY <2>2 DEF addRpcCommands, MaxBuilds
  <2> QED
    BY <2>1, <2>2 DEF Next, Register, SkipMethod, RegisterMethod, RejectMethod, PanicAtMethod, AllMethods,
       RegroupOne, Regroup, RegisteredService, Serve, Versioned, cli, vars
<1>3. IInv /\ Few => TypeOK
  <2> SUFFICES ASSUME IInv, Few PROVE TypeOK
    OBVIOUS
  <2>1. /\ Count \in Nat /\ Len(services) = Count /\ DOMAIN services = 1 .. Count
        /\ \A s \in 1 .. Count : LastOf(s) \in Nat /\ DOMAIN services[s].methods = 1 .. LastOf(s)
    BY Facts DEF IInv, Count
  <2>2. phase \in Phases /\ svc \in 1 .. Count + 1
    BY <2>1 DEF IInv, Typed
  <2>3. svc <= Count => /\ method \in 1 .. LastOf(svc) + 2
                        /\ docsLeft \subseteq DOMAIN services[svc].docs
    BY <2>1, <2>2 DEF IInv, Typed
  <2>4. \A name \in DOMAIN routes :
          routes[name].svc \in 1 .. Count /\ routes[name].idx \in 1 .. LastOf(routes[name].svc)
    BY DEF IInv, Routed
  <2> QED BY <2>1, <2>2, <2>3, <2>4 DEF TypeOK, LastOf
<1> QED BY <1>1, <1>2, <1>3, InvariantHolds, PTL DEF Spec

-----------------------------------------------------------------------------
(* Folds: AddCommands goes through the manifest, AddGroups through groups. *)

Less == OpToRel(<, Nat)

(* A set of numbers has a least one. *)
LEMMA LeastNumber ==
  ASSUME NEW T, T \subseteq Nat, T # {}
  PROVE  \E x \in T : \A y \in T : x <= y
<1>1. \E x \in T : \A y \in T : ~(<<y, x>> \in Less)
  BY NatLessThanWellFounded, WFMin DEF Less
<1>2. PICK x \in T : \A y \in T : ~(<<y, x>> \in Less)
  BY <1>1
<1>3. \A y \in Nat : <<y, x>> \in Less <=> y < x
  BY <1>2 DEF OpToRel, Less
<1>4. ASSUME NEW y \in T PROVE x <= y
  <2>1. x \in Nat /\ y \in Nat /\ ~(y < x)
    BY <1>2, <1>3
  <2> QED BY <2>1
<1> QED BY <1>2, <1>4

(* A set of numbers with 0 and each next one has all of them. *)
LEMMA Inductive ==
  ASSUME NEW n \in Nat, NEW S, 0 \in S, \A k \in 0 .. n : k \in S /\ k < n => k + 1 \in S
  PROVE  0 .. n \subseteq S
<1> DEFINE T == {k \in 0 .. n : k \notin S}
<1> SUFFICES ASSUME T # {} PROVE FALSE
  OBVIOUS
<1>1. T \subseteq Nat
  OBVIOUS
<1>2. PICK k \in T : \A m \in T : k <= m
  <2> HIDE DEF T
  <2> QED BY <1>1, LeastNumber
<1>3. k \in 0 .. n /\ k # 0 /\ k \notin S
  OBVIOUS
<1>4. k - 1 \in 0 .. n /\ k - 1 < n /\ k - 1 \in S /\ k - 1 + 1 = k
  <2>1. k - 1 \in 0 .. n /\ k - 1 < n /\ k - 1 + 1 = k /\ ~(k <= k - 1)
    BY <1>3
  <2>2. k - 1 \notin T
    BY <1>2, <2>1
  <2> QED BY <2>1, <2>2
<1> QED BY <1>3, <1>4

(* g folds every subset of 1 .. n, the greatest number last. *)
Folded(X, F, b, n) ==
  {g \in [SUBSET (1 .. n) -> X] :
     \A s \in SUBSET (1 .. n) : g[s] = IF s = {} THEN b ELSE F[<<g[s \ {Max(s)}], Max(s)>>]}

(* And one that ends has a greatest. *)
LEMMA MaxIs ==
  ASSUME NEW n \in Nat, NEW s, s \subseteq 1 .. n, s # {}
  PROVE  Max(s) \in s /\ \A y \in s : y <= Max(s)
<1> DEFINE T == {n - y : y \in s}
<1>1. T \subseteq Nat /\ T # {}
  <2>1. \A y \in s : n - y \in Nat
    OBVIOUS
  <2>2. PICK y \in s : TRUE
    OBVIOUS
  <2> QED BY <2>1, <2>2
<1>2. PICK t \in T : \A u \in T : t <= u
  <2> HIDE DEF T
  <2> QED BY <1>1, LeastNumber
<1>3. PICK x \in s : t = n - x
  OBVIOUS
<1>4. \A y \in s : x >= y
  <2> SUFFICES ASSUME NEW y \in s PROVE x >= y
    OBVIOUS
  <2>1. n - x <= n - y /\ x \in Nat /\ y \in Nat
    BY <1>2, <1>3
  <2> QED BY <2>1
<1> HIDE DEF T
<1>5. Max(s) \in s /\ \A y \in s : Max(s) >= y
  BY <1>4 DEF Max
<1> QED BY <1>5

(* Who can fold n elements can fold one more. *)
LEMMA FoldNext ==
  ASSUME NEW X, NEW b \in X, NEW N \in Nat, NEW F \in [X \X (1 .. N) -> X],
         NEW n \in Nat, n < N, Folded(X, F, b, n) # {}
  PROVE  Folded(X, F, b, n + 1) # {}
<1>1. PICK g \in Folded(X, F, b, n) : TRUE
  OBVIOUS
<1>2. /\ g \in [SUBSET (1 .. n) -> X]
      /\ \A s \in SUBSET (1 .. n) : g[s] = IF s = {} THEN b ELSE F[<<g[s \ {Max(s)}], Max(s)>>]
  BY <1>1 DEF Folded
<1> DEFINE h == [s \in SUBSET (1 .. n + 1) |-> IF n + 1 \in s THEN F[<<g[s \ {n + 1}], n + 1>>] ELSE g[s]]
<1>3. \A s \in SUBSET (1 .. n + 1) : n + 1 \notin s => s \in SUBSET (1 .. n)
  OBVIOUS
<1>4. \A s \in SUBSET (1 .. n + 1) : s \ {n + 1} \in SUBSET (1 .. n)
  OBVIOUS
<1>5. n + 1 \in 1 .. N
  OBVIOUS
<1>6. ASSUME NEW s \in SUBSET (1 .. n + 1) PROVE h[s] \in X
  <2>1. CASE n + 1 \in s
    <3>1. <<g[s \ {n + 1}], n + 1>> \in X \X (1 .. N)
      BY <1>2, <1>4, <1>5
    <3> QED BY <2>1, <3>1
  <2>2. CASE n + 1 \notin s
    BY <1>2, <1>3, <2>2
  <2> QED BY <2>1, <2>2
<1>7. ASSUME NEW s \in SUBSET (1 .. n + 1)
      PROVE  h[s] = IF s = {} THEN b ELSE F[<<h[s \ {Max(s)}], Max(s)>>]
  <2>1. CASE n + 1 \in s
    <3>1. Max(s) = n + 1
      <4>1. n + 1 \in Nat /\ s # {} /\ s \subseteq 1 .. n + 1
        BY <2>1
      <4>2. Max(s) \in s /\ \A y \in s : y <= Max(s)
        BY <4>1, MaxIs
      <4>3. PICK m \in s : m = Max(s)
        BY <4>2
      <4>4. m \in 1 .. n + 1 /\ n + 1 <= m
        BY <2>1, <4>2, <4>3
      <4> QED BY <4>1, <4>3, <4>4
    <3>2. s \ {n + 1} \in SUBSET (1 .. n + 1) /\ n + 1 \notin s \ {n + 1}
      OBVIOUS
    <3>3. h[s \ {n + 1}] = g[s \ {n + 1}]
      BY <3>2
    <3> QED BY <2>1, <3>1, <3>3
  <2>2. CASE n + 1 \notin s
    <3>1. s \in SUBSET (1 .. n) /\ s \ {Max(s)} \in SUBSET (1 .. n + 1) /\ n + 1 \notin s \ {Max(s)}
      BY <1>3, <2>2
    <3>2. h[s] = g[s] /\ h[s \ {Max(s)}] = g[s \ {Max(s)}]
      BY <2>2, <3>1
    <3> HIDE DEF h
    <3> QED BY <1>2, <3>1, <3>2
  <2> QED BY <2>1, <2>2
<1>8. h \in [SUBSET (1 .. n + 1) -> X]
  BY <1>6
<1> HIDE DEF h
<1>9. h \in Folded(X, F, b, n + 1)
  BY <1>7, <1>8 DEF Folded
<1> QED BY <1>9

(* So any number can be folded. *)
LEMMA FoldExists ==
  ASSUME NEW X, NEW b \in X, NEW N \in Nat, NEW F \in [X \X (1 .. N) -> X]
  PROVE  Folded(X, F, b, N) # {}
<1> DEFINE S == {n \in 0 .. N : Folded(X, F, b, n) # {}}
<1>1. 0 \in S
  <2> DEFINE g == [s \in SUBSET (1 .. 0) |-> b]
  <2>1. \A s \in SUBSET (1 .. 0) : s = {}
    OBVIOUS
  <2>2. g \in [SUBSET (1 .. 0) -> X] /\ \A s \in SUBSET (1 .. 0) : g[s] = b
    OBVIOUS
  <2> HIDE DEF g
  <2>3. g \in Folded(X, F, b, 0)
    BY <2>1, <2>2 DEF Folded
  <2> QED BY <2>3
<1>2. \A k \in 0 .. N : k \in S /\ k < N => k + 1 \in S
  <2> SUFFICES ASSUME NEW k \in 0 .. N, k \in S, k < N PROVE k + 1 \in S
    OBVIOUS
  <2>1. k \in Nat /\ k + 1 \in 0 .. N /\ Folded(X, F, b, k) # {}
    OBVIOUS
  <2>2. Folded(X, F, b, k + 1) # {}
    BY <2>1, FoldNext
  <2> QED BY <2>1, <2>2
<1> HIDE DEF S
<1>3. 0 .. N \subseteq S
  BY <1>1, <1>2, Inductive
<1> QED BY <1>3 DEF S

(* The prefixes 1 .. k. *)
LEMMA PrefixMax ==
  ASSUME NEW k \in Nat \ {0}
  PROVE  Max(1 .. k) = k /\ (1 .. k) \ {k} = 1 .. (k - 1) /\ 1 .. k # {}
<1>1. 1 .. k # {} /\ k \in 1 .. k /\ (1 .. k) \ {k} = 1 .. (k - 1)
  OBVIOUS
<1>2. Max(1 .. k) \in 1 .. k /\ \A y \in 1 .. k : y <= Max(1 .. k)
  BY <1>1, MaxIs
<1> QED BY <1>1, <1>2

(* What AddCommands does for one method. *)
AddCommand(cs, m, gs) == IF findSubCommand(cs, m.name) THEN cs ELSE Append(cs, createRpcCommand(m, gs))

(* The fold of the community modules, with its steps named. *)
IsCommandFold(root, gs, g) ==
  g = [s \in SUBSET DOMAIN registry |->
         IF s = {} THEN root ELSE AddCommand(g[s \ {Max(s)}], registry[Max(s)], gs)]

LEMMA AddCommandsIs ==
  ASSUME NEW root, NEW gs
  PROVE  AddCommands(root, gs) = (CHOOSE g : IsCommandFold(root, gs, g))[DOMAIN registry]
BY DEF AddCommands, FoldLeft, MapThenFoldSet, IsCommandFold, AddCommand

(* g runs through the methods one by one. *)
CommandRun(root, gs, g, n) ==
  /\ AddCommands(root, gs) = g[1 .. n] /\ g[1 .. 0] = root
  /\ \A k \in 1 .. n : g[1 .. k] = AddCommand(g[1 .. (k - 1)], registry[k], gs)

(* There is one, so what AddCommands chooses is one. *)
LEMMA CommandsFold ==
  ASSUME NEW n \in Nat, DOMAIN registry = 1 .. n, NEW C, NEW root \in Seq(C), NEW gs,
         \A i \in 1 .. n : createRpcCommand(registry[i], gs) \in C
  PROVE  \E g : CommandRun(root, gs, g, n)
<1> DEFINE F == [x \in Seq(C) \X (1 .. n) |-> AddCommand(x[1], registry[x[2]], gs)]
<1>1. F \in [Seq(C) \X (1 .. n) -> Seq(C)]
  BY DEF AddCommand
<1>2. \A cs \in Seq(C), i \in 1 .. n : F[<<cs, i>>] = AddCommand(cs, registry[i], gs)
  OBVIOUS
<1> HIDE DEF F
<1>3. PICK f \in Folded(Seq(C), F, root, n) : TRUE
  BY <1>1, FoldExists
<1>4. /\ f \in [SUBSET (1 .. n) -> Seq(C)]
      /\ \A s \in SUBSET (1 .. n) : f[s] = IF s = {} THEN root ELSE F[<<f[s \ {Max(s)}], Max(s)>>]
  BY <1>3 DEF Folded
<1>5. ASSUME NEW s \in SUBSET (1 .. n)
      PROVE  f[s] = IF s = {} THEN root ELSE AddCommand(f[s \ {Max(s)}], registry[Max(s)], gs)
  <2>1. CASE s = {}
    BY <1>4, <2>1
  <2>2. CASE s # {}
    <3>1. Max(s) \in 1 .. n /\ f[s \ {Max(s)}] \in Seq(C)
      BY <1>4, <2>2, MaxIs
    <3> QED BY <1>2, <1>4, <2>2, <3>1
  <2> QED BY <2>1, <2>2
<1>6. f = [s \in SUBSET (1 .. n) |-> f[s]]
  BY <1>4
<1>7. IsCommandFold(root, gs, f)
  BY <1>5, <1>6 DEF IsCommandFold
<1> DEFINE g == CHOOSE h : IsCommandFold(root, gs, h)
<1>8. IsCommandFold(root, gs, g)
  BY <1>7
<1>9. AddCommands(root, gs) = g[1 .. n]
  BY AddCommandsIs
<1> HIDE DEF g
<1>10. g[1 .. 0] = root
  <2>1. 1 .. 0 = {} /\ {} \in SUBSET DOMAIN registry
    OBVIOUS
  <2> QED BY <1>8, <2>1 DEF IsCommandFold
<1>11. ASSUME NEW k \in 1 .. n PROVE g[1 .. k] = AddCommand(g[1 .. (k - 1)], registry[k], gs)
  <2>1. 1 .. k \in SUBSET DOMAIN registry /\ k \in Nat \ {0}
    OBVIOUS
  <2>2. Max(1 .. k) = k /\ (1 .. k) \ {k} = 1 .. (k - 1) /\ 1 .. k # {}
    BY <2>1, PrefixMax
  <2> QED BY <1>8, <2>1, <2>2 DEF IsCommandFold
<1>12. CommandRun(root, gs, g, n)
  BY <1>9, <1>10, <1>11 DEF CommandRun
<1> QED BY <1>12

-----------------------------------------------------------------------------
(* The commands that the manifest makes. *)

(* No two commands have one name. *)
Names(cs)  == {cs[i].name : i \in DOMAIN cs}
Unique(cs) == \A i, j \in DOMAIN cs : cs[i].name = cs[j].name => i = j

(* What the commands are after the first k methods. *)
MadeOf(C, root, gs, cs, k) ==
  /\ cs \in Seq(C) /\ Unique(cs)
  /\ Names(cs) = Names(root) \union {registry[i].name : i \in 1 .. k}
  /\ \A j \in DOMAIN cs : \/ \E i \in DOMAIN root : cs[j] = root[i]
                          \/ \E i \in 1 .. k : cs[j] = createRpcCommand(registry[i], gs)

(* One more method makes its command, unless its name is taken. *)
LEMMA MadeNext ==
  ASSUME NEW C, NEW root, NEW gs, NEW cs, NEW k \in Nat, MadeOf(C, root, gs, cs, k),
         createRpcCommand(registry[k + 1], gs) \in C
  PROVE  MadeOf(C, root, gs, AddCommand(cs, registry[k + 1], gs), k + 1)
<1> DEFINE m == registry[k + 1]
           c == createRpcCommand(m, gs)
           ds == AddCommand(cs, m, gs)
<1>1. /\ cs \in Seq(C) /\ Unique(cs)
      /\ Names(cs) = Names(root) \union {registry[i].name : i \in 1 .. k}
      /\ \A j \in DOMAIN cs : \/ \E i \in DOMAIN root : cs[j] = root[i]
                              \/ \E i \in 1 .. k : cs[j] = createRpcCommand(registry[i], gs)
  BY DEF MadeOf
<1>2. c.name = m.name /\ 1 .. k + 1 = (1 .. k) \union {k + 1}
  BY DEF createRpcCommand
<1>3. {registry[i].name : i \in 1 .. k + 1} = {registry[i].name : i \in 1 .. k} \union {m.name}
  BY <1>2
<1>4. findSubCommand(cs, m.name) <=> m.name \in Names(cs)
  BY DEF findSubCommand, Names
<1>5. c \in C
  OBVIOUS
<1> HIDE DEF m, c
<1>6. CASE m.name \in Names(cs)
  <2>1. ds = cs
    BY <1>4, <1>6 DEF AddCommand
  <2>2. Names(cs) = Names(root) \union {registry[i].name : i \in 1 .. k + 1}
    BY <1>1, <1>3, <1>6
  <2>3. \A j \in DOMAIN cs : \/ \E i \in DOMAIN root : cs[j] = root[i]
                             \/ \E i \in 1 .. k + 1 : cs[j] = createRpcCommand(registry[i], gs)
    BY <1>1, <1>2
  <2> HIDE DEF ds
  <2>4. MadeOf(C, root, gs, ds, k + 1)
    BY <1>1, <2>1, <2>2, <2>3 DEF MadeOf
  <2> QED BY <2>4 DEF ds, m
<1>7. CASE m.name \notin Names(cs)
  <2>1. ds = Append(cs, c)
    BY <1>4, <1>7 DEF AddCommand, c
  <2>2. /\ ds \in Seq(C) /\ DOMAIN ds = DOMAIN cs \union {Len(cs) + 1}
        /\ \A j \in DOMAIN cs : ds[j] = cs[j] /\ j # Len(cs) + 1
        /\ ds[Len(cs) + 1] = c
    BY <1>1, <1>5, <2>1
  <2> HIDE DEF ds
  <2>3. Names(ds) = Names(cs) \union {m.name}
    BY <1>2, <2>2 DEF Names
  <2>4. Names(ds) = Names(root) \union {registry[i].name : i \in 1 .. k + 1}
    BY <1>1, <1>3, <2>3
  <2>5. Unique(ds)
    <3>1. \A j \in DOMAIN cs : ds[j].name # ds[Len(cs) + 1].name
      BY <1>2, <1>7, <2>2 DEF Names
    <3> QED BY <1>1, <2>2, <3>1 DEF Unique
  <2>6. \A j \in DOMAIN ds : \/ \E i \in DOMAIN root : ds[j] = root[i]
                             \/ \E i \in 1 .. k + 1 : ds[j] = createRpcCommand(registry[i], gs)
    BY <1>1, <1>2, <2>2 DEF c, m
  <2>7. MadeOf(C, root, gs, ds, k + 1)
    BY <2>2, <2>4, <2>5, <2>6 DEF MadeOf
  <2> QED BY <2>7 DEF ds, m
<1> QED BY <1>6, <1>7

(* All of them. *)
LEMMA CommandsMade ==
  ASSUME NEW n \in Nat, DOMAIN registry = 1 .. n, NEW D, NEW root \in Seq(D), NEW gs, Unique(root)
  PROVE  \E C : MadeOf(C, root, gs, AddCommands(root, gs), n)
<1> DEFINE C == D \union {createRpcCommand(registry[i], gs) : i \in 1 .. n}
<1>1. root \in Seq(C) /\ \A i \in 1 .. n : createRpcCommand(registry[i], gs) \in C
  OBVIOUS
<1> HIDE DEF C
<1>2. PICK g : CommandRun(root, gs, g, n)
  BY <1>1, CommandsFold
<1> DEFINE S == {k \in 0 .. n : MadeOf(C, root, gs, g[1 .. k], k)}
<1>3. 0 \in S
  <2>1. 1 .. 0 = {}
    OBVIOUS
  <2>2. MadeOf(C, root, gs, root, 0)
    BY <1>1, <2>1 DEF MadeOf
  <2> QED BY <1>2, <2>2 DEF CommandRun
<1>4. ASSUME NEW k \in 0 .. n, k \in S, k < n PROVE k + 1 \in S
  <2>1. k \in Nat /\ k + 1 \in 1 .. n /\ (k + 1) - 1 = k /\ MadeOf(C, root, gs, g[1 .. k], k)
    BY <1>4
  <2>2. g[1 .. k + 1] = AddCommand(g[1 .. k], registry[k + 1], gs)
    BY <1>2, <2>1 DEF CommandRun
  <2>3. MadeOf(C, root, gs, AddCommand(g[1 .. k], registry[k + 1], gs), k + 1)
    BY <1>1, <2>1, MadeNext
  <2> QED BY <2>1, <2>2, <2>3
<1> HIDE DEF S
<1>5. 0 .. n \subseteq S
  BY <1>3, <1>4, Inductive
<1>6. n \in S
  BY <1>5
<1> QED BY <1>2, <1>6 DEF S, CommandRun

(* What AddGroups does for one id. *)
Used(id) == \E i \in DOMAIN registry : registry[i].group = id
AddGroup(gs, id) == IF Used(id) /\ ~Contains(gs, id) THEN Append(gs, id) ELSE gs

(* The groups declared by all services, one after the other. *)
Declared == FlattenSeq([i \in DOMAIN services |-> services[i].declared])

(* The groups are folded in the same way. *)
IsGroupFold(root, g) ==
  g = [s \in SUBSET DOMAIN Declared |->
         IF s = {} THEN root ELSE AddGroup(g[s \ {Max(s)}], Declared[Max(s)])]

LEMMA AddGroupsIs ==
  ASSUME NEW root
  PROVE  AddGroups(root) = (CHOOSE g : IsGroupFold(root, g))[DOMAIN Declared]
BY DEF AddGroups, FoldLeft, MapThenFoldSet, IsGroupFold, AddGroup, Used, Declared

(* g runs through the declared groups one by one. *)
GroupRun(root, g, n) ==
  /\ AddGroups(root) = g[1 .. n] /\ g[1 .. 0] = root
  /\ \A k \in 1 .. n : g[1 .. k] = AddGroup(g[1 .. (k - 1)], Declared[k])

LEMMA GroupsFold ==
  ASSUME NEW n \in Nat, DOMAIN Declared = 1 .. n, NEW C, NEW root \in Seq(C),
         \A i \in 1 .. n : Declared[i] \in C
  PROVE  \E g : GroupRun(root, g, n)
<1> DEFINE F == [x \in Seq(C) \X (1 .. n) |-> AddGroup(x[1], Declared[x[2]])]
<1>1. F \in [Seq(C) \X (1 .. n) -> Seq(C)]
  BY DEF AddGroup
<1>2. \A gs \in Seq(C), i \in 1 .. n : F[<<gs, i>>] = AddGroup(gs, Declared[i])
  OBVIOUS
<1> HIDE DEF F
<1>3. PICK f \in Folded(Seq(C), F, root, n) : TRUE
  BY <1>1, FoldExists
<1>4. /\ f \in [SUBSET (1 .. n) -> Seq(C)]
      /\ \A s \in SUBSET (1 .. n) : f[s] = IF s = {} THEN root ELSE F[<<f[s \ {Max(s)}], Max(s)>>]
  BY <1>3 DEF Folded
<1>5. ASSUME NEW s \in SUBSET (1 .. n)
      PROVE  f[s] = IF s = {} THEN root ELSE AddGroup(f[s \ {Max(s)}], Declared[Max(s)])
  <2>1. CASE s = {}
    BY <1>4, <2>1
  <2>2. CASE s # {}
    <3>1. Max(s) \in 1 .. n /\ f[s \ {Max(s)}] \in Seq(C)
      BY <1>4, <2>2, MaxIs
    <3> QED BY <1>2, <1>4, <2>2, <3>1
  <2> QED BY <2>1, <2>2
<1>6. f = [s \in SUBSET (1 .. n) |-> f[s]]
  BY <1>4
<1>7. IsGroupFold(root, f)
  BY <1>5, <1>6 DEF IsGroupFold
<1> DEFINE g == CHOOSE h : IsGroupFold(root, h)
<1>8. IsGroupFold(root, g)
  BY <1>7
<1>9. AddGroups(root) = g[1 .. n]
  BY AddGroupsIs
<1> HIDE DEF g
<1>10. g[1 .. 0] = root
  <2>1. 1 .. 0 = {} /\ {} \in SUBSET DOMAIN Declared
    OBVIOUS
  <2> QED BY <1>8, <2>1 DEF IsGroupFold
<1>11. ASSUME NEW k \in 1 .. n PROVE g[1 .. k] = AddGroup(g[1 .. (k - 1)], Declared[k])
  <2>1. 1 .. k \in SUBSET DOMAIN Declared /\ k \in Nat \ {0}
    OBVIOUS
  <2>2. Max(1 .. k) = k /\ (1 .. k) \ {k} = 1 .. (k - 1) /\ 1 .. k # {}
    BY <2>1, PrefixMax
  <2> QED BY <1>8, <2>1, <2>2 DEF IsGroupFold
<1>12. GroupRun(root, g, n)
  BY <1>9, <1>10, <1>11 DEF GroupRun
<1> QED BY <1>12

(* No group is there twice. *)
Once(gs) == \A i, j \in DOMAIN gs : gs[i] = gs[j] => i = j

(* What the groups are after the first k declarations. *)
GroupedBy(C, root, gs, k) ==
  /\ gs \in Seq(C) /\ Once(gs)
  /\ Range(gs) = Range(root) \union {id \in {Declared[i] : i \in 1 .. k} : Used(id)}

(* One more declaration adds its group, if it is used and not there. *)
LEMMA GroupsNext ==
  ASSUME NEW C, NEW root, NEW gs, NEW k \in Nat, GroupedBy(C, root, gs, k), Declared[k + 1] \in C
  PROVE  GroupedBy(C, root, AddGroup(gs, Declared[k + 1]), k + 1)
<1> DEFINE id == Declared[k + 1]
           hs == AddGroup(gs, id)
<1>1. /\ gs \in Seq(C) /\ Once(gs)
      /\ Range(gs) = Range(root) \union {e \in {Declared[i] : i \in 1 .. k} : Used(e)}
  BY DEF GroupedBy
<1>2. 1 .. k + 1 = (1 .. k) \union {k + 1}
  OBVIOUS
<1>3. {Declared[i] : i \in 1 .. k + 1} = {Declared[i] : i \in 1 .. k} \union {id}
  BY <1>2
<1>4. Contains(gs, id) <=> id \in Range(gs)
  BY <1>1 DEF Contains, Range
<1>5. id \in C
  OBVIOUS
<1> HIDE DEF id
<1>6. CASE ~Used(id) \/ id \in Range(gs)
  <2>1. hs = gs
    BY <1>4, <1>6 DEF AddGroup
  <2>2. Range(gs) = Range(root) \union {e \in {Declared[i] : i \in 1 .. k + 1} : Used(e)}
    BY <1>1, <1>3, <1>6
  <2> HIDE DEF hs
  <2>3. GroupedBy(C, root, hs, k + 1)
    BY <1>1, <2>1, <2>2 DEF GroupedBy
  <2> QED BY <2>3 DEF hs, id
<1>7. CASE Used(id) /\ id \notin Range(gs)
  <2>1. hs = Append(gs, id)
    BY <1>4, <1>7 DEF AddGroup
  <2>2. /\ hs \in Seq(C) /\ DOMAIN hs = DOMAIN gs \union {Len(gs) + 1}
        /\ \A j \in DOMAIN gs : hs[j] = gs[j] /\ j # Len(gs) + 1
        /\ hs[Len(gs) + 1] = id
    BY <1>1, <1>5, <2>1
  <2> HIDE DEF hs
  <2>3. Range(hs) = Range(gs) \union {id}
    BY <2>2 DEF Range
  <2>4. Range(hs) = Range(root) \union {e \in {Declared[i] : i \in 1 .. k + 1} : Used(e)}
    BY <1>1, <1>3, <1>7, <2>3
  <2>5. Once(hs)
    <3>1. \A j \in DOMAIN gs : hs[j] # hs[Len(gs) + 1]
      BY <1>7, <2>2 DEF Range
    <3> QED BY <1>1, <2>2, <3>1 DEF Once
  <2>6. GroupedBy(C, root, hs, k + 1)
    BY <2>2, <2>4, <2>5 DEF GroupedBy
  <2> QED BY <2>6 DEF hs, id
<1> QED BY <1>6, <1>7

(* All of them. *)
LEMMA GroupsMade ==
  ASSUME NEW n \in Nat, DOMAIN Declared = 1 .. n, NEW D, NEW root \in Seq(D), Once(root)
  PROVE  \E C : GroupedBy(C, root, AddGroups(root), n)
<1> DEFINE C == D \union {Declared[i] : i \in 1 .. n}
<1>1. root \in Seq(C) /\ \A i \in 1 .. n : Declared[i] \in C
  OBVIOUS
<1> HIDE DEF C
<1>2. PICK g : GroupRun(root, g, n)
  BY <1>1, GroupsFold
<1> DEFINE S == {k \in 0 .. n : GroupedBy(C, root, g[1 .. k], k)}
<1>3. 0 \in S
  <2>1. {id \in {Declared[i] : i \in 1 .. 0} : Used(id)} = {}
    OBVIOUS
  <2>2. GroupedBy(C, root, root, 0)
    BY <1>1, <2>1 DEF GroupedBy
  <2> QED BY <1>2, <2>2 DEF GroupRun
<1>4. ASSUME NEW k \in 0 .. n, k \in S, k < n PROVE k + 1 \in S
  <2>1. k \in Nat /\ k + 1 \in 1 .. n /\ (k + 1) - 1 = k /\ GroupedBy(C, root, g[1 .. k], k)
    BY <1>4
  <2>2. g[1 .. k + 1] = AddGroup(g[1 .. k], Declared[k + 1])
    BY <1>2, <2>1 DEF GroupRun
  <2>3. GroupedBy(C, root, AddGroup(g[1 .. k], Declared[k + 1]), k + 1)
    BY <1>1, <2>1, GroupsNext
  <2> QED BY <2>1, <2>2, <2>3
<1> HIDE DEF S
<1>5. 0 .. n \subseteq S
  BY <1>3, <1>4, Inductive
<1>6. n \in S
  BY <1>5
<1> QED BY <1>2, <1>6 DEF S, GroupRun

-----------------------------------------------------------------------------
(* The declared groups, service after service. *)

(* f joins the first sequences. *)
Joined(X, seqs, n) ==
  {f \in [1 .. n -> Seq(X)] : \A i \in 1 .. n : f[i] = IF i = 1 THEN seqs[i] ELSE f[i - 1] \o seqs[i]}

(* Who can join n sequences can join one more. *)
LEMMA JoinNext ==
  ASSUME NEW X, NEW seqs, NEW n \in Nat, Joined(X, seqs, n) # {}, seqs[n + 1] \in Seq(X)
  PROVE  Joined(X, seqs, n + 1) # {}
<1>1. PICK f \in Joined(X, seqs, n) : TRUE
  OBVIOUS
<1>2. /\ f \in [1 .. n -> Seq(X)]
      /\ \A i \in 1 .. n : f[i] = IF i = 1 THEN seqs[i] ELSE f[i - 1] \o seqs[i]
  BY <1>1 DEF Joined
<1> DEFINE h == [i \in 1 .. n + 1 |->
                   IF i <= n THEN f[i] ELSE IF i = 1 THEN seqs[i] ELSE f[n] \o seqs[n + 1]]
<1>3. \A i \in 1 .. n + 1 : i \in 1 .. n \/ i = n + 1
  OBVIOUS
<1>4. h[n + 1] = IF n = 0 THEN seqs[n + 1] ELSE f[n] \o seqs[n + 1]
  OBVIOUS
<1>5. \A i \in 1 .. n : h[i] = f[i]
  OBVIOUS
<1>6. h = [i \in 1 .. n + 1 |-> h[i]]
  OBVIOUS
<1> HIDE DEF h
<1>7. n # 0 => n \in 1 .. n /\ f[n] \in Seq(X)
  BY <1>2
<1>8. h[n + 1] \in Seq(X)
  BY <1>4, <1>7
<1>9. \A i \in 1 .. n + 1 : h[i] \in Seq(X)
  BY <1>2, <1>3, <1>5, <1>8
<1>10. ASSUME NEW i \in 1 .. n + 1 PROVE h[i] = IF i = 1 THEN seqs[i] ELSE h[i - 1] \o seqs[i]
  <2>1. CASE i \in 1 .. n
    <3>1. i # 1 => i - 1 \in 1 .. n
      BY <2>1
    <3> QED BY <1>2, <1>5, <2>1, <3>1
  <2>2. CASE i = n + 1
    <3>1. i = 1 <=> n = 0
      BY <2>2
    <3>2. i - 1 = n
      BY <2>2
    <3> QED BY <1>4, <1>5, <1>7, <2>2, <3>1, <3>2
  <2> QED BY <1>3, <2>1, <2>2
<1>11. h \in [1 .. n + 1 -> Seq(X)]
  BY <1>6, <1>9
<1>12. h \in Joined(X, seqs, n + 1)
  BY <1>10, <1>11 DEF Joined
<1> QED BY <1>12

LEMMA JoinedRange ==
  ASSUME NEW X, NEW a \in Seq(X), NEW b \in Seq(X)
  PROVE  Range(a \o b) = Range(a) \union Range(b)
<1> DEFINE c == a \o b
<1>1. /\ DOMAIN c = 1 .. Len(a) + Len(b) /\ DOMAIN a = 1 .. Len(a) /\ DOMAIN b = 1 .. Len(b)
      /\ Len(a) \in Nat /\ Len(b) \in Nat
      /\ \A i \in 1 .. Len(a) + Len(b) : c[i] = IF i <= Len(a) THEN a[i] ELSE b[i - Len(a)]
  OBVIOUS
<1> HIDE DEF c
<1>2. ASSUME NEW i \in DOMAIN c PROVE c[i] \in Range(a) \union Range(b)
  <2>1. i <= Len(a) \/ i - Len(a) \in DOMAIN b
    BY <1>1
  <2>2. i <= Len(a) => i \in DOMAIN a
    BY <1>1
  <2> QED BY <1>1, <2>1, <2>2 DEF Range
<1>3. ASSUME NEW i \in DOMAIN a PROVE a[i] \in Range(c)
  <2>1. i \in DOMAIN c /\ c[i] = a[i]
    BY <1>1
  <2> QED BY <2>1 DEF Range
<1>4. ASSUME NEW i \in DOMAIN b PROVE b[i] \in Range(c)
  <2>1. i + Len(a) \in DOMAIN c /\ ~(i + Len(a) <= Len(a)) /\ i + Len(a) - Len(a) = i
    BY <1>1
  <2>2. c[i + Len(a)] = b[i]
    BY <1>1, <2>1
  <2> QED BY <2>1, <2>2 DEF Range
<1> QED BY <1>2, <1>3, <1>4 DEF Range, c

(* FlattenSeq is where a function that joins the sequences ends. *)
LEMMA FlattenIs ==
  ASSUME NEW X, NEW seqs \in Seq(Seq(X)), Len(seqs) # 0
  PROVE  \E f \in Joined(X, seqs, Len(seqs)) : FlattenSeq(seqs) = f[Len(seqs)]
<1> DEFINE n == Len(seqs)
           IsJoin(f) == f = [i \in 1 .. n |-> IF i = 1 THEN seqs[i] ELSE f[i - 1] \o seqs[i]]
           g == CHOOSE f : IsJoin(f)
           S == {k \in 0 .. n : Joined(X, seqs, k) # {}}
           T == {k \in 0 .. n : k # 0 => g[k] \in Seq(X)}
<1>1. n \in Nat \ {0} /\ \A i \in 1 .. n : seqs[i] \in Seq(X)
  OBVIOUS
<1>2. FlattenSeq(seqs) = g[n]
  BY DEF FlattenSeq
<1>3. 0 \in S
  <2> DEFINE f == [i \in 1 .. 0 |-> <<>>]
  <2>1. f \in [1 .. 0 -> Seq(X)] /\ \A i \in 1 .. 0 : FALSE
    OBVIOUS
  <2> HIDE DEF f
  <2>2. f \in Joined(X, seqs, 0)
    BY <2>1 DEF Joined
  <2> QED BY <1>1, <2>2
<1>4. ASSUME NEW k \in 0 .. n, k \in S, k < n PROVE k + 1 \in S
  <2>1. k \in Nat /\ k + 1 \in 0 .. n /\ k + 1 \in 1 .. n /\ Joined(X, seqs, k) # {}
    BY <1>1, <1>4
  <2>2. seqs[k + 1] \in Seq(X)
    BY <1>1, <2>1
  <2>3. Joined(X, seqs, k + 1) # {}
    BY <2>1, <2>2, JoinNext
  <2> QED BY <2>1, <2>3
<1> HIDE DEF S
<1>5. 0 .. n \subseteq S
  BY <1>1, <1>3, <1>4, Inductive
<1>6. PICK f \in Joined(X, seqs, n) : TRUE
  <2>1. n \in S
    BY <1>1, <1>5, SMTT(30)
  <2> QED BY <2>1 DEF S
<1>7. IsJoin(f)
  BY <1>6 DEF Joined
<1>8. IsJoin(g)
  BY <1>7
<1>9. \A i \in 1 .. n : g[i] = IF i = 1 THEN seqs[i] ELSE g[i - 1] \o seqs[i]
  BY <1>8
<1>10. g = [i \in 1 .. n |-> g[i]]
  BY <1>8, ZenonT(30)
<1> HIDE DEF g
<1>11. 0 \in T
  BY <1>1
<1>12. ASSUME NEW k \in 0 .. n, k \in T, k < n PROVE k + 1 \in T
  <2>1. k \in Nat /\ k + 1 \in 0 .. n /\ k + 1 \in 1 .. n /\ (k + 1) - 1 = k /\ (k + 1 = 1 <=> k = 0)
    BY <1>1, <1>12
  <2>2. seqs[k + 1] \in Seq(X) /\ (k # 0 => g[k] \in Seq(X))
    BY <1>1, <1>12, <2>1
  <2>3. g[k + 1] = IF k = 0 THEN seqs[k + 1] ELSE g[k] \o seqs[k + 1]
    BY <1>9, <2>1
  <2>4. g[k + 1] \in Seq(X)
    BY <2>2, <2>3
  <2> QED BY <2>1, <2>4
<1> HIDE DEF T
<1>13. 0 .. n \subseteq T
  BY <1>1, <1>11, <1>12, Inductive
<1>14. \A i \in 1 .. n : g[i] \in Seq(X)
  <2> TAKE i \in 1 .. n
  <2>1. i \in 0 .. n /\ i # 0
    BY <1>1
  <2> QED BY <1>13, <2>1 DEF T
<1>15. g \in Joined(X, seqs, n)
  BY <1>9, <1>10, <1>14 DEF Joined
<1> QED BY <1>2, <1>15

(* FlattenSeq has the elements of all sequences, and no others. *)
LEMMA Flattened ==
  ASSUME NEW X, NEW seqs \in Seq(Seq(X))
  PROVE  /\ FlattenSeq(seqs) \in Seq(X)
         /\ Range(FlattenSeq(seqs)) = UNION {Range(seqs[i]) : i \in 1 .. Len(seqs)}
<1> DEFINE n == Len(seqs)
<1>1. n \in Nat /\ DOMAIN seqs = 1 .. n /\ \A i \in 1 .. n : seqs[i] \in Seq(X)
  OBVIOUS
<1>2. CASE n = 0
  <2>1. FlattenSeq(seqs) = <<>> /\ 1 .. n = {}
    BY <1>2 DEF FlattenSeq
  <2>2. <<>> \in Seq(X) /\ Range(<<>>) = {}
    BY DEF Range
  <2> QED BY <2>1, <2>2
<1>3. CASE n # 0
  <2> DEFINE R(k) == UNION {Range(seqs[i]) : i \in 1 .. k}
  <2>1. PICK g \in Joined(X, seqs, n) : FlattenSeq(seqs) = g[n]
    BY <1>3, FlattenIs
  <2> DEFINE T == {k \in 0 .. n : k # 0 => Range(g[k]) = R(k)}
  <2>2. /\ \A i \in 1 .. n : g[i] = IF i = 1 THEN seqs[i] ELSE g[i - 1] \o seqs[i]
        /\ \A i \in 1 .. n : g[i] \in Seq(X)
    BY DEF Joined
  <2>3. 0 \in T
    BY <1>1
  <2>4. ASSUME NEW k \in 0 .. n, k \in T, k < n PROVE k + 1 \in T
    <3>1. /\ k \in Nat /\ k + 1 \in 0 .. n /\ k + 1 \in 1 .. n /\ (k + 1) - 1 = k /\ (k + 1 = 1 <=> k = 0)
          /\ k # 0 => k \in 1 .. n
      BY <1>1, <2>4
    <3>2. seqs[k + 1] \in Seq(X)
      BY <1>1, <3>1
    <3>3. CASE k = 0
      <4>1. g[1] = seqs[1] /\ 1 .. 1 = {1}
        BY <2>2, <3>1, <3>3
      <4>2. R(1) = Range(seqs[1])
        BY <4>1
      <4> QED BY <3>1, <3>3, <4>1, <4>2
    <3>4. CASE k # 0
      <4>1. g[k] \in Seq(X) /\ Range(g[k]) = R(k)
        BY <2>2, <2>4, <3>1, <3>4
      <4>2. g[k + 1] = g[k] \o seqs[k + 1]
        BY <2>2, <3>1, <3>4
      <4>3. Range(g[k] \o seqs[k + 1]) = Range(g[k]) \union Range(seqs[k + 1])
        BY <3>2, <4>1, JoinedRange
      <4>4. 1 .. k + 1 = (1 .. k) \union {k + 1}
        BY <3>1
      <4>5. R(k + 1) = R(k) \union Range(seqs[k + 1])
        BY <4>4
      <4> HIDE DEF R
      <4> QED BY <3>1, <4>1, <4>2, <4>3, <4>5
    <3> QED BY <3>3, <3>4
  <2> HIDE DEF T
  <2>5. 0 .. n \subseteq T
    BY <1>1, <2>3, <2>4, Inductive
  <2>6. n \in T /\ n \in 1 .. n
    BY <1>1, <1>3, <2>5
  <2> QED BY <1>3, <2>1, <2>2, <2>6 DEF T
<1> QED BY <1>2, <1>3

(* Where two lists of sequences agree, joining them agrees. *)
LEMMA JoinsAgree ==
  ASSUME NEW X, NEW Y, NEW m \in Nat, NEW n \in Nat, m <= n, NEW s, NEW t,
         NEW f \in Joined(X, s, m), NEW g \in Joined(Y, t, n), \A i \in 1 .. m : s[i] = t[i]
  PROVE  \A i \in 1 .. m : f[i] = g[i]
<1> DEFINE T == {k \in 0 .. m : k # 0 => f[k] = g[k]}
<1>1. /\ \A i \in 1 .. m : f[i] = IF i = 1 THEN s[i] ELSE f[i - 1] \o s[i]
      /\ \A i \in 1 .. n : g[i] = IF i = 1 THEN t[i] ELSE g[i - 1] \o t[i]
  BY DEF Joined
<1>2. 0 \in T
  OBVIOUS
<1>3. ASSUME NEW k \in 0 .. m, k \in T, k < m PROVE k + 1 \in T
  <2>1. k + 1 \in 0 .. m /\ k + 1 \in 1 .. m /\ k + 1 \in 1 .. n /\ (k + 1) - 1 = k /\ (k + 1 = 1 <=> k = 0)
    BY <1>3
  <2>2. s[k + 1] = t[k + 1] /\ (k # 0 => f[k] = g[k])
    BY <1>3, <2>1
  <2>3. /\ f[k + 1] = IF k = 0 THEN s[k + 1] ELSE f[k] \o s[k + 1]
        /\ g[k + 1] = IF k = 0 THEN t[k + 1] ELSE g[k] \o t[k + 1]
    BY <1>1, <2>1
  <2> QED BY <2>1, <2>2, <2>3
<1> HIDE DEF T
<1>4. 0 .. m \subseteq T
  BY <1>2, <1>3, Inductive
<1> QED BY <1>4 DEF T

LEMMA ConsAppend ==
  ASSUME NEW S, NEW a \in Seq(S), NEW x \in S, NEW y \in S
  PROVE  <<x>> \o Append(a, y) = Append(<<x>> \o a, y) /\ <<x>> \o a \in Seq(S)
OBVIOUS

(* FlattenSeq of nothing, of one sequence more at the end, and at the front. *)
LEMMA FlattenNone == FlattenSeq(<<>>) = <<>>
BY DEF FlattenSeq

LEMMA FlattenAppend ==
  ASSUME NEW X, NEW ss \in Seq(Seq(X)), NEW x \in Seq(X)
  PROVE  FlattenSeq(Append(ss, x)) = FlattenSeq(ss) \o x
<1> DEFINE n == Len(ss)  t == Append(ss, x)
<1>1. /\ n \in Nat /\ t \in Seq(Seq(X)) /\ Len(t) = n + 1 /\ t[n + 1] = x
      /\ \A i \in 1 .. n : t[i] = ss[i]
  OBVIOUS
<1> HIDE DEF t
<1>2. PICK g \in Joined(X, t, n + 1) : FlattenSeq(t) = g[n + 1]
  BY <1>1, FlattenIs
<1>3. n + 1 \in 1 .. n + 1 /\ (n + 1) - 1 = n /\ (n + 1 = 1 <=> n = 0) /\ n + 1 \in Nat /\ n <= n + 1
  BY <1>1
<1>4. g[n + 1] = IF n = 0 THEN x ELSE g[n] \o x
  <2>1. \A i \in 1 .. n + 1 : g[i] = IF i = 1 THEN t[i] ELSE g[i - 1] \o t[i]
    BY DEF Joined
  <2> QED BY <1>1, <1>3, <2>1
<1>5. CASE n = 0
  <2>1. ss = <<>>
    BY <1>5
  <2> QED BY <1>2, <1>4, <1>5, <2>1, FlattenNone DEF t
<1>6. CASE n # 0
  <2>1. PICK f \in Joined(X, ss, n) : FlattenSeq(ss) = f[n]
    BY <1>6, FlattenIs
  <2>2. \A i \in 1 .. n : f[i] = g[i]
    <3>1. \A i \in 1 .. n : ss[i] = t[i]
      BY <1>1
    <3>2. f \in Joined(X, ss, n) /\ g \in Joined(X, t, n + 1)
      OBVIOUS
    <3>3. n \in Nat /\ n + 1 \in Nat /\ n <= n + 1
      BY <1>1
    <3> HIDE DEF n
    <3> QED BY <3>1, <3>2, <3>3, JoinsAgree
  <2>3. n \in 1 .. n
    BY <1>1, <1>6
  <2> QED BY <1>2, <1>4, <1>6, <2>1, <2>2, <2>3 DEF t
<1> QED BY <1>5, <1>6

LEMMA FlattenCons ==
  ASSUME NEW X, NEW ss \in Seq(Seq(X)), NEW x \in Seq(X)
  PROVE  FlattenSeq(<<x>> \o ss) = x \o FlattenSeq(ss)
<1> DEFINE n == Len(ss)
           First(k) == SubSeq(ss, 1, k)
           T == {k \in 0 .. n : FlattenSeq(<<x>> \o First(k)) = x \o FlattenSeq(First(k))}
<1>1. n \in Nat /\ First(n) = ss /\ First(0) = <<>>
  OBVIOUS
<1>2. \A k \in 0 .. n : First(k) \in Seq(Seq(X))
  OBVIOUS
<1>3. 0 \in T
  <2>1. <<x>> \o <<>> = Append(<<>>, x) /\ <<>> \in Seq(Seq(X)) /\ <<>> \o x = x /\ x \o <<>> = x
    OBVIOUS
  <2>2. FlattenSeq(Append(<<>>, x)) = FlattenSeq(<<>>) \o x
    BY <2>1, FlattenAppend
  <2>3. FlattenSeq(<<x>> \o <<>>) = x \o FlattenSeq(<<>>)
    BY <2>1, <2>2, FlattenNone
  <2>4. FlattenSeq(<<x>> \o First(0)) = x \o FlattenSeq(First(0))
    <3> HIDE DEF First
    <3> QED BY <1>1, <2>3
  <2> HIDE DEF First
  <2> QED BY <1>1, <2>4, SMTT(30)
<1>4. ASSUME NEW k \in 0 .. n, k \in T, k < n PROVE k + 1 \in T
  <2> DEFINE a == First(k)  y == ss[k + 1]
  <2>1. k + 1 \in 0 .. n /\ y \in Seq(X) /\ First(k + 1) = Append(a, y)
    BY <1>4
  <2>2. a \in Seq(Seq(X)) /\ FlattenSeq(<<x>> \o a) = x \o FlattenSeq(a)
    BY <1>2, <1>4
  <2> HIDE DEF a, y, First
  <2>3. <<x>> \o Append(a, y) = Append(<<x>> \o a, y) /\ <<x>> \o a \in Seq(Seq(X))
    BY <2>1, <2>2, ConsAppend, SMTT(30)
  <2>4. FlattenSeq(<<x>> \o Append(a, y)) = FlattenSeq(<<x>> \o a) \o y
    BY <2>1, <2>3, FlattenAppend
  <2>5. FlattenSeq(Append(a, y)) = FlattenSeq(a) \o y
    BY <2>1, <2>2, FlattenAppend
  <2>6. FlattenSeq(a) \in Seq(X)
    BY <2>2, Flattened
  <2>7. (x \o FlattenSeq(a)) \o y = x \o (FlattenSeq(a) \o y)
    <3>1. x \in Seq(X) /\ FlattenSeq(a) \in Seq(X) /\ y \in Seq(X)
      BY <2>1, <2>6
    <3> QED BY <3>1, ConcatAssociative, SMTT(30)
  <2> QED BY <2>1, <2>2, <2>4, <2>5, <2>7
<1> HIDE DEF T
<1>5. 0 .. n \subseteq T
  BY <1>1, <1>3, <1>4, Inductive
<1>6. n \in T
  BY <1>1, <1>5, SMTT(30)
<1> QED BY <1>1, <1>6 DEF T

-----------------------------------------------------------------------------
(* The command line. *)

(* The same as a set. *)
DeclaredIds == UNION {Range(services[s].declared) : s \in DOMAIN services}

(* A command has the flags of its method and a group the root knows. *)
CommandOK(c) ==
  /\ c.name \notin Reserved => c.flags = {a \in Range(Target(c.name).args) : a > 0}
  /\ c.group = NoGroup \/ Contains(groups, c.group)

(* What the manifest has added. *)
Added == IF built = 0 THEN {} ELSE DOMAIN routes
Asked == IF built = 0 THEN {} ELSE {id \in DeclaredIds : Used(id)}

(* The inductive invariant: before the manifest is added there are the       *)
(* static commands; afterwards the property holds, and no step but another   *)
(* addition is left.                                                         *)
CInv ==
  /\ built \in Nat /\ (built > 0 => phase = "serve")
  /\ \E C, D : commands \in Seq(C) /\ groups \in Seq(D)
  /\ Unique(commands) /\ Once(groups)
  /\ Names(commands) = Reserved \union Added /\ Range(groups) = {ServiceGroup} \union Asked
  /\ \A i \in DOMAIN commands : CommandOK(commands[i])

LEMMA InitCInv == Init => CInv
<1> SUFFICES ASSUME Init PROVE CInv
  OBVIOUS
<1> DEFINE c == [name |-> <<25>>, group |-> ServiceGroup, flags |-> {}]
           d == [name |-> <<26>>, group |-> ServiceGroup, flags |-> {}]
<1>1. commands = <<c, d>> /\ groups = <<ServiceGroup>> /\ built = 0
  BY DEF Init, Lower
<1>2. Reserved = {c.name, d.name} /\ c.name # d.name /\ c.group = ServiceGroup /\ d.group = ServiceGroup
  BY DEF Reserved, Lower
<1> HIDE DEF c, d
<1>3. DOMAIN commands = {1, 2} /\ commands[1] = c /\ commands[2] = d /\ commands \in Seq({c, d})
  BY <1>1
<1>4. DOMAIN groups = {1} /\ groups[1] = ServiceGroup /\ groups \in Seq({ServiceGroup}) /\ Len(groups) = 1
  BY <1>1
<1>5. Unique(commands) /\ Names(commands) = Reserved
  BY <1>2, <1>3 DEF Unique, Names
<1>6. Once(groups) /\ Range(groups) = {ServiceGroup} /\ Contains(groups, ServiceGroup)
  BY <1>4 DEF Once, Range, Contains
<1>7. \A i \in DOMAIN commands : CommandOK(commands[i])
  BY <1>2, <1>3, <1>6 DEF CommandOK
<1>8. Added = {} /\ Asked = {} /\ built \in Nat /\ ~(built > 0)
  BY <1>1 DEF Added, Asked
<1>9. \E C, D : commands \in Seq(C) /\ groups \in Seq(D)
  BY <1>3, <1>4
<1> QED BY <1>5, <1>6, <1>7, <1>8, <1>9 DEF CInv

(* The commands before the manifest is added stay as they are. *)
LEMMA CInvStays ==
  ASSUME CInv, built = 0, UNCHANGED cli
  PROVE  CInv'
<1>1. commands' = commands /\ groups' = groups /\ built' = 0
  BY DEF cli
<1>2. Names(commands) = Reserved /\ Range(groups) = {ServiceGroup}
  BY DEF CInv, Added, Asked
<1>3. \A i \in DOMAIN commands : commands[i].name \in Reserved /\ CommandOK(commands[i])
  BY <1>2 DEF CInv, Names
<1>4. \A i \in DOMAIN commands : CommandOK(commands[i])'
  BY <1>1, <1>3 DEF CommandOK
<1>5. Added' = {} /\ Asked' = {} /\ built' \in Nat /\ ~(built' > 0)
  BY <1>1 DEF Added, Asked
<1>6. Names(commands)' = Reserved /\ Range(groups)' = {ServiceGroup} /\ Unique(commands)' /\ Once(groups)'
  BY <1>1, <1>2 DEF CInv, Names, Unique, Once, Range
<1>7. (\E C, D : commands \in Seq(C) /\ groups \in Seq(D))'
  BY <1>1 DEF CInv
<1> QED BY <1>1, <1>4, <1>5, <1>6, <1>7 DEF CInv

(* Adding the manifest, the first time or again. *)
LEMMA AddStep == ASSUME IInv, CInv, addRpcCommands PROVE CInv'
<1>1. /\ phase = "serve" /\ phase' = "serve"
      /\ groups' = AddGroups(groups) /\ commands' = AddCommands(commands, groups')
      /\ built' = built + 1
      /\ UNCHANGED <<services, registry, routes>>
  BY DEF addRpcCommands
<1>2. PICK C, D : commands \in Seq(C) /\ groups \in Seq(D)
  BY DEF CInv
<1>3. built \in Nat /\ built' \in Nat /\ built' > 0
  BY <1>1 DEF CInv
<1>4. PICK n \in Nat : /\ DOMAIN registry = 1 .. n
                       /\ \A i \in 1 .. n : registry[i].args \in Seq(Nat)
  <2>1. PICK N, G : registry \in Seq(EntryType(N, G))
    BY DEF IInv, Typed
  <2>2. Len(registry) \in Nat /\ DOMAIN registry = 1 .. Len(registry)
        /\ \A i \in 1 .. Len(registry) : registry[i] \in EntryType(N, G)
    BY <2>1
  <2> QED BY <2>2 DEF EntryType
<1>5. /\ DOMAIN routes = {registry[i].name : i \in 1 .. n}
      /\ \A i \in 1 .. n : registry[i].args = Target(registry[i].name).args
  BY <1>1, <1>4 DEF IInv, ManifestMatches
<1>6. PICK m \in Nat : DOMAIN Declared = 1 .. m /\ {Declared[i] : i \in 1 .. m} = DeclaredIds
  <2> DEFINE ds == [s \in DOMAIN services |-> services[s].declared]
  <2>1. DOMAIN services = 1 .. Count /\ Count \in Nat
    BY Facts DEF IInv
  <2>2. \A s \in 1 .. Count : services[s].declared \in Seq(Range(services[s].declared))
    BY DEF IInv, Typed, ServicesTyped, IsService
  <2>3. \A s \in 1 .. Count : services[s].declared \in Seq(DeclaredIds)
    <3> SUFFICES ASSUME NEW s \in 1 .. Count PROVE services[s].declared \in Seq(DeclaredIds)
      OBVIOUS
    <3>1. Range(services[s].declared) \subseteq DeclaredIds
      BY <2>1 DEF DeclaredIds
    <3> QED BY <2>2, <3>1
  <2>4. ds \in Seq(Seq(DeclaredIds)) /\ Len(ds) = Count /\ \A s \in 1 .. Count : ds[s] = services[s].declared
    BY <2>1, <2>3
  <2>5. Declared = FlattenSeq(ds)
    BY DEF Declared
  <2> HIDE DEF ds
  <2>6. Declared \in Seq(DeclaredIds) /\ Range(Declared) = UNION {Range(ds[s]) : s \in 1 .. Count}
    BY <2>4, <2>5, Flattened
  <2>7. Range(Declared) = DeclaredIds
    BY <2>1, <2>4, <2>6 DEF DeclaredIds
  <2>8. Len(Declared) \in Nat /\ DOMAIN Declared = 1 .. Len(Declared)
    BY <2>6
  <2> QED BY <2>7, <2>8 DEF Range
<1>7. PICK H : GroupedBy(H, groups, groups', m)
  BY <1>1, <1>2, <1>6, GroupsMade DEF CInv
<1>8. Range(groups') = {ServiceGroup} \union {id \in DeclaredIds : Used(id)} /\ Once(groups') /\ groups' \in Seq(H)
  BY <1>6, <1>7 DEF GroupedBy, CInv, Asked
<1>9. PICK K : MadeOf(K, commands, groups', commands', n)
  BY <1>1, <1>2, <1>4, CommandsMade DEF CInv
<1>10. /\ commands' \in Seq(K) /\ Unique(commands')
       /\ Names(commands') = Names(commands) \union DOMAIN routes
       /\ \A j \in DOMAIN commands' :
            \/ \E i \in DOMAIN commands : commands'[j] = commands[i]
            \/ \E i \in 1 .. n : commands'[j] = createRpcCommand(registry[i], groups')
  BY <1>5, <1>9 DEF MadeOf
<1>11. Names(commands') = Reserved \union DOMAIN routes
  BY <1>10 DEF CInv, Added
<1>12. \A id : Contains(groups, id) => Contains(groups', id)
  <2>1. \A id : Contains(groups, id) <=> id \in Range(groups)
    BY <1>2 DEF Contains, Range
  <2>2. \A id : Contains(groups', id) <=> id \in Range(groups')
    BY <1>8 DEF Contains, Range
  <2>3. Range(groups) \subseteq Range(groups')
    BY <1>7 DEF GroupedBy
  <2> QED BY <2>1, <2>2, <2>3
<1>13. \A name : Target(name)' = Target(name)
  BY <1>1 DEF Target
<1>14. ASSUME NEW j \in DOMAIN commands' PROVE CommandOK(commands[j])'
  <2> DEFINE c == commands'[j]
  <2>1. CASE \E i \in DOMAIN commands : c = commands[i]
    <3>1. CommandOK(c)
      BY <2>1 DEF CInv
    <3> QED BY <1>12, <1>13, <3>1 DEF CommandOK
  <2>2. CASE \E i \in 1 .. n : c = createRpcCommand(registry[i], groups')
    <3>1. PICK i \in 1 .. n : c = createRpcCommand(registry[i], groups')
      BY <2>2
    <3>2. /\ c.name = registry[i].name /\ c.flags = Range(registry[i].args) \ {0}
          /\ c.group = NoGroup \/ Contains(groups', c.group)
      BY <3>1 DEF createRpcCommand, Positional
    <3>3. Range(registry[i].args) \subseteq Nat
      BY <1>4 DEF Range
    <3>4. Range(registry[i].args) \ {0} = {a \in Range(registry[i].args) : a > 0}
      BY <3>3
    <3> HIDE DEF c
    <3>5. c.flags = {a \in Range(Target(c.name).args) : a > 0}
      BY <1>5, <3>2, <3>4
    <3> QED BY <1>13, <3>2, <3>5 DEF CommandOK, c
  <2> QED BY <1>10, <2>1, <2>2
<1>15. DeclaredIds' = DeclaredIds /\ \A id : Used(id)' <=> Used(id)
  BY <1>1 DEF DeclaredIds, Used
<1>16. Added' = DOMAIN routes /\ Asked' = {id \in DeclaredIds : Used(id)}
  BY <1>1, <1>3, <1>15 DEF Added, Asked
<1>17. (\E X, Y : commands \in Seq(X) /\ groups \in Seq(Y))'
  BY <1>8, <1>10
<1> QED BY <1>1, <1>3, <1>8, <1>10, <1>11, <1>14, <1>16, <1>17 DEF CInv

LEMMA StepCInv == IInv /\ CInv /\ [Next]_vars => CInv'
<1> SUFFICES ASSUME IInv, CInv, [Next]_vars PROVE CInv'
  OBVIOUS
<1>1. phase # "serve" => built = 0
  BY DEF CInv
<1>2. CASE addRpcCommands
  BY <1>2, AddStep
<1>3. CASE SkipMethod \/ RegisterMethod \/ RejectMethod \/ PanicAtMethod \/ AllMethods
  <2>1. phase = "register" /\ UNCHANGED cli
    BY <1>3 DEF SkipMethod, RegisterMethod, RejectMethod, PanicAtMethod, AllMethods, AtMethod, Registering
  <2> QED BY <1>1, <2>1, CInvStays
<1>4. CASE RegroupOne \/ RegisteredService \/ Serve \/ Versioned
  <2>1. phase \in {"register", "version"} /\ UNCHANGED cli
    BY <1>4 DEF RegroupOne, Regroup, RegisteredService, Serve, Versioned, InDocs, Registering
  <2> QED BY <1>1, <2>1, CInvStays
<1>5. CASE UNCHANGED vars
  <2>1. /\ phase' = phase /\ services' = services /\ registry' = registry /\ routes' = routes
        /\ groups' = groups /\ commands' = commands /\ built' = built
    BY <1>5 DEF vars, cli
  <2>2. DeclaredIds' = DeclaredIds /\ (\A id : Used(id)' <=> Used(id)) /\ \A name : Target(name)' = Target(name)
    BY <2>1 DEF DeclaredIds, Used, Target
  <2>3. Added' = Added /\ Asked' = Asked
    BY <2>1, <2>2 DEF Added, Asked
  <2>4. \A i \in DOMAIN commands : CommandOK(commands[i])'
    BY <2>1, <2>2 DEF CInv, CommandOK
  <2>5. Names(commands)' = Names(commands) /\ Range(groups)' = Range(groups) /\ Unique(commands)' /\ Once(groups)'
    BY <2>1 DEF CInv, Names, Unique, Once, Range
  <2>6. (\E C, D : commands \in Seq(C) /\ groups \in Seq(D))'
    BY <2>1 DEF CInv
  <2> QED BY <2>1, <2>3, <2>4, <2>5, <2>6 DEF CInv
<1> QED BY <1>2, <1>3, <1>4, <1>5 DEF Next, Register

(* However often the manifest is added to the command line, each method of   *)
(* it is one command with the right flags, and the groups are those that are *)
(* used (CommandsMatchManifest; default_main.go).                            *)
THEOREM RegistrationCommandsMatchManifest == Spec => []CommandsMatchManifest
<1>1. Init => IInv /\ CInv
  BY InitIInv, InitCInv
<1>2. IInv /\ CInv /\ [Next]_vars => (IInv /\ CInv)'
  BY StepIInv, StepCInv
<1>3. CInv => CommandsMatchManifest
  BY DEF CInv, Added, Asked, CommandsMatchManifest, CommandOK, Unique, Names, Once, DeclaredIds, Used
<1> QED BY <1>1, <1>2, <1>3, PTL DEF Spec

-----------------------------------------------------------------------------
(* The converter: what is written for values, one value after the other.     *)

Newline == Punct("newline")
Marks  == {"[", "]", "{", "}", ",", ":", "newline"}
MarkTexts == {Punct(s) : s \in Marks}
Tokens == UNION {Range(Encode(v)) : v \in Data}
Texts  == (UNION {Range(Json(v)) : v \in Data})
          \union MarkTexts

(* The items of a container after the p-th, and its end. *)
Rest(kind, p, todo) ==
  FlattenSeq([i \in DOMAIN todo |-> <<Separator(kind, p + i)>> \o Json(todo[i])])
Closing(kind) == <<Punct(IF kind = "map" THEN "}" ELSE "]")>>
Opening(kind) == <<Punct(IF kind = "map" THEN "{" ELSE "[")>>

LEMMA MarkTypes ==
  /\ <<Newline>> \in Seq(Texts)
  /\ \A kind, i : <<Separator(kind, i)>> \in Seq(Texts)
  /\ \A kind : Closing(kind) \in Seq(Texts) /\ Opening(kind) \in Seq(Texts)
<1>1. MarkTexts \subseteq Texts
  BY DEF Texts
<1>2. \A s \in Marks : Punct(s) \in Texts
  BY <1>1 DEF MarkTexts
<1>3. "[" \in Marks /\ "]" \in Marks /\ "{" \in Marks /\ "}" \in Marks /\ "," \in Marks /\ ":" \in Marks
      /\ "newline" \in Marks
  BY DEF Marks
<1>4. Newline \in Texts
  BY <1>2, <1>3 DEF Newline
<1>5. ASSUME NEW kind, NEW i PROVE Separator(kind, i) \in Texts
  BY <1>2, <1>3 DEF Separator
<1>6. ASSUME NEW kind PROVE Closing(kind) \in Seq(Texts) /\ Opening(kind) \in Seq(Texts)
  <2>1. Punct(IF kind = "map" THEN "}" ELSE "]") \in Texts
    BY <1>2, <1>3
  <2>2. Punct(IF kind = "map" THEN "{" ELSE "[") \in Texts
    BY <1>2, <1>3
  <2>3. \A x \in Texts : <<x>> \in Seq(Texts)
    OBVIOUS
  <2> QED BY <2>1, <2>2, <2>3, Zenon DEF Closing, Opening
<1> QED BY <1>4, <1>5, <1>6

LEMMA WrittenTypes ==
  ASSUME NEW v \in Data
  PROVE  Encode(v) \in Seq(Tokens) /\ Json(v) \in Seq(Texts)
<1>1. /\ Len(Encode(v)) \in Nat /\ Encode(v) = [i \in 1 .. Len(Encode(v)) |-> Encode(v)[i]]
      /\ Len(Json(v)) \in Nat /\ Json(v) = [i \in 1 .. Len(Json(v)) |-> Json(v)[i]]
  BY EncodeRule, JsonRule DEF IsSequence
<1>2. \A i \in 1 .. Len(Encode(v)) : Encode(v)[i] \in Range(Encode(v))
  BY <1>1 DEF Range
<1>3. \A i \in 1 .. Len(Json(v)) : Json(v)[i] \in Range(Json(v))
  BY <1>1 DEF Range
<1>4. \A i \in 1 .. Len(Encode(v)) : Encode(v)[i] \in Tokens
  BY <1>2 DEF Tokens
<1>5. \A i \in 1 .. Len(Json(v)) : Json(v)[i] \in Texts
  BY <1>3 DEF Texts
<1>6. Encode(v) \in Seq(Tokens)
  BY <1>1, <1>4, SequenceIs
<1>7. Json(v) \in Seq(Texts)
  BY <1>1, <1>5, SequenceIs
<1> QED BY <1>6, <1>7

LEMMA FlattenHead ==
  ASSUME NEW X, NEW ss \in Seq(Seq(X)), ss # <<>>
  PROVE  FlattenSeq(ss) = Head(ss) \o FlattenSeq(Tail(ss))
<1>1. ss = <<Head(ss)>> \o Tail(ss) /\ Head(ss) \in Seq(X) /\ Tail(ss) \in Seq(Seq(X))
  OBVIOUS
<1> QED BY <1>1, FlattenCons

LEMMA EncodesIs ==
  ASSUME NEW todo \in Seq(Data)
  PROVE  /\ Encodes(todo) \in Seq(Tokens)
         /\ todo = <<>> => Encodes(todo) = <<>>
         /\ todo # <<>> => Encodes(todo) = Encode(Head(todo)) \o Encodes(Tail(todo))
<1> DEFINE m == [i \in DOMAIN todo |-> Encode(todo[i])]
<1>1. m \in Seq(Seq(Tokens))
  <2>1. Len(todo) \in Nat /\ DOMAIN todo = 1 .. Len(todo) /\ \A i \in 1 .. Len(todo) : todo[i] \in Data
    OBVIOUS
  <2>2. ASSUME NEW i \in 1 .. Len(todo) PROVE Encode(todo[i]) \in Seq(Tokens)
    BY <2>1, WrittenTypes, MarkTypes, ConcatProperties
  <2>3. \A i \in 1 .. Len(todo) : m[i] \in Seq(Tokens)
    BY <2>1, <2>2
  <2>4. m = [i \in 1 .. Len(todo) |-> m[i]]
    BY <2>1
  <2> HIDE DEF m
  <2> QED BY <2>1, <2>3, <2>4, SequenceIs
<1>2. Encodes(todo) \in Seq(Tokens)
  <2> HIDE DEF m
  <2>1. FlattenSeq(m) \in Seq(Tokens)
    BY <1>1, Flattened
  <2> QED BY <2>1 DEF Encodes, m
<1>3. CASE todo = <<>>
  <2>1. m = <<>>
    BY <1>3
  <2> QED BY <1>2, <1>3, <2>1, FlattenNone DEF Encodes
<1>4. CASE todo # <<>>
  <2>1. m # <<>> /\ Head(m) = Encode(Head(todo)) /\ Tail(m) = [i \in DOMAIN Tail(todo) |-> Encode(Tail(todo)[i])]
    BY <1>4
  <2>2. FlattenSeq(m) = Head(m) \o FlattenSeq(Tail(m))
    <3> HIDE DEF m
    <3> QED BY <1>1, <2>1, FlattenHead
  <2> QED BY <1>2, <1>4, <2>1, <2>2 DEF Encodes
<1> QED BY <1>3, <1>4

LEMMA LinesIs ==
  ASSUME NEW todo \in Seq(Data)
  PROVE  /\ Lines(todo) \in Seq(Texts)
         /\ todo = <<>> => Lines(todo) = <<>>
         /\ todo # <<>> => Lines(todo) = (Json(Head(todo)) \o <<Newline>>) \o Lines(Tail(todo))
<1> DEFINE m == [i \in DOMAIN todo |-> Json(todo[i]) \o <<Newline>>]
<1>1. m \in Seq(Seq(Texts))
  <2>1. Len(todo) \in Nat /\ DOMAIN todo = 1 .. Len(todo) /\ \A i \in 1 .. Len(todo) : todo[i] \in Data
    OBVIOUS
  <2>2. ASSUME NEW i \in 1 .. Len(todo) PROVE Json(todo[i]) \o <<Newline>> \in Seq(Texts)
    BY <2>1, WrittenTypes, MarkTypes, ConcatProperties
  <2>3. \A i \in 1 .. Len(todo) : m[i] \in Seq(Texts)
    BY <2>1, <2>2
  <2>4. m = [i \in 1 .. Len(todo) |-> m[i]]
    BY <2>1
  <2> HIDE DEF m
  <2> QED BY <2>1, <2>3, <2>4, SequenceIs
<1>2. Lines(todo) \in Seq(Texts)
  <2> HIDE DEF m
  <2>1. FlattenSeq(m) \in Seq(Texts)
    BY <1>1, Flattened
  <2> QED BY <2>1 DEF Lines, m, Newline
<1>3. CASE todo = <<>>
  <2>1. m = <<>>
    BY <1>3
  <2> QED BY <1>2, <1>3, <2>1, FlattenNone DEF Lines, Newline
<1>4. CASE todo # <<>>
  <2>1. /\ m # <<>> /\ Head(m) = Json(Head(todo)) \o <<Newline>>
        /\ Tail(m) = [i \in DOMAIN Tail(todo) |-> Json(Tail(todo)[i]) \o <<Newline>>]
    BY <1>4
  <2>2. FlattenSeq(m) = Head(m) \o FlattenSeq(Tail(m))
    <3> HIDE DEF m
    <3> QED BY <1>1, <2>1, FlattenHead
  <2> QED BY <1>2, <1>4, <2>1, <2>2 DEF Lines, Newline
<1> QED BY <1>3, <1>4

LEMMA RestIs ==
  ASSUME NEW kind, NEW p \in Nat, NEW todo \in Seq(Data)
  PROVE  /\ Rest(kind, p, todo) \in Seq(Texts)
         /\ todo = <<>> => Rest(kind, p, todo) = <<>>
         /\ todo # <<>> => Rest(kind, p, todo) =
              (<<Separator(kind, p + 1)>> \o Json(Head(todo))) \o Rest(kind, p + 1, Tail(todo))
<1> DEFINE m == [i \in DOMAIN todo |-> <<Separator(kind, p + i)>> \o Json(todo[i])]
<1>1. m \in Seq(Seq(Texts))
  <2>1. Len(todo) \in Nat /\ DOMAIN todo = 1 .. Len(todo) /\ \A i \in 1 .. Len(todo) : todo[i] \in Data
    OBVIOUS
  <2>2. ASSUME NEW i \in 1 .. Len(todo) PROVE <<Separator(kind, p + i)>> \o Json(todo[i]) \in Seq(Texts)
    BY <2>1, WrittenTypes, MarkTypes, ConcatProperties
  <2>3. \A i \in 1 .. Len(todo) : m[i] \in Seq(Texts)
    BY <2>1, <2>2
  <2>4. m = [i \in 1 .. Len(todo) |-> m[i]]
    BY <2>1
  <2> HIDE DEF m
  <2> QED BY <2>1, <2>3, <2>4, SequenceIs
<1>2. Rest(kind, p, todo) \in Seq(Texts)
  <2> HIDE DEF m
  <2>1. FlattenSeq(m) \in Seq(Texts)
    BY <1>1, Flattened
  <2> QED BY <2>1 DEF Rest, m
<1>3. CASE todo = <<>>
  <2>1. m = <<>>
    BY <1>3
  <2> QED BY <1>2, <1>3, <2>1, FlattenNone DEF Rest
<1>4. CASE todo # <<>>
  <2>1. m # <<>> /\ Head(m) = <<Separator(kind, p + 1)>> \o Json(Head(todo))
    BY <1>4
  <2>2. Tail(m) = [i \in DOMAIN Tail(todo) |-> <<Separator(kind, (p + 1) + i)>> \o Json(Tail(todo)[i])]
    <3>1. /\ Tail(m) = [i \in 1 .. Len(todo) - 1 |-> m[i + 1]] /\ DOMAIN Tail(todo) = 1 .. Len(todo) - 1
          /\ \A i \in 1 .. Len(todo) - 1 : Tail(todo)[i] = todo[i + 1] /\ i + 1 \in DOMAIN todo
                                           /\ p + (i + 1) = (p + 1) + i
      BY <1>4
    <3> QED BY <3>1
  <2>3. FlattenSeq(m) = Head(m) \o FlattenSeq(Tail(m))
    <3> HIDE DEF m
    <3> QED BY <1>1, <2>1, FlattenHead
  <2> QED BY <1>2, <1>4, <2>1, <2>2, <2>3 DEF Rest
<1> QED BY <1>3, <1>4

LEMMA EncodeIs ==
  ASSUME NEW v \in Data
  PROVE  /\ v.kind = "lit" => Encode(v) = <<Token("lit", 0, v.lit)>>
         /\ v.kind = "ext" => Encode(v) = <<Token("ext", v.items[1].lit, v.items[2].lit)>>
         /\ v.kind = "arr" => Encode(v) = <<Token("arr", Len(v.items), Absent)>> \o Encodes(v.items)
         /\ v.kind = "map" => Encode(v) = <<Token("map", Len(v.items) \div 2, Absent)>> \o Encodes(v.items)
<1> DEFINE inner == [i \in DOMAIN v.items |-> Encode(v.items[i])]
<1>1. v.items \in Seq(Data)
  BY DataNested
<1>2. Len(inner) = Len(v.items) /\ FlattenSeq(inner) = Encodes(v.items)
  BY <1>1 DEF Encodes
<1>3. Encode(v) = Encoding(v, inner)
  BY EncodeRule
<1> HIDE DEF inner
<1> QED BY <1>2, <1>3 DEF Encoding

(* The text of anything that has items. *)
LEMMA ContainerIs ==
  ASSUME NEW v \in Data, v.kind # "lit"
  PROVE  Json(v) = (Opening(v.kind) \o (IF v.items = <<>> THEN <<>>
                                        ELSE Json(Head(v.items)) \o Rest(v.kind, 1, Tail(v.items))))
                     \o Closing(v.kind)
<1> DEFINE todo  == v.items
           inner == [i \in DOMAIN todo |-> Json(todo[i])]
           m == [i \in DOMAIN inner |-> (IF i = 1 THEN <<>> ELSE <<Separator(v.kind, i)>>) \o inner[i]]
<1>1. todo \in Seq(Data)
  BY DataNested
<1>2. Json(v) = Spelling(v, inner)
  BY JsonRule
<1>3. Json(v) = (Opening(v.kind) \o FlattenSeq(m)) \o Closing(v.kind)
  <2> HIDE DEF inner
  <2> QED BY <1>2 DEF Spelling, Opening, Closing
<1>4. CASE todo = <<>>
  <2>1. m = <<>>
    BY <1>4
  <2> HIDE DEF m
  <2> QED BY <1>3, <1>4, <2>1, FlattenNone
<1>5. CASE todo # <<>>
  <2>1. Len(todo) \in Nat \ {0} /\ DOMAIN inner = 1 .. Len(todo) /\ DOMAIN todo = 1 .. Len(todo)
        /\ \A i \in 1 .. Len(todo) : inner[i] = Json(todo[i]) /\ todo[i] \in Data
    BY <1>1, <1>5
  <2>2. \A i \in 1 .. Len(todo) :
          m[i] = IF i = 1 THEN Json(todo[i]) ELSE <<Separator(v.kind, i)>> \o Json(todo[i])
    <3> SUFFICES ASSUME NEW i \in 1 .. Len(todo)
                 PROVE  m[i] = IF i = 1 THEN Json(todo[i]) ELSE <<Separator(v.kind, i)>> \o Json(todo[i])
      OBVIOUS
    <3>1. Json(todo[i]) \in Seq(Texts)
      BY <2>1, WrittenTypes
    <3>2. <<>> \o Json(todo[i]) = Json(todo[i])
      BY <3>1
    <3>3. m[i] = (IF i = 1 THEN <<>> ELSE <<Separator(v.kind, i)>>) \o Json(todo[i])
      BY <2>1
    <3> HIDE DEF m, todo
    <3> QED BY <3>2, <3>3
  <2>3. \A i \in 1 .. Len(todo) : m[i] \in Seq(Texts)
    BY <2>1, <2>2, WrittenTypes, MarkTypes, ConcatProperties, ZenonT(30)
  <2>4. m = [i \in 1 .. Len(todo) |-> m[i]]
    BY <2>1
  <2>5. m \in Seq(Seq(Texts)) /\ m # <<>>
    <3> HIDE DEF m, todo
    <3>1. m \in Seq(Seq(Texts))
      BY <2>1, <2>3, <2>4, SequenceIs
    <3> QED BY <2>1, <2>4, <3>1
  <2>6. Head(m) = Json(Head(todo))
    BY <1>5, <2>1, <2>2, <2>4
  <2>7. Tail(m) = [i \in DOMAIN Tail(todo) |-> <<Separator(v.kind, 1 + i)>> \o Json(Tail(todo)[i])]
    <3>0. Tail(m) = [i \in 1 .. Len(todo) - 1 |-> m[i + 1]]
      <4> HIDE DEF m, todo
      <4> QED BY <2>1, <2>4, <2>5
    <3>1. /\ DOMAIN Tail(todo) = 1 .. Len(todo) - 1
          /\ \A i \in 1 .. Len(todo) - 1 : Tail(todo)[i] = todo[i + 1] /\ i + 1 \in 1 .. Len(todo)
                                           /\ i + 1 = 1 + i /\ i + 1 # 1
      BY <1>1, <1>5, <2>1
    <3>2. \A i \in 1 .. Len(todo) - 1 : m[i + 1] = <<Separator(v.kind, 1 + i)>> \o Json(Tail(todo)[i])
      BY <2>2, <3>1
    <3> HIDE DEF m, todo
    <3> QED BY <3>0, <3>1, <3>2
  <2> HIDE DEF m
  <2>8. FlattenSeq(m) = Head(m) \o FlattenSeq(Tail(m))
    BY <2>5, FlattenHead
  <2>9. FlattenSeq(Tail(m)) = Rest(v.kind, 1, Tail(todo))
    BY <2>7 DEF Rest
  <2> QED BY <1>3, <1>5, <2>6, <2>8, <2>9
<1> QED BY <1>4, <1>5

LEMMA ConsIs ==
  ASSUME NEW S, NEW x \in S, NEW y \in Seq(S)
  PROVE  /\ <<x>> \o y \in Seq(S) /\ Len(<<x>> \o y) = Len(y) + 1
         /\ (<<x>> \o y)[1] = x /\ \A i \in 1 .. Len(y) : (<<x>> \o y)[i + 1] = y[i]
OBVIOUS

LEMMA SnocIs ==
  ASSUME NEW S, NEW x \in S, NEW y \in Seq(S)
  PROVE  /\ y \o <<x>> \in Seq(S) /\ Len(y \o <<x>>) = Len(y) + 1
         /\ (y \o <<x>>)[Len(y) + 1] = x /\ \A i \in 1 .. Len(y) : (y \o <<x>>)[i] = y[i]
OBVIOUS

LEMMA FiveJoined ==
  ASSUME NEW a, NEW b, NEW c, NEW d, NEW e
  PROVE  (<<a>> \o (<<b>> \o ((<<c>> \o <<d>>) \o <<>>))) \o <<e>> = <<a, b, c, d, e>>
<1> DEFINE S == {a, b, c, d, e}  p == <<c>> \o <<d>>  q == <<b>> \o p  r == <<a>> \o q  s == r \o <<e>>
           t == <<a, b, c, d, e>>
<1>1. a \in S /\ b \in S /\ c \in S /\ d \in S /\ e \in S /\ <<d>> \in Seq(S) /\ Len(<<d>>) = 1 /\ <<d>>[1] = d
  OBVIOUS
<1>2. t \in Seq(S) /\ Len(t) = 5 /\ t[1] = a /\ t[2] = b /\ t[3] = c /\ t[4] = d /\ t[5] = e
  OBVIOUS
<1> HIDE DEF S, t
<1>3. p \in Seq(S) /\ Len(p) = 2 /\ p[1] = c /\ p[2] = d
  <2>1. 1 \in 1 .. 1 /\ 1 + 1 = 2
    OBVIOUS
  <2> QED BY <1>1, <2>1, ConsIs
<1> HIDE DEF p
<1>4. q \in Seq(S) /\ Len(q) = 3 /\ q[1] = b /\ q[2] = c /\ q[3] = d
  <2>1. q \in Seq(S) /\ Len(q) = Len(p) + 1 /\ q[1] = b /\ \A i \in 1 .. Len(p) : q[i + 1] = p[i]
    <3>1. b \in S /\ p \in Seq(S)
      BY <1>1, <1>3
    <3> QED BY <3>1, ConsIs
  <2>2. q[1 + 1] = c /\ q[2 + 1] = d
    BY <1>3, <2>1
  <2> HIDE DEF q
  <2> QED BY <1>3, <2>1, <2>2
<1> HIDE DEF q
<1>5. r \in Seq(S) /\ Len(r) = 4 /\ r[1] = a /\ r[2] = b /\ r[3] = c /\ r[4] = d
  <2>1. r \in Seq(S) /\ Len(r) = Len(q) + 1 /\ r[1] = a /\ \A i \in 1 .. Len(q) : r[i + 1] = q[i]
    <3>1. a \in S /\ q \in Seq(S)
      BY <1>1, <1>4
    <3> QED BY <3>1, ConsIs
  <2> HIDE DEF r
  <2>2. r[1 + 1] = b /\ r[2 + 1] = c /\ r[3 + 1] = d
    BY <1>4, <2>1
  <2> QED BY <1>4, <2>1, <2>2
<1> HIDE DEF r
<1>6. s \in Seq(S) /\ Len(s) = 5 /\ s[1] = a /\ s[2] = b /\ s[3] = c /\ s[4] = d /\ s[5] = e
  <2>1. s \in Seq(S) /\ Len(s) = Len(r) + 1 /\ s[Len(r) + 1] = e /\ \A i \in 1 .. Len(r) : s[i] = r[i]
    <3>1. e \in S /\ r \in Seq(S)
      BY <1>1, <1>5
    <3> QED BY <3>1, SnocIs
  <2> HIDE DEF s
  <2>2. s[1] = a /\ s[2] = b /\ s[3] = c /\ s[4] = d
    BY <1>5, <2>1
  <2> QED BY <1>5, <2>1, <2>2
<1> HIDE DEF s
<1>7. \A i \in 1 .. 5 : i = 1 \/ i = 2 \/ i = 3 \/ i = 4 \/ i = 5
  OBVIOUS
<1>8. \A i \in 1 .. 5 : s[i] = t[i]
  BY <1>2, <1>6, <1>7
<1>9. s = t
  BY <1>2, <1>6, <1>8, SeqEqual
<1>10. p \o <<>> = p
  BY <1>3, ConcatEmptySeq
<1> QED BY <1>9, <1>10 DEF s, t, r, q, p

LEMMA JsonIs ==
  ASSUME NEW v \in Data
  PROVE  /\ v.kind = "lit" => Json(v) = <<Text(v.lit)>>
         /\ v.kind = "ext" => Json(v) = <<Punct("["), Text(v.items[1].lit), Punct(","), Text(v.items[2].lit), Punct("]")>>
<1>1. ASSUME NEW w \in Data, w.kind = "lit" PROVE Json(w) = <<Text(w.lit)>>
  BY <1>1, JsonRule DEF Spelling
<1>2. ASSUME v.kind = "ext"
      PROVE  Json(v) = <<Punct("["), Text(v.items[1].lit), Punct(","), Text(v.items[2].lit), Punct("]")>>
  <2> DEFINE c == v.items[1].lit  x == v.items[2].lit
  <2>0. v = Ext(c, x) /\ v.items \in Seq(Data)
    BY <1>2, DataNested
  <2>1. v.items = <<Scalar(c), Scalar(x)>> /\ v.items \in Seq(Data)
    <3> HIDE DEF c, x
    <3> QED BY <2>0 DEF Ext, Value
  <2> HIDE DEF c, x
  <2>2. Scalar(c) \in Data /\ Scalar(x) \in Data
    BY <2>1
  <2>3. Scalar(c).kind = "lit" /\ Scalar(c).lit = c /\ Scalar(x).kind = "lit" /\ Scalar(x).lit = x
    BY DEF Scalar, Value
  <2>4. Json(Scalar(c)) = <<Text(c)>> /\ Json(Scalar(x)) = <<Text(x)>>
    BY <1>1, <2>2, <2>3
  <2>5. Head(v.items) = Scalar(c) /\ Tail(v.items) = <<Scalar(x)>> /\ v.items # <<>> /\ <<Scalar(x)>> \in Seq(Data)
        /\ <<Scalar(x)>> # <<>> /\ Head(<<Scalar(x)>>) = Scalar(x) /\ Tail(<<Scalar(x)>>) = <<>>
    BY <2>1, <2>2
  <2>6. <<>> \in Seq(Data) /\ 1 \in Nat /\ 1 + 1 \in Nat
    OBVIOUS
  <2>7. Rest("ext", 1 + 1, <<>>) = <<>>
    BY <2>6, RestIs
  <2>8. Rest("ext", 1, <<Scalar(x)>>) = (<<Separator("ext", 1 + 1)>> \o <<Text(x)>>) \o <<>>
    <3>1. Rest("ext", 1, <<Scalar(x)>>) = (<<Separator("ext", 1 + 1)>> \o Json(Head(<<Scalar(x)>>)))
                                            \o Rest("ext", 1 + 1, Tail(<<Scalar(x)>>))
      BY <2>5, <2>6, RestIs
    <3> QED BY <2>4, <2>5, <2>7, <3>1
  <2>9. Separator("ext", 1 + 1) = Punct(",") /\ Opening("ext") = <<Punct("[")>> /\ Closing("ext") = <<Punct("]")>>
    BY DEF Separator, Opening, Closing
  <2>10. Json(v) = (<<Punct("[")>> \o (<<Text(c)>> \o ((<<Punct(",")>> \o <<Text(x)>>) \o <<>>))) \o <<Punct("]")>>
    BY <1>2, <2>4, <2>5, <2>8, <2>9, ContainerIs
  <2>11. Json(v) = <<Punct("["), Text(c), Punct(","), Text(x), Punct("]")>>
    <3> DEFINE b1 == Punct("[")  b2 == Text(c)  b3 == Punct(",")  b4 == Text(x)  b5 == Punct("]")
    <3>1. Json(v) = (<<b1>> \o (<<b2>> \o ((<<b3>> \o <<b4>>) \o <<>>))) \o <<b5>>
      BY <2>10
    <3> HIDE DEF b1, b2, b3, b4, b5
    <3>2. (<<b1>> \o (<<b2>> \o ((<<b3>> \o <<b4>>) \o <<>>))) \o <<b5>> = <<b1, b2, b3, b4, b5>>
      BY ZenonT(30), FiveJoined
    <3> QED BY <3>1, <3>2 DEF b1, b2, b3, b4, b5
  <2> QED BY <2>11 DEF c, x
<1> QED BY <1>1, <1>2

-----------------------------------------------------------------------------
(* What is still to be done, as a sequence of frames: for each call that has *)
(* not returned, the items that it has not come to, and what is to be read   *)
(* and to be written when it has.  The concatenations are regrouped under a  *)
(* name of their own, of which the provers need to know no more than this.   *)

Cat(x, y) == x \o y

LEMMA CatIs ==
  ASSUME NEW S, NEW x \in Seq(S), NEW y \in Seq(S), NEW z \in Seq(S)
  PROVE  /\ Cat(x, y) \in Seq(S) /\ Cat(Cat(x, y), z) = Cat(x, Cat(y, z))
BY ConcatProperties, ConcatAssociative DEF Cat

LEMMA CatNone ==
  ASSUME NEW S, NEW x \in Seq(S)
  PROVE  Cat(x, <<>>) = x /\ Cat(<<>>, x) = x
BY ConcatEmptySeq DEF Cat

LEMMA TodoIs ==
  ASSUME NEW todo \in Seq(Data), NEW kind, NEW p \in Nat
  PROVE  /\ Encodes(todo) \in Seq(Tokens) /\ Lines(todo) \in Seq(Texts) /\ Rest(kind, p, todo) \in Seq(Texts)
         /\ todo = <<>> => Encodes(todo) = <<>> /\ Lines(todo) = <<>> /\ Rest(kind, p, todo) = <<>>
         /\ todo # <<>> =>
              /\ Head(todo) \in Data /\ Tail(todo) \in Seq(Data)
              /\ Encodes(todo) = Cat(Encode(Head(todo)), Encodes(Tail(todo)))
              /\ Lines(todo) = Cat(Cat(Json(Head(todo)), <<Newline>>), Lines(Tail(todo)))
              /\ Rest(kind, p, todo) =
                   Cat(Cat(<<Separator(kind, p + 1)>>, Json(Head(todo))), Rest(kind, p + 1, Tail(todo)))
<1>1. todo # <<>> => Head(todo) \in Data /\ Tail(todo) \in Seq(Data)
  OBVIOUS
<1> QED BY <1>1, EncodesIs, LinesIs, RestIs DEF Cat

Frames == [kind : {"top", "arr", "map"}, pos : Nat, todo : Seq(Data), in : Seq(Tokens), out : Seq(Texts)]
Frame(k, p, t, i, o) == [kind |-> k, pos |-> p, todo |-> t, in |-> i, out |-> o]
Calls  == [kind : {"arr", "map"}, left : Nat, key : BOOLEAN]

(* To be read, and to be written, after the present value. *)
InAfter(f)   == Cat(Encodes(f.todo), f.in)
TextAfter(f) == IF f.kind = "top" THEN Cat(<<Newline>>, Lines(f.todo))
                ELSE Cat(Rest(f.kind, f.pos, f.todo), Cat(Closing(f.kind), f.out))

(* The call's own count of the items. *)
Counts(f, s) ==
  /\ s.kind = f.kind
  /\ \/ f.todo = <<>> /\ s.left = 0 /\ s.key
     \/ f.kind = "arr" /\ s.left = Len(f.todo) + 1
     \/ f.kind = "map" /\ s.key = (f.pos % 2 = 1) /\ 2 * s.left = Len(f.todo) + (IF s.key THEN 1 ELSE 2)

Chain(F, calls) ==
  /\ F \in Seq(Frames) /\ Len(F) = Len(calls) + 1
  /\ F[1].kind = "top" /\ F[1].in = <<>>
  /\ \A j \in 1 .. Len(calls) :
       /\ F[j + 1].in = InAfter(F[j]) /\ F[j + 1].out = TextAfter(F[j])
       /\ Counts(F[j + 1], calls[j])

(* What was written, with the JSON of the odd scalars in their places.       *)
InGo(t)  == IF t \in {Text(x) : x \in Odd} THEN Quoted(t[2]) ELSE t
Plain(t) == IF t[1] = "quoted" THEN Text(t[2]) ELSE t
plain    == [i \in DOMAIN out |-> Plain(out[i])]
OInv     == result # "none" => out = AsPrinted(plain)

(* Before and after a value is read, f being the innermost frame. *)
Reads(f)  == \E v \in Data : input = Cat(Encode(v), InAfter(f)) /\ Cat(plain, Cat(Json(v), TextAfter(f))) = Lines(given)
Wrote(f)  == input = InAfter(f) /\ Cat(plain, TextAfter(f)) = Lines(given)

Converting == \E F : Chain(F, stack) /\ IF want THEN Reads(F[Len(F)]) ELSE Wrote(F[Len(F)])
Converted  == want /\ stack = <<>> /\ input = <<>> /\ plain = Lines(given)

VInv ==
  result # "none" =>
    /\ given \in Seq(Data) /\ plain \in Seq(Texts) /\ stack \in Seq(Calls) /\ want \in BOOLEAN
    /\ \/ Converted /\ result \in {"run", "ok"}
       \/ Converting /\ result = "run"

(* What the converter adds.                                                  *)
LEMMA Adds ==
  ASSUME NEW S, NEW ts \in Seq(S), plain \in Seq(Texts), out = AsPrinted(plain), out' = out \o AsPrinted(ts),
         \A i \in 1 .. Len(ts) : Plain(InGo(ts[i])) = ts[i]
  PROVE  plain' = plain \o ts /\ out' = AsPrinted(plain')
<1> DEFINE p == plain  o == out  n == Len(p)  m == Len(ts)  a == AsPrinted(ts)
           U == {InGo(t) : t \in Texts \union S}  all == p \o ts
<1>1. n \in Nat /\ m \in Nat /\ DOMAIN p = 1 .. n /\ DOMAIN ts = 1 .. m
  OBVIOUS
<1>2. o = [i \in 1 .. n |-> InGo(p[i])] /\ a = [i \in 1 .. m |-> InGo(ts[i])]
  BY <1>1 DEF AsPrinted, InGo
<1>3. (\A i \in 1 .. n : p[i] \in Texts) /\ (\A i \in 1 .. m : ts[i] \in S)
  BY <1>1
<1>4. all \in Seq(Texts \union S) /\ Len(all) = n + m
      /\ \A i \in 1 .. n + m : all[i] = IF i <= n THEN p[i] ELSE ts[i - n]
  <2>1. p \in Seq(Texts \union S) /\ ts \in Seq(Texts \union S)
    OBVIOUS
  <2> HIDE DEF p
  <2> QED BY <2>1, ConcatProperties
<1>5. o' = o \o a /\ p = [i \in 1 .. n |-> Plain(o[i])] /\ p' = [i \in DOMAIN o' |-> Plain(o'[i])]
  <2>1. DOMAIN o = 1 .. n
    BY <1>2
  <2>2. plain = [i \in DOMAIN out |-> Plain(out[i])] /\ plain' = [i \in DOMAIN out' |-> Plain(out'[i])]
    BY DEF plain
  <2> QED BY <2>1, <2>2
<1> HIDE DEF p, a, n, m, U, all
<1>6. o \in Seq(U) /\ a \in Seq(U) /\ Len(o) = n /\ Len(a) = m
  <2>1. (\A i \in 1 .. n : InGo(p[i]) \in U) /\ (\A i \in 1 .. m : InGo(ts[i]) \in U)
    BY <1>3 DEF U
  <2> HIDE DEF o
  <2> QED BY <1>1, <1>2, <2>1
<1>7. o' \in Seq(U) /\ Len(o') = n + m /\ \A i \in 1 .. n + m : o'[i] = IF i <= n THEN o[i] ELSE a[i - n]
  <2> DEFINE oa == o \o a
  <2>1. oa \in Seq(U) /\ Len(oa) = n + m /\ \A i \in 1 .. n + m : oa[i] = IF i <= n THEN o[i] ELSE a[i - n]
    <3> HIDE DEF o
    <3> QED BY <1>6, ConcatProperties
  <2> QED BY <1>5, <2>1
<1>8. \A i \in 1 .. n + m : o'[i] = InGo(all[i]) /\ Plain(o'[i]) = all[i]
  <2> SUFFICES ASSUME NEW i \in 1 .. n + m PROVE o'[i] = InGo(all[i]) /\ Plain(o'[i]) = all[i]
    OBVIOUS
  <2>1. CASE i <= n
    <3>1. i \in 1 .. n
      BY <1>1, <2>1
    <3>2. o'[i] = o[i] /\ all[i] = p[i] /\ o[i] = InGo(p[i]) /\ p[i] = Plain(o[i])
      BY <1>2, <1>4, <1>5, <1>7, <2>1, <3>1
    <3> QED BY <3>2
  <2>2. CASE ~(i <= n)
    <3>1. i - n \in 1 .. m
      BY <1>1, <2>2
    <3>2. o'[i] = a[i - n] /\ all[i] = ts[i - n] /\ a[i - n] = InGo(ts[i - n])
      BY <1>2, <1>4, <1>7, <2>2, <3>1
    <3>3. Plain(InGo(ts[i - n])) = ts[i - n]
      BY <3>1 DEF m
    <3> QED BY <3>2, <3>3
  <2> QED BY <2>1, <2>2
<1>9. DOMAIN o' = 1 .. n + m /\ DOMAIN all = 1 .. n + m /\ all = [i \in 1 .. n + m |-> all[i]]
      /\ o' = [i \in 1 .. n + m |-> o'[i]]
  <2> DEFINE w == o'
  <2>1. w \in Seq(U) /\ Len(w) = n + m
    BY <1>7
  <2> HIDE DEF w
  <2>2. DOMAIN w = 1 .. n + m /\ w = [i \in 1 .. n + m |-> w[i]]
    BY <2>1
  <2> QED BY <1>4, <2>2 DEF w
<1>10. p' = all
  BY <1>5, <1>8, <1>9
<1>11. o' = AsPrinted(all)
  <2>1. AsPrinted(all) = [i \in 1 .. n + m |-> InGo(all[i])]
    BY <1>9 DEF AsPrinted, InGo
  <2> QED BY <1>8, <1>9, <2>1
<1> QED BY <1>10, <1>11 DEF p, all

LEMMA AddsMark ==
  ASSUME VInv, OInv, result = "run", NEW k, out' = out \o <<Punct(k)>>
  PROVE  plain' = plain \o <<Punct(k)>> /\ out' = AsPrinted(plain')
<1> DEFINE t == Punct(k)  ts == <<t>>
<1>1. t \notin {Text(x) : x \in Odd} /\ t[1] # "quoted"
  BY DEF Punct, Text
<1> HIDE DEF t
<1>2. InGo(t) = t /\ Plain(t) = t
  BY <1>1 DEF InGo, Plain
<1>3. ts \in Seq({t}) /\ Len(ts) = 1 /\ ts[1] = t /\ DOMAIN ts = 1 .. 1
  OBVIOUS
<1>4. AsPrinted(ts) = ts
  <2>1. AsPrinted(ts) = [i \in 1 .. 1 |-> InGo(ts[i])]
    BY <1>3 DEF AsPrinted, InGo
  <2>2. \A i \in 1 .. 1 : i = 1
    OBVIOUS
  <2>3. ts = [i \in 1 .. 1 |-> ts[i]]
    BY <1>3
  <2> QED BY <1>2, <1>3, <2>1, <2>2, <2>3
<1>5. \A i \in 1 .. Len(ts) : Plain(InGo(ts[i])) = ts[i]
  BY <1>2, <1>3
<1>6. plain \in Seq(Texts) /\ out = AsPrinted(plain) /\ out' = out \o ts
  BY DEF VInv, OInv, t
<1> HIDE DEF ts
<1>7. plain' = plain \o ts /\ out' = AsPrinted(plain')
  BY <1>3, <1>4, <1>5, <1>6, Adds
<1> QED BY <1>7 DEF ts, t

(* How one text is printed. *)
LEMMA PrintedIs ==
  /\ \A k : InGo(Punct(k)) = Punct(k) /\ Plain(Punct(k)) = Punct(k)
  /\ \A x : InGo(Text(x)) = Printed(x) /\ Plain(Printed(x)) = Text(x)
<1>1. ASSUME NEW k PROVE InGo(Punct(k)) = Punct(k) /\ Plain(Punct(k)) = Punct(k)
  <2>1. Punct(k) \notin {Text(x) : x \in Odd} /\ Punct(k)[1] # "quoted"
    BY DEF Punct, Text
  <2> QED BY <2>1 DEF InGo, Plain
<1>2. ASSUME NEW x PROVE InGo(Text(x)) = Printed(x) /\ Plain(Printed(x)) = Text(x)
  <2>1. Text(x) \in {Text(y) : y \in Odd} <=> x \in Odd
    BY DEF Text
  <2>2. Text(x)[2] = x /\ Text(x)[1] = "text" /\ Quoted(x)[1] = "quoted" /\ Quoted(x)[2] = x
    BY DEF Text, Quoted
  <2>3. InGo(Text(x)) = Printed(x)
    BY <2>1, <2>2 DEF InGo, Printed
  <2>4. Plain(Printed(x)) = Text(x)
    BY <2>2 DEF Plain, Printed
  <2> QED BY <2>3, <2>4
<1> QED BY <1>1, <1>2

LEMMA AddsScalar ==
  ASSUME VInv, OInv, result = "run", NEW x, out' = out \o <<Printed(x)>>
  PROVE  plain' = plain \o <<Text(x)>> /\ out' = AsPrinted(plain')
<1> DEFINE t == Text(x)  ts == <<t>>
<1>1. InGo(t) = Printed(x) /\ Plain(InGo(t)) = t
  BY PrintedIs
<1> HIDE DEF t
<1>2. ts \in Seq({t}) /\ Len(ts) = 1 /\ ts[1] = t /\ DOMAIN ts = 1 .. 1
  OBVIOUS
<1>3. AsPrinted(ts) = <<Printed(x)>>
  <2>1. AsPrinted(ts) = [i \in 1 .. 1 |-> InGo(ts[i])]
    BY <1>2 DEF AsPrinted, InGo
  <2>2. \A i \in 1 .. 1 : i = 1
    OBVIOUS
  <2>3. <<Printed(x)>> = [i \in 1 .. 1 |-> <<Printed(x)>>[i]] /\ <<Printed(x)>>[1] = Printed(x)
    OBVIOUS
  <2> QED BY <1>1, <1>2, <2>1, <2>2, <2>3
<1>4. \A i \in 1 .. Len(ts) : Plain(InGo(ts[i])) = ts[i]
  BY <1>1, <1>2
<1>5. plain \in Seq(Texts) /\ out = AsPrinted(plain) /\ out' = out \o <<Printed(x)>>
  BY DEF VInv, OInv
<1> HIDE DEF ts
<1>6. plain' = plain \o ts /\ out' = AsPrinted(plain')
  BY <1>2, <1>3, <1>4, <1>5, Adds
<1> QED BY <1>6 DEF ts, t

LEMMA Five ==
  ASSUME NEW S, NEW a \in S, NEW b \in S, NEW c \in S, NEW d \in S, NEW e \in S
  PROVE  <<a, b, c, d, e>> \in Seq(S) /\ Len(<<a, b, c, d, e>>) = 5 /\ DOMAIN <<a, b, c, d, e>> = 1 .. 5
OBVIOUS

LEMMA SeqOfFive ==
  ASSUME NEW S, NEW q \in Seq(S), Len(q) = 5
  PROVE  q = [i \in 1 .. 5 |-> q[i]] /\ \A i \in 1 .. 5 : q[i] \in S
<1>1. q \in [1 .. 5 -> S]
  BY LenProperties
<1> QED BY <1>1

LEMMA AddsFive ==
  ASSUME plain \in Seq(Texts), out = AsPrinted(plain),
         NEW S, NEW a \in S, NEW b \in S, NEW c \in S, NEW d \in S, NEW e \in S,
         \A t \in S : InGo(t) = t /\ Plain(t) = t,
         out' = out \o <<a, b, c, d, e>>
  PROVE  plain' = plain \o <<a, b, c, d, e>> /\ out' = AsPrinted(plain')
<1> DEFINE ts == <<a, b, c, d, e>>
<1>1. ts \in Seq(S) /\ Len(ts) = 5 /\ DOMAIN ts = 1 .. 5
  BY Five
<1>2. out' = out \o ts
  OBVIOUS
<1> HIDE DEF ts
<1>3. ts = [i \in 1 .. 5 |-> ts[i]] /\ \A i \in 1 .. 5 : ts[i] \in S
  BY <1>1, SeqOfFive
<1>4. \A i \in 1 .. 5 : InGo(ts[i]) = ts[i] /\ Plain(ts[i]) = ts[i]
  BY <1>3
<1>5. AsPrinted(ts) = ts
  <2>1. AsPrinted(ts) = [i \in 1 .. 5 |-> InGo(ts[i])]
    BY <1>1 DEF AsPrinted, InGo
  <2> QED BY <1>3, <1>4, <2>1
<1>6. \A i \in 1 .. Len(ts) : Plain(InGo(ts[i])) = ts[i]
  BY <1>1, <1>4
<1>7. plain' = plain \o ts /\ out' = AsPrinted(plain')
  BY <1>1, <1>2, <1>5, <1>6, Adds
<1> QED BY <1>7 DEF ts

LEMMA AddsExt ==
  ASSUME VInv, OInv, result = "run", NEW c, NEW x, c \notin Odd, x \notin Odd,
         out' = out \o <<Punct("["), Text(c), Punct(","), Text(x), Punct("]")>>
  PROVE  plain' = plain \o <<Punct("["), Text(c), Punct(","), Text(x), Punct("]")>> /\ out' = AsPrinted(plain')
<1> DEFINE t1 == Punct("[")  t2 == Text(c)  t3 == Punct(",")  t4 == Text(x)  t5 == Punct("]")
           S == {t1, t2, t3, t4, t5}
<1>1. \A t \in S : InGo(t) = t /\ Plain(t) = t
  <2>1. Printed(c) = Text(c) /\ Printed(x) = Text(x)
    BY DEF Printed
  <2>2. InGo(Text(c)) = Text(c) /\ Plain(Text(c)) = Text(c) /\ InGo(Text(x)) = Text(x) /\ Plain(Text(x)) = Text(x)
    BY <2>1, PrintedIs
  <2>3. \A k : InGo(Punct(k)) = Punct(k) /\ Plain(Punct(k)) = Punct(k)
    BY PrintedIs
  <2> QED BY <2>2, <2>3
<1>2. plain \in Seq(Texts) /\ out = AsPrinted(plain) /\ out' = out \o <<t1, t2, t3, t4, t5>>
  BY DEF VInv, OInv
<1> HIDE DEF t1, t2, t3, t4, t5
<1>3. t1 \in S /\ t2 \in S /\ t3 \in S /\ t4 \in S /\ t5 \in S
  OBVIOUS
<1> HIDE DEF S
<1>4. plain' = plain \o <<t1, t2, t3, t4, t5>> /\ out' = AsPrinted(plain')
  BY ONLY <1>1, <1>2, <1>3, AddsFive
<1> QED BY <1>4 DEF t1, t2, t3, t4, t5

(* The types of what a frame stands for. *)
LEMMA FrameTypes ==
  ASSUME NEW f \in Frames
  PROVE  /\ f.kind \in {"top", "arr", "map"} /\ f.pos \in Nat /\ f.todo \in Seq(Data)
         /\ f.in \in Seq(Tokens) /\ f.out \in Seq(Texts)
         /\ InAfter(f) \in Seq(Tokens) /\ TextAfter(f) \in Seq(Texts)
<1>1. f.kind \in {"top", "arr", "map"} /\ f.pos \in Nat /\ f.todo \in Seq(Data)
      /\ f.in \in Seq(Tokens) /\ f.out \in Seq(Texts)
  BY DEF Frames
<1>2. /\ Encodes(f.todo) \in Seq(Tokens) /\ Lines(f.todo) \in Seq(Texts) /\ Rest(f.kind, f.pos, f.todo) \in Seq(Texts)
      /\ Closing(f.kind) \in Seq(Texts) /\ <<Newline>> \in Seq(Texts)
  BY <1>1, TodoIs, MarkTypes
<1>3. InAfter(f) \in Seq(Tokens) /\ TextAfter(f) \in Seq(Texts)
  BY <1>1, <1>2, CatIs DEF InAfter, TextAfter
<1> QED BY <1>1, <1>3

LEMMA FrameIs ==
  ASSUME NEW k \in {"top", "arr", "map"}, NEW p \in Nat, NEW t \in Seq(Data), NEW i \in Seq(Tokens), NEW o \in Seq(Texts)
  PROVE  /\ Frame(k, p, t, i, o) \in Frames
         /\ Frame(k, p, t, i, o).kind = k /\ Frame(k, p, t, i, o).pos = p /\ Frame(k, p, t, i, o).todo = t
         /\ Frame(k, p, t, i, o).in = i /\ Frame(k, p, t, i, o).out = o
BY DEF Frame, Frames

LEMMA FrameOver ==
  ASSUME NEW f \in Frames, f.todo = <<>>
  PROVE  /\ InAfter(f) = f.in
         /\ f.kind = "top" => TextAfter(f) = <<Newline>>
         /\ f.kind # "top" => TextAfter(f) = Cat(Closing(f.kind), f.out)
<1>1. f.todo \in Seq(Data) /\ f.pos \in Nat /\ f.in \in Seq(Tokens) /\ f.out \in Seq(Texts)
      /\ Closing(f.kind) \in Seq(Texts) /\ <<Newline>> \in Seq(Texts)
  BY FrameTypes, MarkTypes
<1>2. Encodes(f.todo) = <<>> /\ Lines(f.todo) = <<>> /\ Rest(f.kind, f.pos, f.todo) = <<>>
  BY <1>1, TodoIs
<1>3. Cat(Closing(f.kind), f.out) \in Seq(Texts)
  BY <1>1, CatIs
<1> QED BY <1>1, <1>2, <1>3, CatNone DEF InAfter, TextAfter

(* On to the next item, or to the next value of all. *)
LEMMA FrameOn ==
  ASSUME NEW f \in Frames, f.todo # <<>>,
         NEW g, g = Frame(f.kind, f.pos + 1, Tail(f.todo), f.in, f.out)
  PROVE  /\ g \in Frames /\ Head(f.todo) \in Data
         /\ InAfter(f) = Cat(Encode(Head(f.todo)), InAfter(g))
         /\ f.kind = "top" => TextAfter(f) = Cat(<<Newline>>, Cat(Json(Head(f.todo)), TextAfter(g)))
         /\ f.kind # "top" => TextAfter(f) = Cat(<<Separator(f.kind, f.pos + 1)>>, Cat(Json(Head(f.todo)), TextAfter(g)))
<1> DEFINE v == Head(f.todo)  t == Tail(f.todo)  sep == <<Separator(f.kind, f.pos + 1)>>
<1>1. f.kind \in {"top", "arr", "map"} /\ f.pos \in Nat /\ f.todo \in Seq(Data) /\ f.in \in Seq(Tokens) /\ f.out \in Seq(Texts)
      /\ f.pos + 1 \in Nat /\ v \in Data /\ t \in Seq(Data)
  BY FrameTypes
<1>2. /\ Encodes(f.todo) = Cat(Encode(v), Encodes(t))
      /\ Lines(f.todo) = Cat(Cat(Json(v), <<Newline>>), Lines(t))
      /\ Rest(f.kind, f.pos, f.todo) = Cat(Cat(sep, Json(v)), Rest(f.kind, f.pos + 1, t))
  BY <1>1, TodoIs
<1> HIDE DEF v, t
<1>3. /\ g \in Frames /\ g.kind = f.kind /\ g.pos = f.pos + 1 /\ g.todo = t /\ g.in = f.in /\ g.out = f.out
  <2>1. g = Frame(f.kind, f.pos + 1, t, f.in, f.out)
    BY DEF t
  <2> QED BY <1>1, <2>1, FrameIs
<1>4. /\ Encode(v) \in Seq(Tokens) /\ Encodes(t) \in Seq(Tokens) /\ Json(v) \in Seq(Texts) /\ Lines(t) \in Seq(Texts)
      /\ Rest(f.kind, f.pos + 1, t) \in Seq(Texts) /\ <<Newline>> \in Seq(Texts)
      /\ sep \in Seq(Texts) /\ Closing(f.kind) \in Seq(Texts)
  BY <1>1, WrittenTypes, TodoIs, MarkTypes
<1> HIDE DEF sep
<1>5. InAfter(f) = Cat(Encode(v), InAfter(g))
  <2> DEFINE a == Encode(v)  b == Encodes(t)  c == f.in
  <2>1. a \in Seq(Tokens) /\ b \in Seq(Tokens) /\ c \in Seq(Tokens)
    BY <1>1, <1>4
  <2>2. InAfter(f) = Cat(Cat(a, b), c) /\ InAfter(g) = Cat(b, c)
    BY <1>2, <1>3 DEF InAfter
  <2> HIDE DEF a, b, c
  <2>3. Cat(Cat(a, b), c) = Cat(a, Cat(b, c))
    BY <2>1, CatIs
  <2> QED BY <2>2, <2>3 DEF a
<1>6. ASSUME f.kind = "top"
      PROVE  TextAfter(f) = Cat(<<Newline>>, Cat(Json(v), TextAfter(g)))
  <2> DEFINE n == <<Newline>>  r == Lines(t)  j == Json(v)
  <2>1. n \in Seq(Texts) /\ r \in Seq(Texts) /\ j \in Seq(Texts) /\ Cat(n, r) \in Seq(Texts)
    BY <1>4, CatIs
  <2>2. TextAfter(f) = Cat(n, Cat(Cat(j, n), r)) /\ TextAfter(g) = Cat(n, r)
    BY <1>2, <1>3, <1>6 DEF TextAfter
  <2> HIDE DEF n, r, j
  <2>3. Cat(Cat(j, n), r) = Cat(j, Cat(n, r))
    BY <2>1, CatIs
  <2> QED BY <2>2, <2>3 DEF n, j
<1>7. ASSUME f.kind # "top"
      PROVE  TextAfter(f) = Cat(sep, Cat(Json(v), TextAfter(g)))
  <2> DEFINE r == Rest(f.kind, f.pos + 1, t)  c == Cat(Closing(f.kind), f.out)  j == Json(v)
  <2>1. sep \in Seq(Texts) /\ r \in Seq(Texts) /\ c \in Seq(Texts) /\ j \in Seq(Texts)
    BY <1>1, <1>4, CatIs
  <2>2. TextAfter(f) = Cat(Cat(Cat(sep, j), r), c) /\ TextAfter(g) = Cat(r, c)
    BY <1>2, <1>3, <1>7 DEF TextAfter
  <2> HIDE DEF r, c, j
  <2>3. Cat(Cat(Cat(sep, j), r), c) = Cat(sep, Cat(j, Cat(r, c)))
    BY <2>1, CatIs
  <2> QED BY <2>2, <2>3 DEF j
<1> QED BY <1>1, <1>3, <1>5, <1>6, <1>7 DEF v, sep

LEMMA Headed ==
  ASSUME NEW S, NEW rest \in Seq(S), NEW x \in S
  PROVE  <<x>> \o rest # <<>> /\ Head(<<x>> \o rest) = x /\ Tail(<<x>> \o rest) = rest
<1> DEFINE all == <<x>> \o rest
<1>1. all \in Seq(S) /\ Len(all) = Len(rest) + 1 /\ all[1] = x /\ \A i \in 1 .. Len(rest) : all[i + 1] = rest[i]
  BY ConsIs
<1>2. Len(rest) \in Nat
  OBVIOUS
<1> HIDE DEF all
<1>3. all # <<>> /\ Head(all) = x /\ Tail(all) \in Seq(S) /\ Len(Tail(all)) = Len(rest)
  BY <1>1, <1>2
<1>4. \A i \in 1 .. Len(rest) : Tail(all)[i] = rest[i]
  BY <1>1, <1>2, <1>3
<1>5. Tail(all) = rest
  BY <1>3, <1>4, SeqEqual
<1> QED BY <1>3, <1>5 DEF all

(* The first token of an encoding, and what follows it. *)
LEMMA HeadRead ==
  ASSUME NEW v \in Data, NEW i \in Seq(Tokens)
  PROVE  LET all == Cat(Encode(v), i) IN
         /\ all # <<>> /\ Head(all).tag = v.kind /\ all \in Seq(Tokens)
         /\ v.kind = "lit" => Head(all).lit = v.lit /\ Tail(all) = i
         /\ v.kind = "ext" => Head(all).n = v.items[1].lit /\ Head(all).lit = v.items[2].lit /\ Tail(all) = i
         /\ v.kind = "arr" => Head(all).n = Len(v.items) /\ Tail(all) = Cat(Encodes(v.items), i)
         /\ v.kind = "map" => Head(all).n = Len(v.items) \div 2 /\ Tail(all) = Cat(Encodes(v.items), i)
<1> DEFINE all == Cat(Encode(v), i)
<1>1. v.kind \in {"lit", "ext", "arr", "map"} /\ v.items \in Seq(Data) /\ Encode(v) \in Seq(Tokens)
      /\ Encodes(v.items) \in Seq(Tokens)
  BY DataNested, WrittenTypes, EncodesIs DEF ValueKinds
<1>2. \A tag, n, x : Token(tag, n, x).tag = tag /\ Token(tag, n, x).n = n /\ Token(tag, n, x).lit = x
  BY DEF Token
<1>3. ASSUME NEW t, NEW rest \in Seq(Tokens), Encode(v) = <<t>> \o rest
      PROVE  all # <<>> /\ Head(all) = t /\ Tail(all) = Cat(rest, i)
  <2>1. t \in Tokens
    <3> DEFINE S == Tokens \union {t}
    <3>1. t \in S /\ rest \in Seq(S)
      OBVIOUS
    <3> HIDE DEF S
    <3>2. Encode(v) # <<>> /\ Head(Encode(v)) = t
      BY <1>3, <3>1, Headed
    <3> QED BY <1>1, <3>2
  <2>2. all = Cat(Cat(<<t>>, rest), i) /\ <<t>> \in Seq(Tokens) /\ Cat(rest, i) \in Seq(Tokens)
    BY <1>3, <2>1, CatIs DEF Cat
  <2>3. all = Cat(<<t>>, Cat(rest, i))
    <3> DEFINE a == <<t>>
    <3>1. a \in Seq(Tokens) /\ all = Cat(Cat(a, rest), i)
      BY <2>2
    <3> HIDE DEF a
    <3>2. all = Cat(a, Cat(rest, i))
      BY <3>1, CatIs
    <3> QED BY <3>2 DEF a
  <2> DEFINE r == Cat(rest, i)
  <2>4. r \in Seq(Tokens) /\ all = <<t>> \o r
    BY <2>2, <2>3 DEF Cat
  <2> HIDE DEF r
  <2>5. all # <<>> /\ Head(all) = t /\ Tail(all) = r
    BY <2>1, <2>4, Headed
  <2> QED BY <2>5 DEF r
<1>4. \A t : <<t>> \o <<>> = <<t>>
  OBVIOUS
<1>5. <<>> \in Seq(Tokens) /\ Cat(<<>>, i) = i
  BY CatNone
<1>6. all \in Seq(Tokens)
  BY <1>1, CatIs
<1>7. CASE v.kind = "lit"
  <2>1. Encode(v) = <<Token("lit", 0, v.lit)>> \o <<>>
    BY <1>4, <1>7, EncodeIs
  <2>2. all # <<>> /\ Head(all) = Token("lit", 0, v.lit) /\ Tail(all) = Cat(<<>>, i)
    BY <1>3, <1>5, <2>1
  <2> QED BY <1>2, <1>5, <1>6, <1>7, <2>2
<1>8. CASE v.kind = "ext"
  <2>1. Encode(v) = <<Token("ext", v.items[1].lit, v.items[2].lit)>> \o <<>>
    BY <1>4, <1>8, EncodeIs
  <2>2. all # <<>> /\ Head(all) = Token("ext", v.items[1].lit, v.items[2].lit) /\ Tail(all) = Cat(<<>>, i)
    BY <1>3, <1>5, <2>1
  <2> QED BY <1>2, <1>5, <1>6, <1>8, <2>2
<1>9. CASE v.kind = "arr"
  <2>1. all # <<>> /\ Head(all) = Token("arr", Len(v.items), Absent) /\ Tail(all) = Cat(Encodes(v.items), i)
    BY <1>1, <1>3, <1>9, EncodeIs
  <2> QED BY <1>2, <1>6, <1>9, <2>1
<1>10. CASE v.kind = "map"
  <2>1. all # <<>> /\ Head(all) = Token("map", Len(v.items) \div 2, Absent) /\ Tail(all) = Cat(Encodes(v.items), i)
    BY <1>1, <1>3, <1>10, EncodeIs
  <2> DEFINE n == Len(v.items) \div 2
  <2>2. Head(all) = Token("map", n, Absent)
    BY <2>1
  <2> HIDE DEF n
  <2>3. Head(all).tag = "map" /\ Head(all).n = n
    BY <1>2, <2>2
  <2> QED BY <1>6, <1>10, <2>1, <2>3 DEF n
<1> QED BY <1>1, <1>7, <1>8, <1>9, <1>10

(* Into an array or a map: the frame that its call begins with. *)
LEMMA FrameInto ==
  ASSUME NEW v \in Data, v.kind \in {"arr", "map"}, NEW f \in Frames, NEW g,
         g = Frame(v.kind, 1, IF v.items = <<>> THEN <<>> ELSE Tail(v.items), InAfter(f), TextAfter(f))
  PROVE  /\ g \in Frames
         /\ v.items = <<>> => /\ Cat(Encodes(v.items), InAfter(f)) = InAfter(g)
                              /\ Cat(Json(v), TextAfter(f)) = Cat(Opening(v.kind), TextAfter(g))
         /\ v.items # <<>> => /\ Head(v.items) \in Data
                              /\ Cat(Encodes(v.items), InAfter(f)) = Cat(Encode(Head(v.items)), InAfter(g))
                              /\ Cat(Json(v), TextAfter(f)) = Cat(Opening(v.kind), Cat(Json(Head(v.items)), TextAfter(g)))
<1> DEFINE k == v.kind  t == g.todo  i == InAfter(f)  o == TextAfter(f)  op == Opening(k)  cl == Closing(k)
<1>1. v.items \in Seq(Data) /\ i \in Seq(Tokens) /\ o \in Seq(Texts) /\ op \in Seq(Texts) /\ cl \in Seq(Texts)
      /\ 1 \in Nat
  BY DataNested, FrameTypes, MarkTypes
<1> HIDE DEF i, o
<1>2. CASE v.items = <<>>
  <2>1. g = Frame(k, 1, <<>>, i, o) /\ <<>> \in Seq(Data) /\ k \in {"top", "arr", "map"} /\ k # "top" /\ k # "lit"
    BY <1>2 DEF i, o
  <2>2. g \in Frames /\ g.kind = k /\ g.todo = <<>> /\ g.in = i /\ g.out = o
    <3> DEFINE u == <<>>
    <3>1. g = Frame(k, 1, u, i, o) /\ u \in Seq(Data) /\ k \in {"top", "arr", "map"}
      BY <2>1
    <3> HIDE DEF k, u
    <3>2. g \in Frames /\ g.kind = k /\ g.todo = u /\ g.in = i /\ g.out = o
      BY <1>1, <3>1, FrameIs
    <3> QED BY <3>2 DEF u
  <2>3. InAfter(g) = i /\ TextAfter(g) = Cat(cl, o)
    BY <2>1, <2>2, FrameOver
  <2>4. Encodes(v.items) = <<>> /\ Cat(<<>>, i) = i
    BY <1>1, <1>2, EncodesIs, CatNone
  <2>5. Json(v) = Cat(Cat(op, <<>>), cl)
    BY <1>2, <2>1, ContainerIs DEF Cat
  <2> HIDE DEF k, op, cl
  <2>6. Cat(Json(v), o) = Cat(op, Cat(cl, o))
    BY <1>1, <2>5, CatIs, CatNone
  <2> QED BY <1>2, <2>2, <2>3, <2>4, <2>6 DEF i, o, op, k
<1>3. CASE v.items # <<>>
  <2> DEFINE w == Head(v.items)  u == Tail(v.items)  r == Rest(k, 1, u)  j == Json(w)  e == Encode(w)  es == Encodes(u)
  <2>1. g = Frame(k, 1, u, i, o) /\ w \in Data /\ u \in Seq(Data) /\ k \in {"top", "arr", "map"} /\ k # "top" /\ k # "lit"
    BY <1>1, <1>3 DEF i, o
  <2>2. g \in Frames /\ g.kind = k /\ g.pos = 1 /\ g.todo = u /\ g.in = i /\ g.out = o
    <3> HIDE DEF k, u
    <3> QED BY <1>1, <2>1, FrameIs
  <2>3. InAfter(g) = Cat(es, i) /\ TextAfter(g) = Cat(r, Cat(cl, o))
    BY <2>1, <2>2 DEF InAfter, TextAfter
  <2>4. Encodes(v.items) = Cat(e, es) /\ e \in Seq(Tokens) /\ es \in Seq(Tokens) /\ j \in Seq(Texts)
    BY <1>1, <1>3, <2>1, EncodesIs, WrittenTypes DEF Cat
  <2>5. r \in Seq(Texts)
    <3> HIDE DEF k, u
    <3> QED BY <1>1, <2>1, RestIs
  <2>6. Json(v) = Cat(Cat(op, Cat(j, r)), cl)
    BY <1>3, <2>1, ContainerIs DEF Cat
  <2> HIDE DEF k, op, cl, w, u, r, j, e, es
  <2>7. Cat(Encodes(v.items), i) = Cat(e, InAfter(g))
    BY <1>1, <2>3, <2>4, CatIs
  <2>8. Cat(j, r) \in Seq(Texts) /\ Cat(cl, o) \in Seq(Texts)
    BY <1>1, <2>4, <2>5, CatIs
  <2>9. Cat(Cat(Cat(op, Cat(j, r)), cl), o) = Cat(op, Cat(Cat(j, r), Cat(cl, o)))
    BY <1>1, <2>8, CatIs
  <2>10. Cat(Cat(j, r), Cat(cl, o)) = Cat(j, TextAfter(g))
    BY <2>3, <2>4, <2>5, <2>8, CatIs
  <2> QED BY <1>3, <2>1, <2>2, <2>6, <2>7, <2>9, <2>10 DEF i, o, op, k, w, j, e
<1> QED BY <1>2, <1>3

(* The innermost frame, and the frames when a call is made, goes on, returns. *)
LEMMA ChainLast ==
  ASSUME NEW F, NEW calls \in Seq(Calls), Chain(F, calls)
  PROVE  /\ F \in Seq(Frames) /\ Len(F) \in Nat \ {0} /\ Len(F) = Len(calls) + 1 /\ Len(calls) \in Nat
         /\ F[Len(F)] \in Frames
         /\ calls = <<>> => F[Len(F)].kind = "top" /\ F[Len(F)].in = <<>>
         /\ calls # <<>> => /\ Len(calls) # 0 /\ calls[Len(calls)] \in Calls /\ Counts(F[Len(F)], calls[Len(calls)])
                            /\ F[Len(F)].kind \in {"arr", "map"}
<1>1. F \in Seq(Frames) /\ Len(F) = Len(calls) + 1 /\ Len(calls) \in Nat
  BY DEF Chain
<1>2. F[Len(F)] \in Frames /\ Len(F) \in Nat \ {0}
  BY <1>1
<1>3. calls = <<>> => F[Len(F)].kind = "top" /\ F[Len(F)].in = <<>>
  BY <1>1 DEF Chain
<1>4. ASSUME calls # <<>>
      PROVE  Len(calls) # 0 /\ calls[Len(calls)] \in Calls /\ Counts(F[Len(F)], calls[Len(calls)])
             /\ F[Len(F)].kind \in {"arr", "map"}
  <2>1. Len(calls) \in 1 .. Len(calls) /\ calls[Len(calls)] \in Calls /\ Len(calls) # 0
    BY <1>4
  <2>2. Counts(F[Len(F)], calls[Len(calls)])
    BY <1>1, <2>1 DEF Chain
  <2> QED BY <2>1, <2>2 DEF Counts, Calls
<1> QED BY <1>1, <1>2, <1>3, <1>4

LEMMA ChainTop ==
  ASSUME NEW g \in Frames, g.kind = "top", g.in = <<>>
  PROVE  \E G : Chain(G, <<>>) /\ G[Len(G)] = g
<1>1. <<g>> \in Seq(Frames) /\ Len(<<g>>) = 1 /\ <<g>>[1] = g /\ Len(<<>>) = 0
  OBVIOUS
<1>2. Chain(<<g>>, <<>>)
  BY <1>1 DEF Chain
<1> QED BY <1>1, <1>2

LEMMA ChainPush ==
  ASSUME NEW F, NEW calls \in Seq(Calls), Chain(F, calls), NEW g \in Frames, NEW c \in Calls,
         g.in = InAfter(F[Len(F)]), g.out = TextAfter(F[Len(F)]), Counts(g, c)
  PROVE  \E G : Chain(G, Append(calls, c)) /\ G[Len(G)] = g
<1> DEFINE G == Append(F, g)  all == Append(calls, c)  n == Len(calls)
<1>1. F \in Seq(Frames) /\ Len(F) = n + 1 /\ n \in Nat /\ F[1].kind = "top" /\ F[1].in = <<>>
      /\ \A j \in 1 .. n : F[j + 1].in = InAfter(F[j]) /\ F[j + 1].out = TextAfter(F[j]) /\ Counts(F[j + 1], calls[j])
  BY DEF Chain
<1>2. G \in Seq(Frames) /\ Len(G) = n + 2 /\ G[n + 2] = g /\ \A j \in 1 .. n + 1 : G[j] = F[j]
  BY <1>1
<1>3. Len(all) = n + 1 /\ all[n + 1] = c /\ \A j \in 1 .. n : all[j] = calls[j]
  OBVIOUS
<1> HIDE DEF G, all, n
<1>4. ASSUME NEW j \in 1 .. n + 1
      PROVE  G[j + 1].in = InAfter(G[j]) /\ G[j + 1].out = TextAfter(G[j]) /\ Counts(G[j + 1], all[j])
  <2>1. CASE j = n + 1
    <3>1. G[j] = F[n + 1] /\ G[j + 1] = g /\ all[j] = c /\ Len(F) = n + 1
      BY <1>1, <1>2, <1>3, <2>1
    <3> QED BY <3>1
  <2>2. CASE j # n + 1
    <3>1. j \in 1 .. n /\ G[j] = F[j] /\ G[j + 1] = F[j + 1] /\ all[j] = calls[j]
      BY <1>1, <1>2, <1>3, <2>2
    <3> QED BY <1>1, <3>1
  <2> QED BY <2>1, <2>2
<1>5. G[1] = F[1] /\ G[Len(G)] = g /\ Len(G) = Len(all) + 1
  BY <1>1, <1>2, <1>3
<1>6. Chain(G, all)
  BY <1>1, <1>2, <1>3, <1>4, <1>5 DEF Chain
<1> QED BY <1>5, <1>6 DEF all

LEMMA ChainChange ==
  ASSUME NEW F, NEW calls \in Seq(Calls), Chain(F, calls), calls # <<>>, NEW g \in Frames, NEW all \in Seq(Calls),
         g.in = F[Len(F)].in, g.out = F[Len(F)].out, Counts(g, all[Len(all)]),
         Len(all) = Len(calls), \A j \in 1 .. Len(calls) - 1 : all[j] = calls[j]
  PROVE  \E G : Chain(G, all) /\ G[Len(G)] = g
<1> DEFINE G == [F EXCEPT ![Len(F)] = g]  n == Len(calls)
<1>1. F \in Seq(Frames) /\ Len(F) = n + 1 /\ n \in Nat /\ n # 0 /\ F[1].kind = "top" /\ F[1].in = <<>>
      /\ \A j \in 1 .. n : F[j + 1].in = InAfter(F[j]) /\ F[j + 1].out = TextAfter(F[j]) /\ Counts(F[j + 1], calls[j])
  BY DEF Chain
<1>2. G \in Seq(Frames) /\ Len(G) = n + 1 /\ G[n + 1] = g /\ \A j \in 1 .. n : G[j] = F[j]
  BY <1>1
<1>3. Len(all) = n /\ \A j \in 1 .. n - 1 : all[j] = calls[j]
  OBVIOUS
<1> HIDE DEF G, n
<1>4. ASSUME NEW j \in 1 .. n
      PROVE  G[j + 1].in = InAfter(G[j]) /\ G[j + 1].out = TextAfter(G[j]) /\ Counts(G[j + 1], all[j])
  <2>1. CASE j = n
    <3>1. G[j] = F[j] /\ G[j + 1] = g /\ Len(all) = j /\ F[Len(F)] = F[j + 1]
      BY <1>1, <1>2, <1>3, <2>1
    <3> QED BY <1>1, <3>1
  <2>2. CASE j # n
    <3>1. j \in 1 .. n - 1 /\ j + 1 \in 1 .. n /\ G[j] = F[j] /\ G[j + 1] = F[j + 1] /\ all[j] = calls[j]
      BY <1>1, <1>2, <1>3, <2>2
    <3> QED BY <1>1, <3>1
  <2> QED BY <2>1, <2>2
<1>5. G[1] = F[1] /\ G[Len(G)] = g /\ Len(G) = Len(all) + 1
  BY <1>1, <1>2, <1>3
<1>6. Chain(G, all)
  BY <1>1, <1>2, <1>3, <1>4, <1>5 DEF Chain
<1> QED BY <1>5, <1>6

LEMMA ChainPop ==
  ASSUME NEW F, NEW calls \in Seq(Calls), Chain(F, calls), calls # <<>>
  PROVE  /\ SubSeq(calls, 1, Len(calls) - 1) \in Seq(Calls)
         /\ \E G : /\ Chain(G, SubSeq(calls, 1, Len(calls) - 1))
                   /\ F[Len(F)].in = InAfter(G[Len(G)]) /\ F[Len(F)].out = TextAfter(G[Len(G)])
<1> DEFINE n == Len(calls)  G == SubSeq(F, 1, n)  all == SubSeq(calls, 1, n - 1)
<1>1. F \in Seq(Frames) /\ Len(F) = n + 1 /\ n \in Nat /\ n # 0 /\ F[1].kind = "top" /\ F[1].in = <<>>
      /\ \A j \in 1 .. n : F[j + 1].in = InAfter(F[j]) /\ F[j + 1].out = TextAfter(F[j]) /\ Counts(F[j + 1], calls[j])
  BY DEF Chain
<1>2. G \in Seq(Frames) /\ Len(G) = n /\ \A j \in 1 .. n : G[j] = F[j]
  BY <1>1
<1>3. all \in Seq(Calls) /\ Len(all) = n - 1 /\ \A j \in 1 .. n - 1 : all[j] = calls[j]
  <2>1. n = Len(calls) /\ n \in Nat /\ n # 0 /\ n - 1 \in Nat /\ all = SubSeq(calls, 1, n - 1)
    BY <1>1
  <2> HIDE DEF n, all, G
  <2>2. n - 1 <= Len(calls) /\ 1 .. n - 1 \subseteq 1 .. Len(calls)
    BY <2>1
  <2> QED BY <2>1, <2>2
<1> HIDE DEF G, all, n
<1>4. ASSUME NEW j \in 1 .. n - 1
      PROVE  G[j + 1].in = InAfter(G[j]) /\ G[j + 1].out = TextAfter(G[j]) /\ Counts(G[j + 1], all[j])
  <2>0. j \in 1 .. n /\ j + 1 \in 1 .. n
    BY <1>1
  <2>1. G[j] = F[j] /\ G[j + 1] = F[j + 1] /\ all[j] = calls[j]
    BY <1>2, <1>3, <2>0
  <2> QED BY <1>1, <2>0, <2>1
<1>5. G[1] = F[1] /\ G[Len(G)] = F[n] /\ Len(G) = Len(all) + 1 /\ Len(F) = n + 1
  BY <1>1, <1>2, <1>3
<1>6. Chain(G, all)
  BY <1>1, <1>2, <1>3, <1>4, <1>5 DEF Chain
<1>7. F[Len(F)].in = InAfter(G[Len(G)]) /\ F[Len(F)].out = TextAfter(G[Len(G)])
  BY <1>1, <1>5
<1> QED BY <1>3, <1>6, <1>7 DEF all, n

(* The steps of the converter. *)
LEMMA ConvertStarts ==
  ASSUME NEW values \in Seq(Data), values # <<>>
  PROVE  \E F : /\ Chain(F, <<>>)
                /\ \E v \in Data : /\ Encodes(values) = Cat(Encode(v), InAfter(F[Len(F)]))
                                   /\ Cat(<<>>, Cat(Json(v), TextAfter(F[Len(F)]))) = Lines(values)
<1> DEFINE v == Head(values)  t == Tail(values)  n == <<Newline>>  none == <<>>  g == Frame("top", 0, t, none, none)
<1>1. v \in Data /\ t \in Seq(Data) /\ none \in Seq(Tokens) /\ none \in Seq(Texts) /\ 0 \in Nat /\ "top" \in {"top", "arr", "map"}
  OBVIOUS
<1>2. Encodes(values) = Cat(Encode(v), Encodes(t)) /\ Lines(values) = Cat(Cat(Json(v), n), Lines(t))
      /\ Encodes(t) \in Seq(Tokens) /\ Lines(t) \in Seq(Texts) /\ Json(v) \in Seq(Texts) /\ n \in Seq(Texts)
  BY <1>1, TodoIs, WrittenTypes, MarkTypes
<1> HIDE DEF v, t, none
<1>3. g \in Frames /\ g.kind = "top" /\ g.todo = t /\ g.in = none
  BY <1>1 DEF Frame, Frames
<1> HIDE DEF g, n
<1>4. InAfter(g) = Encodes(t)
  BY <1>2, <1>3, CatNone DEF InAfter, none
<1>5. TextAfter(g) = Cat(n, Lines(t))
  BY <1>3 DEF TextAfter, n
<1>6. Lines(values) = Cat(Json(v), TextAfter(g)) /\ Cat(Json(v), TextAfter(g)) \in Seq(Texts)
  <2> DEFINE j == Json(v)  r == Lines(t)
  <2>1. j \in Seq(Texts) /\ r \in Seq(Texts) /\ Lines(values) = Cat(Cat(j, n), r) /\ TextAfter(g) = Cat(n, r)
        /\ TextAfter(g) \in Seq(Texts)
    BY <1>2, <1>3, <1>5, FrameTypes
  <2> HIDE DEF j, r
  <2>2. Cat(Cat(j, n), r) = Cat(j, Cat(n, r)) /\ Cat(j, TextAfter(g)) \in Seq(Texts)
    BY <1>2, <2>1, CatIs
  <2> QED BY <2>1, <2>2 DEF j
<1>7. Cat(<<>>, Cat(Json(v), TextAfter(g))) = Lines(values)
  BY <1>6, CatNone
<1>8. \E G : Chain(G, <<>>) /\ G[Len(G)] = g
  BY <1>3, ChainTop DEF none
<1> QED BY <1>1, <1>2, <1>4, <1>7, <1>8

LEMMA ConvertBegins ==
  ASSUME NEW values \in Seq(Data), Convert(values)
  PROVE  VInv' /\ OInv'
<1>0. out' = <<>> /\ AsPrinted(<<>>) = <<>>
  BY DEF Convert, AsPrinted
<1>1. given' = values /\ input' = Encodes(values) /\ plain' = <<>> /\ stack' = <<>> /\ want' = TRUE /\ result' = "run"
  BY <1>0 DEF Convert, plain
<1>3. OInv'
  BY <1>0, <1>1 DEF OInv
<1>2. <<>> \in Seq(Texts) /\ <<>> \in Seq(Calls)
  OBVIOUS
<1>4. CASE values = <<>>
  <2>1. Encodes(values) = <<>> /\ Lines(values) = <<>>
    BY <1>4, EncodesIs, LinesIs
  <2>2. Converted'
    BY <1>1, <2>1 DEF Converted
  <2> QED BY <1>1, <1>2, <1>3, <2>2 DEF VInv
<1>5. CASE values # <<>>
  <2>1. Converting'
    BY <1>1, <1>5, ConvertStarts DEF Converting, Reads
  <2> QED BY <1>1, <1>2, <1>3, <2>1 DEF VInv
<1> QED BY <1>4, <1>5

(* What is there before a value is read, and after it was written. *)
LEMMA BeforeRead ==
  ASSUME VInv, result = "run", want, input # <<>>
  PROVE  /\ given \in Seq(Data) /\ plain \in Seq(Texts) /\ stack \in Seq(Calls)
         /\ \E F : /\ Chain(F, stack) /\ F[Len(F)] \in Frames
                   /\ \E v \in Data : /\ input = Cat(Encode(v), InAfter(F[Len(F)]))
                                      /\ Cat(plain, Cat(Json(v), TextAfter(F[Len(F)]))) = Lines(given)
<1>1. given \in Seq(Data) /\ plain \in Seq(Texts) /\ stack \in Seq(Calls) /\ Converting
  BY DEF VInv, Converted
<1>2. PICK F : Chain(F, stack) /\ Reads(F[Len(F)])
  BY <1>1 DEF Converting
<1>3. F[Len(F)] \in Frames
  BY <1>1, <1>2, ChainLast
<1> QED BY <1>1, <1>2, <1>3 DEF Reads

LEMMA AfterWrite ==
  ASSUME VInv, result = "run", ~want
  PROVE  /\ given \in Seq(Data) /\ plain \in Seq(Texts) /\ stack \in Seq(Calls)
         /\ \E F : /\ Chain(F, stack) /\ F[Len(F)] \in Frames
                   /\ input = InAfter(F[Len(F)]) /\ Cat(plain, TextAfter(F[Len(F)])) = Lines(given)
<1>1. given \in Seq(Data) /\ plain \in Seq(Texts) /\ stack \in Seq(Calls) /\ Converting
  BY DEF VInv, Converted
<1>2. PICK F : Chain(F, stack) /\ Wrote(F[Len(F)])
  BY <1>1 DEF Converting
<1>3. F[Len(F)] \in Frames
  BY <1>1, <1>2, ChainLast
<1> QED BY <1>1, <1>2, <1>3 DEF Wrote

LEMMA ReadScalarStep == ASSUME VInv, OInv, ReadScalar PROVE VInv' /\ OInv'
<1>1. /\ result = "run" /\ want /\ input # <<>> /\ Head(input).tag \in {"lit", "ext"}
      /\ plain' = plain \o (IF Head(input).tag = "lit" THEN <<Text(Head(input).lit)>>
                        ELSE <<Punct("["), Text(Head(input).n), Punct(","), Text(Head(input).lit), Punct("]")>>)
      /\ input' = Tail(input) /\ want' = FALSE
      /\ given' = given /\ stack' = stack /\ result' = result
      /\ OInv'
  <2>1. /\ result = "run" /\ want /\ input # <<>> /\ Head(input).tag \in {"lit", "ext"}
        /\ out' = out \o (IF Head(input).tag = "lit" THEN <<Printed(Head(input).lit)>>
                          ELSE <<Punct("["), Text(Head(input).n), Punct(","), Text(Head(input).lit), Punct("]")>>)
        /\ input' = Tail(input) /\ want' = FALSE
        /\ given' = given /\ stack' = stack /\ result' = result
    BY DEF ReadScalar, Running, Next1, Writes
  <2>2. PICK v \in Data, i \in Seq(Tokens) : input = Cat(Encode(v), i)
    <3>1. PICK F : Chain(F, stack) /\ F[Len(F)] \in Frames
                     /\ \E v \in Data : input = Cat(Encode(v), InAfter(F[Len(F)]))
      BY <2>1, BeforeRead
    <3>2. InAfter(F[Len(F)]) \in Seq(Tokens)
      BY <3>1, FrameTypes
    <3> QED BY <3>1, <3>2
  <2>3. /\ Head(input).tag = v.kind
        /\ v.kind = "ext" => Head(input).n = v.items[1].lit /\ Head(input).lit = v.items[2].lit
    <3> DEFINE all == input
    <3>1. all = Cat(Encode(v), i)
      BY <2>2
    <3> HIDE DEF all
    <3>2. /\ Head(all).tag = v.kind
          /\ v.kind = "ext" => Head(all).n = v.items[1].lit /\ Head(all).lit = v.items[2].lit
      BY <3>1, HeadRead
    <3> QED BY <3>2 DEF all
  <2>4. CASE v.kind = "lit"
    <3> DEFINE x == Head(input).lit
    <3>1. plain' = plain \o <<Text(x)>> /\ out' = AsPrinted(plain')
      <4>1. out' = out \o <<Printed(x)>>
        BY <2>1, <2>3, <2>4
      <4> HIDE DEF x
      <4> QED BY <2>1, <4>1, AddsScalar
    <3> QED BY <2>1, <2>3, <2>4, <3>1 DEF OInv
  <2>5. CASE v.kind = "ext"
    <3> DEFINE c == Head(input).n  x == Head(input).lit
    <3>1. c \notin Odd /\ x \notin Odd
      BY <2>3, <2>5, DataNested
    <3>2. plain' = plain \o <<Punct("["), Text(c), Punct(","), Text(x), Punct("]")>> /\ out' = AsPrinted(plain')
      <4>1. out' = out \o <<Punct("["), Text(c), Punct(","), Text(x), Punct("]")>>
        BY <2>1, <2>3, <2>5
      <4> HIDE DEF c, x
      <4> QED BY <2>1, <3>1, <4>1, AddsExt
    <3>3. Head(input).tag # "lit"
      BY <2>3, <2>5
    <3> QED BY <2>1, <3>2, <3>3 DEF OInv
  <2> QED BY <2>1, <2>3, <2>4, <2>5
<1>2. given \in Seq(Data) /\ plain \in Seq(Texts) /\ stack \in Seq(Calls) /\ Converting
  BY <1>1 DEF VInv, Converted
<1>3. PICK F : Chain(F, stack) /\ Reads(F[Len(F)])
  BY <1>1, <1>2 DEF Converting
<1> DEFINE f == F[Len(F)]
<1>4. f \in Frames
  BY <1>2, <1>3, ChainLast
<1> HIDE DEF f
<1>5. PICK v \in Data : input = Cat(Encode(v), InAfter(f)) /\ Cat(plain, Cat(Json(v), TextAfter(f))) = Lines(given)
  BY <1>3 DEF Reads, f
<1>6. InAfter(f) \in Seq(Tokens) /\ TextAfter(f) \in Seq(Texts) /\ Json(v) \in Seq(Texts)
  BY <1>4, FrameTypes, WrittenTypes
<1>7. /\ Head(input).tag = v.kind /\ Tail(input) = InAfter(f)
      /\ v.kind = "lit" => Head(input).lit = v.lit
      /\ v.kind = "ext" => Head(input).n = v.items[1].lit /\ Head(input).lit = v.items[2].lit
  <2> DEFINE i == InAfter(f)  all == input
  <2>1. i \in Seq(Tokens) /\ all = Cat(Encode(v), i) /\ v \in Data
    BY <1>5, <1>6
  <2> HIDE DEF i, all
  <2>2. /\ Head(all).tag = v.kind
        /\ v.kind = "lit" => Head(all).lit = v.lit /\ Tail(all) = i
        /\ v.kind = "ext" => Head(all).n = v.items[1].lit /\ Head(all).lit = v.items[2].lit /\ Tail(all) = i
    BY <2>1, HeadRead
  <2>3. v.kind \in {"lit", "ext"}
    BY <1>1, <2>2 DEF all
  <2> QED BY <2>2, <2>3 DEF i, all
<1>8. plain' = Cat(plain, Json(v))
  <2>1. CASE v.kind = "lit"
    <3>1. Json(v) = <<Text(v.lit)>>
      BY <2>1, JsonIs
    <3> QED BY <1>1, <1>7, <2>1, <3>1 DEF Cat
  <2>2. CASE v.kind = "ext"
    <3>1. Json(v) = <<Punct("["), Text(v.items[1].lit), Punct(","), Text(v.items[2].lit), Punct("]")>>
      BY <2>2, JsonIs
    <3>2. Json(v) = <<Punct("["), Text(Head(input).n), Punct(","), Text(Head(input).lit), Punct("]")>>
      BY <1>7, <2>2, <3>1
    <3>3. Head(input).tag # "lit"
      BY <1>7, <2>2
    <3> QED BY <1>1, <3>2, <3>3, Zenon DEF Cat
  <2> QED BY <1>1, <1>7, <2>1, <2>2
<1>9. plain' \in Seq(Texts) /\ Cat(plain', TextAfter(f)) = Lines(given)
  <2> DEFINE o == plain  j == Json(v)  r == TextAfter(f)
  <2>1. o \in Seq(Texts) /\ j \in Seq(Texts) /\ r \in Seq(Texts) /\ Cat(o, Cat(j, r)) = Lines(given)
        /\ plain' = Cat(o, j)
    BY <1>2, <1>5, <1>6, <1>8
  <2> HIDE DEF o, j, r
  <2>2. Cat(o, j) \in Seq(Texts) /\ Cat(Cat(o, j), r) = Cat(o, Cat(j, r))
    BY <2>1, CatIs
  <2> QED BY <2>1, <2>2 DEF r
<1>10. Wrote(F[Len(F)])'
  BY <1>1, <1>7, <1>9 DEF Wrote, f
<1>11. Converting'
  BY <1>1, <1>3, <1>10 DEF Converting
<1> QED BY <1>1, <1>2, <1>9, <1>11 DEF VInv

LEMMA AtEOFStep == ASSUME VInv, OInv, AtEOF PROVE VInv' /\ OInv'
<1>1. result = "run" /\ want /\ input = <<>> /\ result' = "ok"
      /\ given' = given /\ input' = input /\ plain' = plain /\ stack' = stack /\ want' = want
      /\ OInv'
  BY DEF AtEOF, Running, OInv, plain
<1>2. ~Converting
  <2> SUFFICES ASSUME Converting PROVE FALSE
    OBVIOUS
  <2>1. PICK F : Chain(F, stack) /\ Reads(F[Len(F)])
    BY <1>1 DEF Converting
  <2>2. stack \in Seq(Calls)
    BY <1>1 DEF VInv
  <2>3. PICK v \in Data : input = Cat(Encode(v), InAfter(F[Len(F)]))
    BY <2>1 DEF Reads
  <2>4. F[Len(F)] \in Frames
    BY <2>1, <2>2, ChainLast
  <2>5. InAfter(F[Len(F)]) \in Seq(Tokens)
    BY <2>4, FrameTypes
  <2> QED BY <1>1, <2>3, <2>5, HeadRead
<1>3. Converted
  BY <1>1, <1>2 DEF VInv
<1>4. Converted'
  BY <1>1, <1>3 DEF Converted
<1> QED BY <1>1, <1>4 DEF VInv

(* What is left to be written, when some of it is. *)
LEMMA WritesOn ==
  ASSUME NEW o \in Seq(Texts), NEW x \in Seq(Texts), NEW r \in Seq(Texts)
  PROVE  o \o x \in Seq(Texts) /\ Cat(o \o x, r) = Cat(o, Cat(x, r))
<1>1. Cat(o, x) \in Seq(Texts) /\ Cat(Cat(o, x), r) = Cat(o, Cat(x, r))
  BY CatIs
<1> QED BY <1>1 DEF Cat

LEMMA ReadHeadStep == ASSUME VInv, OInv, ReadHead PROVE VInv' /\ OInv'
<1> DEFINE tok == Head(input)  c == [kind |-> tok.tag, left |-> tok.n, key |-> TRUE]
           op == <<Punct(IF tok.tag = "arr" THEN "[" ELSE "{")>>
<1>1. /\ result = "run" /\ want /\ input # <<>> /\ tok.tag \in {"arr", "map"}
      /\ plain' = plain \o op /\ stack' = Append(stack, c)
      /\ input' = Tail(input) /\ want' = (tok.n > 0) /\ given' = given /\ result' = result
      /\ OInv'
  <2> DEFINE k == IF tok.tag = "arr" THEN "[" ELSE "{"
  <2>1. /\ result = "run" /\ want /\ input # <<>> /\ tok.tag \in {"arr", "map"}
        /\ out' = out \o <<Punct(k)>> /\ stack' = Append(stack, c)
        /\ input' = Tail(input) /\ want' = (tok.n > 0) /\ given' = given /\ result' = result
    BY DEF ReadHead, Running, Next1, Writes
  <2>2. plain' = plain \o <<Punct(k)>> /\ out' = AsPrinted(plain')
    <3> HIDE DEF k
    <3> QED BY <2>1, AddsMark
  <2> QED BY <2>1, <2>2 DEF OInv
<1>2. given \in Seq(Data) /\ plain \in Seq(Texts) /\ stack \in Seq(Calls)
  BY <1>1, BeforeRead
<1>3. PICK F : /\ Chain(F, stack) /\ F[Len(F)] \in Frames
               /\ \E v \in Data : /\ input = Cat(Encode(v), InAfter(F[Len(F)]))
                                  /\ Cat(plain, Cat(Json(v), TextAfter(F[Len(F)]))) = Lines(given)
  BY <1>1, BeforeRead
<1> DEFINE f == F[Len(F)]
<1>4. PICK v \in Data : input = Cat(Encode(v), InAfter(f)) /\ Cat(plain, Cat(Json(v), TextAfter(f))) = Lines(given)
  BY <1>3
<1> DEFINE i == InAfter(f)  g == Frame(v.kind, 1, IF v.items = <<>> THEN <<>> ELSE Tail(v.items), i, TextAfter(f))
<1>5. f \in Frames /\ i \in Seq(Tokens) /\ TextAfter(f) \in Seq(Texts)
  BY <1>3, FrameTypes
<1>6. /\ tok.tag = v.kind
      /\ v.kind = "arr" => tok.n = Len(v.items) /\ Tail(input) = Cat(Encodes(v.items), i)
      /\ v.kind = "map" => tok.n = Len(v.items) \div 2 /\ Tail(input) = Cat(Encodes(v.items), i)
  <2> HIDE DEF f, i
  <2>1. i \in Seq(Tokens) /\ input = Cat(Encode(v), i)
    BY <1>4, <1>5 DEF i
  <2> QED BY <2>1, HeadRead
<1>7. /\ v.kind \in {"arr", "map"} /\ v.items \in Seq(Data) /\ (v.kind = "map" => Len(v.items) % 2 = 0)
      /\ input' = Cat(Encodes(v.items), i)
  BY <1>1, <1>6, DataNested
<1>8. tok.n \in Nat /\ (tok.n > 0 <=> v.items # <<>>) /\ (v.kind = "map" => 2 * tok.n = Len(v.items))
  <2>1. Len(v.items) \in Nat /\ (v.items = <<>> <=> Len(v.items) = 0)
    BY <1>7
  <2> DEFINE len == Len(v.items)
  <2>2. len \in Nat /\ (v.items = <<>> <=> len = 0) /\ (v.kind = "arr" => tok.n = len)
        /\ (v.kind = "map" => tok.n = len \div 2 /\ len % 2 = 0)
    BY <1>6, <1>7, <2>1
  <2> HIDE DEF len, tok
  <2>3. CASE v.kind = "arr"
    BY <2>2, <2>3 DEF len
  <2>4. CASE v.kind = "map"
    <3>1. tok.n \in Nat /\ 2 * tok.n = len
      BY <2>2, <2>4
    <3> QED BY <2>2, <2>4, <3>1 DEF len
  <2> QED BY <1>7, <2>3, <2>4
<1>9. op = Opening(v.kind) /\ op \in Seq(Texts)
  <2>1. op = Opening(v.kind)
    BY <1>6, <1>7 DEF Opening
  <2> QED BY <2>1, MarkTypes
<1> HIDE DEF op, i
<1>10. /\ g \in Frames /\ g.in = i /\ g.out = TextAfter(f) /\ g.kind = v.kind /\ g.pos = 1
       /\ g.todo = (IF v.items = <<>> THEN <<>> ELSE Tail(v.items))
  <2> DEFINE t == IF v.items = <<>> THEN <<>> ELSE Tail(v.items)
  <2>1. t \in Seq(Data) /\ 1 \in Nat /\ v.kind \in {"top", "arr", "map"}
    BY <1>7
  <2> HIDE DEF t
  <2>2. Frame(v.kind, 1, t, i, TextAfter(f)) \in Frames
        /\ Frame(v.kind, 1, t, i, TextAfter(f)).kind = v.kind /\ Frame(v.kind, 1, t, i, TextAfter(f)).pos = 1
        /\ Frame(v.kind, 1, t, i, TextAfter(f)).todo = t
        /\ Frame(v.kind, 1, t, i, TextAfter(f)).in = i /\ Frame(v.kind, 1, t, i, TextAfter(f)).out = TextAfter(f)
    BY <1>5, <2>1, FrameIs
  <2> QED BY <2>2 DEF t
<1>11. /\ v.items = <<>> => /\ input' = InAfter(g)
                            /\ Cat(Json(v), TextAfter(f)) = Cat(op, TextAfter(g))
       /\ v.items # <<>> => /\ Head(v.items) \in Data
                            /\ input' = Cat(Encode(Head(v.items)), InAfter(g))
                            /\ Cat(Json(v), TextAfter(f)) = Cat(op, Cat(Json(Head(v.items)), TextAfter(g)))
  <2>1. g = Frame(v.kind, 1, IF v.items = <<>> THEN <<>> ELSE Tail(v.items), InAfter(f), TextAfter(f))
    BY DEF i
  <2> HIDE DEF f, g
  <2> QED BY <1>5, <1>7, <1>9, <2>1, FrameInto DEF i
<1>12. c \in Calls /\ c.kind = v.kind /\ c.left = tok.n /\ c.key = TRUE
  <2> HIDE DEF tok
  <2> QED BY <1>6, <1>7, <1>8 DEF Calls
<1> HIDE DEF g, c, tok
<1>13. Counts(g, c)
  <2>1. CASE v.items = <<>>
    <3>1. tok.n = 0
      BY <1>8, <2>1
    <3> QED BY <1>10, <1>12, <2>1, <3>1 DEF Counts
  <2>2. CASE v.items # <<>>
    <3>1. Len(g.todo) = Len(v.items) - 1 /\ Len(v.items) \in Nat
      BY <1>7, <1>10, <2>2
    <3>2. v.kind = "arr" => tok.n = Len(v.items)
      BY <1>6
    <3> DEFINE len == Len(v.items)  left == Len(g.todo)
    <3>3. /\ left = len - 1 /\ len \in Nat /\ c.kind = v.kind /\ c.left = tok.n /\ c.key = TRUE /\ g.pos = 1 /\ g.kind = v.kind
          /\ v.kind = "arr" => tok.n = len
          /\ v.kind = "map" => 2 * tok.n = len
      BY <1>8, <1>10, <1>12, <3>1, <3>2
    <3>4. 1 % 2 = 1
      OBVIOUS
    <3> HIDE DEF len, left
    <3>5. v.kind = "arr" => c.left = left + 1
      BY <3>3
    <3>6. c.key = (g.pos % 2 = 1) /\ c.key
      BY <3>3, <3>4
    <3>7. v.kind = "map" => 2 * c.left = left + 1
      BY <3>3
    <3> QED BY <1>7, <3>3, <3>5, <3>6, <3>7 DEF Counts, left
  <2> QED BY <2>1, <2>2
<1>14. PICK G : Chain(G, stack') /\ G[Len(G)] = g
  <2>1. \E G : Chain(G, Append(stack, c)) /\ G[Len(G)] = g
    BY <1>2, <1>3, <1>10, <1>12, <1>13, ChainPush DEF i
  <2> QED BY <1>1, <2>1 DEF c
<1>15. stack' \in Seq(Calls) /\ want' \in BOOLEAN
  BY <1>1, <1>2, <1>12 DEF c
<1>16. InAfter(g) \in Seq(Tokens) /\ TextAfter(g) \in Seq(Texts) /\ plain' \in Seq(Texts)
  BY <1>1, <1>2, <1>9, <1>10, FrameTypes, WritesOn DEF op
<1>17. CASE v.items = <<>>
  <2>1. ~want'
    BY <1>1, <1>8, <1>17 DEF tok
  <2>2. Cat(plain', TextAfter(g)) = Lines(given)
    <3> DEFINE r == TextAfter(g)
    <3>1. r \in Seq(Texts) /\ Cat(plain, Cat(op, r)) = Lines(given)
      BY <1>4, <1>11, <1>16, <1>17
    <3> HIDE DEF r
    <3>2. Cat(plain \o op, r) = Lines(given)
      BY <1>2, <1>9, <3>1, WritesOn
    <3> QED BY <1>1, <3>2 DEF r, op
  <2>3. Wrote(G[Len(G)])'
    BY <1>1, <1>11, <1>14, <1>17, <2>2 DEF Wrote
  <2>4. Converting'
    BY <1>14, <2>1, <2>3 DEF Converting
  <2> QED BY <1>1, <1>2, <1>15, <1>16, <2>4 DEF VInv
<1>18. CASE v.items # <<>>
  <2> DEFINE w == Head(v.items)
  <2>1. want'
    BY <1>1, <1>8, <1>18 DEF tok
  <2>2. Cat(plain', Cat(Json(w), TextAfter(g))) = Lines(given)
    <3> DEFINE r == Cat(Json(w), TextAfter(g))
    <3>1. Json(w) \in Seq(Texts)
      BY <1>11, <1>18, WrittenTypes
    <3>2. r \in Seq(Texts) /\ Cat(plain, Cat(op, r)) = Lines(given)
      BY <1>4, <1>11, <1>16, <1>18, <3>1, CatIs
    <3> HIDE DEF r
    <3>3. Cat(plain \o op, r) = Lines(given)
      BY <1>2, <1>9, <3>2, WritesOn
    <3> QED BY <1>1, <3>3 DEF r, op
  <2>3. Reads(G[Len(G)])'
    BY <1>1, <1>11, <1>14, <1>18, <2>2 DEF Reads
  <2>4. Converting'
    BY <1>14, <2>1, <2>3 DEF Converting
  <2> QED BY <1>1, <1>2, <1>15, <1>16, <2>4 DEF VInv
<1> QED BY <1>17, <1>18

(* The innermost call goes on to its next item. *)
LEMMA NextItem ==
  ASSUME given \in Seq(Data), plain \in Seq(Texts), stack \in Seq(Calls), stack # <<>>,
         NEW F, Chain(F, stack), NEW f \in Frames, f = F[Len(F)], f.todo # <<>>,
         input = InAfter(f), Cat(plain, TextAfter(f)) = Lines(given),
         given' = given, input' = input, result' = "run", want' = TRUE,
         plain' = plain \o <<Separator(f.kind, f.pos + 1)>>,
         stack' \in Seq(Calls), Len(stack') = Len(stack), \A j \in 1 .. Len(stack) - 1 : stack'[j] = stack[j],
         Counts(Frame(f.kind, f.pos + 1, Tail(f.todo), f.in, f.out), stack'[Len(stack')])
  PROVE  VInv'
<1> DEFINE g == Frame(f.kind, f.pos + 1, Tail(f.todo), f.in, f.out)  v == Head(f.todo)  sep == <<Separator(f.kind, f.pos + 1)>>
<1>1. f.kind # "top" /\ f.pos \in Nat /\ f.todo \in Seq(Data) /\ f.in \in Seq(Tokens) /\ f.out \in Seq(Texts)
  BY ChainLast, FrameTypes
<1>2. g \in Frames /\ g.in = f.in /\ g.out = f.out
  <2> DEFINE p == f.pos + 1  t == Tail(f.todo)  k == f.kind  i == f.in  o == f.out
  <2>1. p \in Nat /\ t \in Seq(Data) /\ k \in {"top", "arr", "map"} /\ i \in Seq(Tokens) /\ o \in Seq(Texts)
    BY <1>1, FrameTypes, SMTT(30)
  <2> HIDE DEF p, t, k, i, o
  <2>2. Frame(k, p, t, i, o) \in Frames /\ Frame(k, p, t, i, o).in = i /\ Frame(k, p, t, i, o).out = o
    BY <2>1, FrameIs
  <2> QED BY <2>2 DEF p, t, k, i, o
<1>3. v \in Data /\ InAfter(f) = Cat(Encode(v), InAfter(g)) /\ TextAfter(f) = Cat(sep, Cat(Json(v), TextAfter(g)))
  BY <1>1, FrameOn
<1>4. sep \in Seq(Texts) /\ TextAfter(g) \in Seq(Texts) /\ Json(v) \in Seq(Texts)
  BY <1>2, <1>3, FrameTypes, WrittenTypes, MarkTypes
<1>5. plain' \in Seq(Texts) /\ Cat(plain', Cat(Json(v), TextAfter(g))) = Lines(given)
  <2> DEFINE r == Cat(Json(v), TextAfter(g))
  <2>1. r \in Seq(Texts) /\ Cat(plain, Cat(sep, r)) = Lines(given) /\ plain' = plain \o sep
    BY <1>3, <1>4, CatIs
  <2> HIDE DEF r, sep
  <2>2. plain \o sep \in Seq(Texts) /\ Cat(plain \o sep, r) = Cat(plain, Cat(sep, r))
    BY <1>4, <2>1, WritesOn
  <2> QED BY <2>1, <2>2 DEF r
<1>6. Counts(g, stack'[Len(stack')])
  OBVIOUS
<1> HIDE DEF g, v
<1>7. PICK G : Chain(G, stack') /\ G[Len(G)] = g
  <2> DEFINE all == stack'
  <2>1. all \in Seq(Calls) /\ Len(all) = Len(stack) /\ (\A j \in 1 .. Len(stack) - 1 : all[j] = stack[j])
        /\ Counts(g, all[Len(all)]) /\ g.in = F[Len(F)].in /\ g.out = F[Len(F)].out
        /\ stack \in Seq(Calls) /\ stack # <<>> /\ Chain(F, stack) /\ g \in Frames
    BY <1>2, <1>6
  <2> HIDE DEF all
  <2>2. \E G : Chain(G, all) /\ G[Len(G)] = g
    BY ONLY <2>1, ChainChange
  <2> QED BY <2>2 DEF all
<1>8. Reads(G[Len(G)])'
  BY <1>3, <1>5, <1>7 DEF Reads
<1>9. Converting'
  BY <1>7, <1>8 DEF Converting
<1> QED BY <1>5, <1>9 DEF VInv

(* The count after the last of the stack was changed. *)
LEMMA StackChanged ==
  ASSUME NEW calls \in Seq(Calls), calls # <<>>, NEW c \in Calls
  PROVE  LET all == [calls EXCEPT ![Len(calls)] = c] IN
         /\ all \in Seq(Calls) /\ Len(all) = Len(calls) /\ all[Len(all)] = c
         /\ \A j \in 1 .. Len(calls) - 1 : all[j] = calls[j]
OBVIOUS

LEMMA AfterKeyStep == ASSUME VInv, OInv, AfterKey PROVE VInv' /\ OInv'
<1> DEFINE top == stack[Len(stack)]  c == [top EXCEPT !.key = FALSE]
<1>1. /\ result = "run" /\ ~want /\ stack # <<>> /\ top.kind = "map" /\ top.left > 0 /\ top.key
      /\ plain' = plain \o <<Punct(":")>> /\ stack' = [stack EXCEPT ![Len(stack)] = c]
      /\ want' = TRUE /\ given' = given /\ input' = input /\ result' = result
      /\ OInv'
  <2>1. /\ result = "run" /\ ~want /\ stack # <<>> /\ top.kind = "map" /\ top.left > 0 /\ top.key
        /\ out' = out \o <<Punct(":")>> /\ stack' = [stack EXCEPT ![Len(stack)] = c]
        /\ want' = TRUE /\ given' = given /\ input' = input /\ result' = result
    BY DEF AfterKey, Running, Top, Writes
  <2>2. plain' = plain \o <<Punct(":")>> /\ out' = AsPrinted(plain')
    BY <2>1, AddsMark
  <2> QED BY <2>1, <2>2 DEF OInv
<1>2. given \in Seq(Data) /\ plain \in Seq(Texts) /\ stack \in Seq(Calls)
  BY <1>1, AfterWrite
<1>3. PICK F : /\ Chain(F, stack) /\ F[Len(F)] \in Frames
               /\ input = InAfter(F[Len(F)]) /\ Cat(plain, TextAfter(F[Len(F)])) = Lines(given)
  BY <1>1, AfterWrite
<1> DEFINE f == F[Len(F)]
<1>4. Counts(f, top) /\ top \in Calls /\ f \in Frames
  BY <1>1, <1>2, <1>3, ChainLast
<1>5. c \in Calls /\ c.kind = top.kind /\ c.left = top.left /\ c.key = FALSE
  BY <1>4 DEF Calls
<1> HIDE DEF f, c, top
<1>6. f.pos \in Nat /\ f.todo \in Seq(Data) /\ top.left \in Nat
  BY <1>4, FrameTypes DEF Calls
<1>7. f.kind = "map" /\ f.pos % 2 = 1 /\ 2 * top.left = Len(f.todo) + 1
  <2>1. top.key = TRUE /\ top.left # 0 /\ top.kind = "map" /\ top.kind # "arr"
    BY <1>1, <1>4, <1>6 DEF Calls
  <2>2. top.key = (f.pos % 2 = 1) /\ 2 * top.left = Len(f.todo) + (IF top.key THEN 1 ELSE 2) /\ f.kind = "map"
    BY <1>4, <2>1 DEF Counts
  <2> QED BY <2>1, <2>2
<1>8. Len(f.todo) \in Nat \ {0} /\ f.todo # <<>>
  <2> DEFINE n == Len(f.todo)
  <2>1. n \in Nat /\ 2 * top.left = n + 1
    BY <1>6, <1>7
  <2> HIDE DEF n
  <2>2. n # 0
    BY <1>6, <2>1
  <2> QED BY <2>1, <2>2, <1>6 DEF n
<1>9. (f.pos + 1) % 2 = 0
  BY <1>6, <1>7
<1>10. Separator(f.kind, f.pos + 1) = Punct(":")
  BY <1>7, <1>9 DEF Separator
<1> DEFINE g == Frame(f.kind, f.pos + 1, Tail(f.todo), f.in, f.out)
<1>11. Counts(g, c)
  <2>1. g.kind = "map" /\ g.pos = f.pos + 1 /\ g.todo = Tail(f.todo)
    BY <1>7 DEF Frame
  <2>2. Len(g.todo) = Len(f.todo) - 1
    <3> HIDE DEF g
    <3>1. f.todo \in Seq(Data) /\ f.todo # <<>>
      BY <1>6, <1>8
    <3>2. Len(Tail(f.todo)) = Len(f.todo) - 1
      BY <3>1
    <3> QED BY <2>1, <3>2
  <2>3. (g.pos % 2 = 1) = FALSE
    BY <1>9, <2>1
  <2>4. 2 * c.left = Len(g.todo) + 2
    BY <1>5, <1>6, <1>7, <1>8, <2>2
  <2> HIDE DEF g
  <2> QED BY <1>1, <1>5, <2>1, <2>3, <2>4 DEF Counts
<1>12. stack' \in Seq(Calls) /\ Len(stack') = Len(stack) /\ stack'[Len(stack')] = c
       /\ \A j \in 1 .. Len(stack) - 1 : stack'[j] = stack[j]
  BY <1>1, <1>2, <1>5, StackChanged
<1> QED BY <1>1, <1>2, <1>3, <1>4, <1>8, <1>10, <1>11, <1>12, NextItem DEF f

LEMMA AfterValueStep == ASSUME VInv, OInv, AfterValue PROVE VInv' /\ OInv'
<1>1. /\ result = "run" /\ ~want /\ stack = <<>> /\ plain' = plain \o <<Newline>> /\ want' = TRUE
      /\ given' = given /\ input' = input /\ stack' = stack /\ result' = result
      /\ OInv'
  <2>1. /\ result = "run" /\ ~want /\ stack = <<>> /\ out' = out \o <<Punct("newline")>> /\ want' = TRUE
        /\ given' = given /\ input' = input /\ stack' = stack /\ result' = result
    BY DEF AfterValue, Running, Writes
  <2>2. plain' = plain \o <<Punct("newline")>> /\ out' = AsPrinted(plain')
    BY <2>1, AddsMark
  <2> QED BY <2>1, <2>2 DEF OInv, Newline
<1>2. given \in Seq(Data) /\ plain \in Seq(Texts) /\ stack \in Seq(Calls)
  BY <1>1, AfterWrite
<1>3. PICK F : /\ Chain(F, stack) /\ F[Len(F)] \in Frames
               /\ input = InAfter(F[Len(F)]) /\ Cat(plain, TextAfter(F[Len(F)])) = Lines(given)
  BY <1>1, AfterWrite
<1> DEFINE f == F[Len(F)]  n == <<Newline>>
<1>4. f \in Frames /\ f.kind = "top" /\ f.in = <<>>
  BY <1>1, <1>2, <1>3, ChainLast
<1> HIDE DEF f, n
<1>5. f.pos \in Nat /\ f.todo \in Seq(Data) /\ f.in \in Seq(Tokens) /\ f.out \in Seq(Texts) /\ n \in Seq(Texts)
  BY <1>4, FrameTypes, MarkTypes DEF n
<1>6. plain' \in Seq(Texts) /\ plain' = Cat(plain, n)
  BY <1>1, <1>2, <1>5, WritesOn DEF Cat, n
<1>7. CASE f.todo = <<>>
  <2>1. InAfter(f) = <<>> /\ TextAfter(f) = n
    BY <1>4, <1>7, FrameOver DEF n
  <2>2. Converted'
    BY <1>1, <1>3, <1>6, <2>1 DEF Converted, f
  <2> QED BY <1>1, <1>2, <1>6, <2>2 DEF VInv
<1>8. CASE f.todo # <<>>
  <2> DEFINE g == Frame(f.kind, f.pos + 1, Tail(f.todo), f.in, f.out)  v == Head(f.todo)
  <2>1. g \in Frames /\ v \in Data /\ InAfter(f) = Cat(Encode(v), InAfter(g))
        /\ TextAfter(f) = Cat(n, Cat(Json(v), TextAfter(g)))
    BY <1>4, <1>8, FrameOn DEF n
  <2>2. g.kind = "top" /\ g.in = <<>>
    BY <1>4 DEF Frame
  <2> HIDE DEF g, v
  <2>3. Cat(plain', Cat(Json(v), TextAfter(g))) = Lines(given)
    <3> DEFINE r == Cat(Json(v), TextAfter(g))
    <3>1. r \in Seq(Texts) /\ Cat(plain, Cat(n, r)) = Lines(given)
      BY <1>3, <2>1, FrameTypes, WrittenTypes, CatIs DEF f
    <3> HIDE DEF r
    <3>2. Cat(Cat(plain, n), r) = Lines(given)
      BY <1>2, <1>5, <3>1, CatIs
    <3> QED BY <1>6, <3>2 DEF r
  <2>4. PICK G : Chain(G, stack') /\ G[Len(G)] = g
    BY <1>1, <2>1, <2>2, ChainTop
  <2>5. Reads(G[Len(G)])'
    BY <1>1, <1>3, <2>1, <2>3, <2>4 DEF Reads, f
  <2>6. Converting'
    BY <1>1, <2>4, <2>5 DEF Converting
  <2> QED BY <1>1, <1>2, <1>6, <2>6 DEF VInv
<1> QED BY <1>7, <1>8

LEMMA CallChanged ==
  ASSUME NEW s \in Calls, NEW n \in Nat, NEW k \in BOOLEAN
  PROVE  [s EXCEPT !.left = n, !.key = k] = [kind |-> s.kind, left |-> n, key |-> k]
<1> DEFINE e == [s EXCEPT !.left = n, !.key = k]  g == [kind |-> s.kind, left |-> n, key |-> k]
<1>1. e \in Calls /\ e.kind = s.kind /\ e.left = n /\ e.key = k
  BY DEF Calls
<1>2. g \in Calls /\ g.kind = s.kind /\ g.left = n /\ g.key = k
  BY DEF Calls
<1>3. \A x, y \in Calls : x.kind = y.kind /\ x.left = y.left /\ x.key = y.key => x = y
  BY DEF Calls
<1> HIDE DEF e, g
<1>4. e = g
  BY <1>1, <1>2, <1>3
<1> QED BY <1>4 DEF e, g

LEMMA AfterItemStep == ASSUME VInv, OInv, AfterItem PROVE VInv' /\ OInv'
<1> DEFINE top == stack[Len(stack)]  c == [kind |-> top.kind, left |-> top.left - 1, key |-> TRUE]  more == stack # <<>> /\ top.left > 1
           end == Punct(IF top.kind = "arr" THEN "]" ELSE "}")
<1>1. /\ result = "run" /\ ~want /\ stack # <<>> /\ (top.kind = "map" /\ top.left > 0 => ~top.key)
      /\ plain' = plain \o <<IF more THEN Punct(",") ELSE end>>
      /\ stack' = (IF more THEN [stack EXCEPT ![Len(stack)] = c] ELSE SubSeq(stack, 1, Len(stack) - 1))
      /\ want' = more /\ given' = given /\ input' = input /\ result' = result
      /\ OInv'
  <2>1. AfterItemIf(more)
    BY DEF AfterItem, AfterItemIf, Top
  <2>2. more => [stack EXCEPT ![Len(stack)].left = @ - 1, ![Len(stack)].key = TRUE] = [stack EXCEPT ![Len(stack)] = c]
    <3>1. VInv /\ result = "run" /\ ~want /\ stack # <<>>
      BY <2>1 DEF AfterItemIf, Running
    <3>2. stack \in Seq(Calls) /\ Len(stack) \in DOMAIN stack
      BY <3>1, AfterWrite
    <3>3. top \in Calls
      BY <3>2
    <3>4. more => [top EXCEPT !.left = @ - 1, !.key = TRUE] = c
      <4> HIDE DEF top
      <4> SUFFICES ASSUME more PROVE [top EXCEPT !.left = @ - 1, !.key = TRUE] = c
        OBVIOUS
      <4>1. top.left - 1 \in Nat
        BY <3>3 DEF Calls
      <4> QED BY <3>3, <4>1, CallChanged
    <3>5. [stack EXCEPT ![Len(stack)].left = @ - 1, ![Len(stack)].key = TRUE]
            = [stack EXCEPT ![Len(stack)] = [top EXCEPT !.left = @ - 1, !.key = TRUE]]
      BY <3>2
    <3> QED BY <3>4, <3>5
  <2> DEFINE k == IF more THEN "," ELSE IF top.kind = "arr" THEN "]" ELSE "}"
  <2>3. /\ result = "run" /\ ~want /\ stack # <<>> /\ (top.kind = "map" /\ top.left > 0 => ~top.key)
        /\ out' = out \o <<Punct(k)>>
        /\ stack' = (IF more THEN [stack EXCEPT ![Len(stack)] = c] ELSE SubSeq(stack, 1, Len(stack) - 1))
        /\ want' = more /\ given' = given /\ input' = input /\ result' = result
    <3> HIDE DEF more, c
    <3> QED BY <2>1, <2>2 DEF AfterItemIf, Running, Top, Writes
  <2>4. plain' = plain \o <<Punct(k)>> /\ out' = AsPrinted(plain')
    <3> HIDE DEF k
    <3> QED BY <2>3, AddsMark
  <2>5. Punct(k) = IF more THEN Punct(",") ELSE end
    OBVIOUS
  <2> HIDE DEF more, c, k, end
  <2> QED BY <2>3, <2>4, <2>5 DEF OInv
<1>2. given \in Seq(Data) /\ plain \in Seq(Texts) /\ stack \in Seq(Calls)
  BY <1>1, AfterWrite
<1>3. PICK F : /\ Chain(F, stack) /\ F[Len(F)] \in Frames
               /\ input = InAfter(F[Len(F)]) /\ Cat(plain, TextAfter(F[Len(F)])) = Lines(given)
  BY <1>1, AfterWrite
<1> DEFINE f == F[Len(F)]
<1>4. Counts(f, top) /\ top \in Calls /\ f \in Frames /\ f.kind \in {"arr", "map"}
  BY <1>1, <1>2, <1>3, ChainLast
<1> HIDE DEF f, top
<1>5. f.pos \in Nat /\ f.todo \in Seq(Data) /\ top.left \in Nat /\ top.kind = f.kind /\ Len(f.todo) \in Nat
      /\ top.key \in BOOLEAN
  BY <1>4, FrameTypes DEF Calls, Counts
<1>6. CASE more
  <2>1. c \in Calls /\ c.kind = top.kind /\ c.left = top.left - 1 /\ c.key = TRUE
    <3>1. top.left - 1 \in Nat
      BY <1>5, <1>6
    <3>2. top.kind \in {"arr", "map"}
      BY <1>4 DEF Calls
    <3> QED BY <3>1, <3>2 DEF Calls
  <2> HIDE DEF c
  <2>2. stack' \in Seq(Calls) /\ Len(stack') = Len(stack) /\ stack'[Len(stack')] = c
        /\ \A j \in 1 .. Len(stack) - 1 : stack'[j] = stack[j]
    <3>1. stack' = [stack EXCEPT ![Len(stack)] = c]
      BY <1>1, <1>6
    <3>2. stack \in Seq(Calls) /\ stack # <<>> /\ c \in Calls
      BY <1>1, <1>2, <2>1
    <3> DEFINE all == [stack EXCEPT ![Len(stack)] = c]
    <3>3. all \in Seq(Calls) /\ Len(all) = Len(stack) /\ all[Len(all)] = c /\ \A j \in 1 .. Len(stack) - 1 : all[j] = stack[j]
      BY ONLY <3>2, StackChanged
    <3> HIDE DEF all
    <3>4. stack' = all
      BY <3>1 DEF all
    <3> QED BY <3>3, <3>4
  <2>3. top.left # 0 /\ top.left > 1
    BY <1>6
  <2>4. f.kind = "arr" => top.left = Len(f.todo) + 1
    <3>1. "arr" # "map"
      OBVIOUS
    <3> QED BY <1>4, <2>3, <3>1 DEF Counts
  <2>5. f.kind = "map" => f.pos % 2 # 1 /\ 2 * top.left = Len(f.todo) + 2
    <3> SUFFICES ASSUME f.kind = "map" PROVE f.pos % 2 # 1 /\ 2 * top.left = Len(f.todo) + 2
      OBVIOUS
    <3>0. top.kind = "map" /\ top.left > 0
      BY <1>5, <2>3
    <3>1. top.key = FALSE /\ f.kind # "arr"
      BY <1>1, <1>5, <3>0
    <3>2. top.key = (f.pos % 2 = 1) /\ 2 * top.left = Len(f.todo) + (IF top.key THEN 1 ELSE 2)
      BY <1>4, <2>3, <3>1 DEF Counts
    <3> QED BY <3>1, <3>2
  <2>6. Len(f.todo) # 0 /\ f.todo # <<>>
    <3> DEFINE n == Len(f.todo)
    <3>1. n \in Nat /\ (f.kind = "arr" => top.left = n + 1) /\ (f.kind = "map" => 2 * top.left = n + 2)
      BY <1>5, <2>4, <2>5
    <3> HIDE DEF n
    <3>2. n # 0
      BY <1>4, <1>5, <2>3, <3>1
    <3> QED BY <3>2 DEF n
  <2>7. f.kind = "map" => (f.pos + 1) % 2 = 1
    <3>1. \A p \in Nat : p % 2 # 1 => (p + 1) % 2 = 1
      OBVIOUS
    <3> QED BY <1>5, <2>5, <3>1
  <2>8. Separator(f.kind, f.pos + 1) = Punct(",")
    <3> DEFINE i == f.pos + 1
    <3>1. f.kind = "map" => i % 2 # 0
      BY <2>7
    <3> HIDE DEF i
    <3>2. Separator(f.kind, i) = Punct(",")
      BY <3>1 DEF Separator
    <3> QED BY <3>2 DEF i
  <2> DEFINE g == Frame(f.kind, f.pos + 1, Tail(f.todo), f.in, f.out)
  <2>9. Counts(g, c)
    <3>1. g.kind = f.kind /\ g.pos = f.pos + 1 /\ g.todo = Tail(f.todo)
      BY DEF Frame
    <3> HIDE DEF g
    <3>2. Len(g.todo) = Len(f.todo) - 1
      <4>1. Len(Tail(f.todo)) = Len(f.todo) - 1
        BY <1>5, <2>6
      <4> QED BY <3>1, <4>1
    <3>3. f.kind = "arr" => c.left = Len(g.todo) + 1
      BY <1>5, <2>1, <2>4, <3>2
    <3>4. f.kind = "map" => 2 * c.left = Len(g.todo) + 1
      BY <1>5, <2>1, <2>5, <3>2
    <3>5. f.kind = "map" => c.key = (g.pos % 2 = 1)
      BY <2>1, <2>7, <3>1
    <3> QED BY <1>4, <1>5, <2>1, <3>1, <3>3, <3>4, <3>5 DEF Counts
  <2>10. plain' = plain \o <<Separator(f.kind, f.pos + 1)>> /\ want' = TRUE
    BY <1>1, <1>6, <2>8
  <2> HIDE DEF more
  <2> QED BY <1>1, <1>2, <1>3, <1>4, <2>2, <2>6, <2>9, <2>10, NextItem DEF f
<1>7. CASE ~more
  <2>1. top.left \in {0, 1}
    <3>1. ~(top.left > 1)
      BY <1>1, <1>7
    <3> QED BY <1>5, <3>1
  <2>2. f.todo = <<>>
    <3> DEFINE n == Len(f.todo)
    <3>1. \/ f.todo = <<>>
          \/ f.kind = "arr" /\ top.left = n + 1
          \/ f.kind = "map" /\ 2 * top.left = n + (IF top.key THEN 1 ELSE 2)
      BY <1>4 DEF Counts
    <3>2. n \in Nat /\ (n = 0 => f.todo = <<>>)
      BY <1>5
    <3> HIDE DEF n
    <3>3. f.kind = "map" => top.left = 0 \/ top.key = FALSE
      <4>1. top.left # 0 => top.left > 0
        BY <1>5
      <4> QED BY <1>1, <1>5, <4>1
    <3>4. CASE f.kind = "arr" /\ top.left = n + 1
      BY <2>1, <3>2, <3>4
    <3>5. CASE f.kind = "map" /\ 2 * top.left = n + (IF top.key THEN 1 ELSE 2)
      <4>1. CASE top.left = 0
        BY <3>2, <3>5, <4>1
      <4>2. CASE top.left = 1
        BY <3>2, <3>3, <3>5, <4>2
      <4> QED BY <2>1, <4>1, <4>2
    <3> QED BY <3>1, <3>4, <3>5
  <2> DEFINE cl == Closing(f.kind)
  <2>3. InAfter(f) = f.in /\ TextAfter(f) = Cat(cl, f.out)
    BY <1>4, <2>2, FrameOver
  <2>4. cl = <<end>> /\ cl \in Seq(Texts)
    <3>1. cl = <<end>>
      BY <1>4, <1>5 DEF Closing
    <3> QED BY <3>1, MarkTypes
  <2> HIDE DEF cl, end
  <2>5. plain' = plain \o cl /\ want' = FALSE /\ stack' = SubSeq(stack, 1, Len(stack) - 1)
    <3>1. (IF more THEN Punct(",") ELSE end) = end /\ more = FALSE
      BY <1>7
    <3> HIDE DEF more
    <3>2. plain' = plain \o <<end>>
      BY <1>1, <3>1
    <3>3. want' = FALSE /\ stack' = SubSeq(stack, 1, Len(stack) - 1)
      BY <1>1, <3>1
    <3> QED BY <2>4, <3>2, <3>3
  <2>6. PICK G : /\ Chain(G, stack')
                 /\ f.in = InAfter(G[Len(G)]) /\ f.out = TextAfter(G[Len(G)])
    BY <1>1, <1>2, <1>3, <2>5, ChainPop DEF f
  <2>7. stack' \in Seq(Calls)
    BY <1>1, <1>2, <1>3, <2>5, ChainPop
  <2>8. plain' \in Seq(Texts) /\ Cat(plain', f.out) = Lines(given)
    <3> DEFINE r == f.out
    <3>1. r \in Seq(Texts) /\ Cat(plain, Cat(cl, r)) = Lines(given)
      BY <1>3, <1>4, <2>3, FrameTypes DEF f
    <3> HIDE DEF r
    <3>2. plain \o cl \in Seq(Texts) /\ Cat(plain \o cl, r) = Cat(plain, Cat(cl, r))
      <4>1. plain \in Seq(Texts) /\ cl \in Seq(Texts) /\ r \in Seq(Texts)
        BY <1>2, <2>4, <3>1
      <4> QED BY <4>1, WritesOn
    <3> QED BY <2>5, <3>1, <3>2 DEF r
  <2>9. Wrote(G[Len(G)])'
    BY <1>1, <1>3, <2>3, <2>6, <2>8 DEF Wrote, f
  <2>10. Converting'
    BY <2>5, <2>6, <2>9 DEF Converting
  <2> QED BY <1>1, <1>2, <2>5, <2>7, <2>8, <2>10 DEF VInv
<1> QED BY <1>6, <1>7

LEMMA ConvertStays == ASSUME VInv, OInv, UNCHANGED converter PROVE VInv' /\ OInv'
<1>1. given' = given /\ input' = input /\ plain' = plain /\ stack' = stack /\ want' = want /\ result' = result
      /\ OInv'
  BY DEF converter, OInv, plain
<1>2. Converted' <=> Converted
  BY <1>1 DEF Converted
<1>3. Converting' <=> Converting
  BY <1>1 DEF Converting, Reads, Wrote
<1> QED BY <1>1, <1>2, <1>3 DEF VInv

LEMMA ConvertStepStays == ASSUME VInv, OInv, ConvertStep PROVE VInv' /\ OInv'
BY ReadScalarStep, ReadHeadStep, AfterKeyStep, AfterItemStep, AfterValueStep, AtEOFStep DEF ConvertStep

LEMMA SeqBeginning ==
  ASSUME NEW S, NEW q \in Seq(S), NEW k \in 0 .. Len(q)
  PROVE  SubSeq(q, 1, k) \in Seq(S) /\ Len(SubSeq(q, 1, k)) = k /\ \A i \in 1 .. k : SubSeq(q, 1, k)[i] = q[i]
OBVIOUS

LEMMA PrefixPrinted ==
  ASSUME NEW p \in Seq(Texts), NEW r \in Seq(Texts)
  PROVE  IsPrefix(AsPrinted(p), AsPrinted(p \o r))
<1> DEFINE all == p \o r  n == Len(p)  m == Len(r)  U == {InGo(t) : t \in Texts}  o == AsPrinted(p)  w == AsPrinted(all)
<1>1. n \in Nat /\ m \in Nat /\ p \in Seq(Texts) /\ all \in Seq(Texts) /\ Len(all) = n + m
      /\ \A i \in 1 .. n : all[i] = p[i]
  OBVIOUS
<1> HIDE DEF all
<1>2. o = [i \in 1 .. n |-> InGo(p[i])] /\ w = [i \in 1 .. n + m |-> InGo(all[i])]
  BY <1>1 DEF AsPrinted, InGo
<1>3. (\A i \in 1 .. n : InGo(p[i]) \in U) /\ (\A i \in 1 .. n + m : InGo(all[i]) \in U)
  BY <1>1
<1>n. n \in Nat /\ m \in Nat
  BY <1>1
<1> HIDE DEF n, m, U, o, w
<1>4. o \in Seq(U) /\ w \in Seq(U) /\ Len(o) = n /\ Len(w) = n + m /\ \A i \in 1 .. n : w[i] = o[i]
  <2>1. o \in Seq(U) /\ Len(o) = n
    BY <1>n, <1>2, <1>3
  <2>2. w \in Seq(U) /\ Len(w) = n + m
    BY <1>n, <1>2, <1>3
  <2>3. \A i \in 1 .. n : w[i] = o[i]
    <3> SUFFICES ASSUME NEW i \in 1 .. n PROVE w[i] = o[i]
      OBVIOUS
    <3>1. i \in 1 .. n + m /\ all[i] = p[i]
      BY <1>n, <1>1 DEF n
    <3>2. o[i] = InGo(p[i]) /\ w[i] = InGo(all[i])
      BY <1>2, <3>1
    <3> QED BY <3>1, <3>2
  <2> QED BY <2>1, <2>2, <2>3
<1>5. SubSeq(w, 1, n) \in Seq(U) /\ Len(SubSeq(w, 1, n)) = n /\ \A i \in 1 .. n : SubSeq(w, 1, n)[i] = o[i]
  <2>1. n \in 0 .. Len(w)
    BY <1>n, <1>4
  <2>2. SubSeq(w, 1, n) \in Seq(U) /\ Len(SubSeq(w, 1, n)) = n /\ \A i \in 1 .. n : SubSeq(w, 1, n)[i] = w[i]
    BY <1>4, <2>1, SeqBeginning
  <2> QED BY <1>4, <2>2
<1>6. SubSeq(w, 1, n) = o
  BY <1>4, <1>5, SeqEqual
<1>7. SubSeq(o, 1, Len(o)) = o
  BY <1>4
<1>8. Len(o) <= Len(w)
  BY <1>n, <1>4
<1>9. IsPrefix(o, w)
  BY <1>4, <1>6, <1>7, <1>8 DEF IsPrefix
<1> QED BY <1>9 DEF o, w, all

(* What was written at any time is a beginning of what is to be written.     *)
LEMMA VInvConverts == VInv /\ OInv => ConvertsExactly
<1> SUFFICES ASSUME VInv, OInv, result # "none"
             PROVE  /\ IsPrefix(out, AsPrinted(Lines(given)))
                    /\ result = "ok" => out = AsPrinted(Lines(given)) /\ stack = <<>>
  BY DEF ConvertsExactly
<1>0. out = AsPrinted(plain)
  BY DEF OInv
<1>1. given \in Seq(Data) /\ plain \in Seq(Texts) /\ stack \in Seq(Calls)
      /\ (Converted \/ (Converting /\ result = "run"))
  BY DEF VInv
<1>2. result = "ok" => plain = Lines(given) /\ stack = <<>>
  BY <1>1 DEF Converted
<1>3. \E r \in Seq(Texts) : Lines(given) = Cat(plain, r)
  <2>1. CASE Converted
    <3>1. plain = Cat(plain, <<>>) /\ <<>> \in Seq(Texts)
      BY <1>1, CatNone
    <3> QED BY <2>1, <3>1 DEF Converted
  <2>2. CASE Converting
    <3>1. PICK F : Chain(F, stack) /\ (IF want THEN Reads(F[Len(F)]) ELSE Wrote(F[Len(F)]))
      BY <2>2 DEF Converting
    <3> DEFINE t == TextAfter(F[Len(F)])
    <3>2. t \in Seq(Texts)
      BY <1>1, <3>1, ChainLast, FrameTypes
    <3>3. CASE want
      <4>1. PICK v \in Data : Cat(plain, Cat(Json(v), t)) = Lines(given)
        BY <3>1, <3>3 DEF Reads
      <4>2. Json(v) \in Seq(Texts)
        BY WrittenTypes
      <4> HIDE DEF t
      <4>3. Cat(Json(v), t) \in Seq(Texts)
        BY <3>2, <4>2, CatIs
      <4> QED BY <4>1, <4>3
    <3>4. CASE ~want
      BY <3>1, <3>2, <3>4 DEF Wrote
    <3> QED BY <3>3, <3>4
  <2> QED BY <1>1, <2>1, <2>2
<1>4. PICK r \in Seq(Texts) : Lines(given) = plain \o r
  BY <1>3 DEF Cat
<1>5. IsPrefix(AsPrinted(plain), AsPrinted(plain \o r))
  BY <1>1, PrefixPrinted
<1> QED BY <1>0, <1>2, <1>4, <1>5

-----------------------------------------------------------------------------
(* The manifest: what is listed while kettlingar's own services and the      *)
(* first of the application are registered.                                  *)

OneApi(m) == IF IsApi(m) THEN <<m>> ELSE <<>>
FirstOf(ms, k) == SubSeq(ms, 1, k)
ListedUpTo(k)  == FlattenSeq([s \in 1 .. k |-> Apis(services[s].methods)])

(* The group that the docs of the first services give to a name. *)
Givers(k, name)  == {s \in 1 .. k : name \in DOMAIN services[s].docs /\ services[s].docs[name] # NoGroup}
GroupOf(k, name) == IF Givers(k, name) = {} THEN NoGroup ELSE services[Max(Givers(k, name))].docs[name]

LEMMA AppendIs ==
  ASSUME NEW S, NEW f \in Seq(S), NEW x \in S, NEW n \in Nat, Len(f) = n
  PROVE  Append(f, x) = [i \in 1 .. n + 1 |-> IF i = n + 1 THEN x ELSE f[i]]
<1> DEFINE g == [i \in 1 .. n + 1 |-> IF i = n + 1 THEN x ELSE f[i]]  a == Append(f, x)
<1>1. a \in Seq(S) /\ Len(a) = n + 1 /\ a[n + 1] = x /\ \A i \in 1 .. n : a[i] = f[i]
  OBVIOUS
<1>2. \A i \in 1 .. n + 1 : i = n + 1 \/ i \in 1 .. n
  OBVIOUS
<1>3. \A i \in 1 .. n + 1 : g[i] = a[i]
  BY <1>1, <1>2
<1>4. a = [i \in 1 .. n + 1 |-> a[i]]
  <2> HIDE DEF a
  <2>1. a = [i \in 1 .. Len(a) |-> a[i]]
    BY <1>1
  <2> QED BY <1>1, <2>1
<1> QED BY <1>3, <1>4

LEMMA ApisAre ==
  ASSUME NEW ms \in Seq(Methods)
  PROVE  /\ Apis(ms) \in Seq(Methods) /\ Apis(<<>>) = <<>> /\ FirstOf(ms, 0) = <<>> /\ FirstOf(ms, Len(ms)) = ms
         /\ \A k \in 0 .. Len(ms) : Apis(FirstOf(ms, k)) \in Seq(Methods)
         /\ \A k \in 1 .. Len(ms) :
              Apis(FirstOf(ms, k)) = IF IsApi(ms[k]) THEN Append(Apis(FirstOf(ms, k - 1)), ms[k])
                                     ELSE Apis(FirstOf(ms, k - 1))
<1>1. ASSUME NEW t \in Seq(Methods)
      PROVE  [i \in DOMAIN t |-> OneApi(t[i])] \in Seq(Seq(Methods)) /\ Apis(t) \in Seq(Methods)
  <2> DEFINE f == [i \in DOMAIN t |-> OneApi(t[i])]
  <2>1. Len(t) \in Nat /\ DOMAIN t = 1 .. Len(t) /\ \A i \in 1 .. Len(t) : t[i] \in Methods
    OBVIOUS
  <2>2. \A i \in 1 .. Len(t) : f[i] \in Seq(Methods)
    BY <2>1 DEF OneApi
  <2>3. f = [i \in 1 .. Len(t) |-> f[i]]
    BY <2>1
  <2>4. Apis(t) = FlattenSeq(f)
    BY DEF Apis, OneApi
  <2> HIDE DEF f
  <2>5. f \in Seq(Seq(Methods))
    BY <2>1, <2>2, <2>3, SequenceIs
  <2>6. FlattenSeq(f) \in Seq(Methods)
    BY <2>5, Flattened
  <2> QED BY <2>4, <2>5, <2>6 DEF f
<1>2. Apis(<<>>) = <<>>
  <2>1. [i \in DOMAIN <<>> |-> IF IsApi(<<>>[i]) THEN <<<<>>[i]>> ELSE <<>>] = <<>>
    OBVIOUS
  <2> QED BY <2>1, FlattenNone DEF Apis
<1>3. FirstOf(ms, 0) = <<>> /\ FirstOf(ms, Len(ms)) = ms /\ \A k \in 0 .. Len(ms) : FirstOf(ms, k) \in Seq(Methods)
  BY DEF FirstOf
<1>4. ASSUME NEW k \in 1 .. Len(ms)
      PROVE  Apis(FirstOf(ms, k)) = IF IsApi(ms[k]) THEN Append(Apis(FirstOf(ms, k - 1)), ms[k])
                                    ELSE Apis(FirstOf(ms, k - 1))
  <2> DEFINE t == FirstOf(ms, k - 1)  f == [i \in DOMAIN t |-> OneApi(t[i])]
             u == FirstOf(ms, k)  g == [i \in DOMAIN u |-> OneApi(u[i])]  x == OneApi(ms[k])
  <2>1. k - 1 \in 0 .. Len(ms) /\ k \in Nat /\ t \in Seq(Methods) /\ ms[k] \in Methods
    BY <1>3
  <2>2. /\ Len(t) = k - 1 /\ DOMAIN t = 1 .. k - 1 /\ (\A i \in 1 .. k - 1 : t[i] = ms[i])
        /\ Len(u) = k /\ DOMAIN u = 1 .. k /\ (\A i \in 1 .. k : u[i] = ms[i])
    BY <2>1 DEF FirstOf
  <2>3. f \in Seq(Seq(Methods)) /\ Len(f) = k - 1 /\ x \in Seq(Methods) /\ Apis(t) \in Seq(Methods)
    BY <1>1, <2>1, <2>2 DEF OneApi
  <2>4. g = Append(f, x)
    <3>1. g = [i \in 1 .. k |-> OneApi(ms[i])]
      BY <2>2
    <3>2. f = [i \in 1 .. k - 1 |-> OneApi(ms[i])]
      BY <2>2
    <3>3. Append(f, x) = [i \in 1 .. (k - 1) + 1 |-> IF i = (k - 1) + 1 THEN x ELSE f[i]]
      <4> HIDE DEF f, x
      <4> QED BY <2>1, <2>3, AppendIs
    <3>4. (k - 1) + 1 = k /\ \A i \in 1 .. k : i # k => i \in 1 .. k - 1
      BY <2>1
    <3> QED BY <3>1, <3>2, <3>3, <3>4
  <2>5. Apis(u) = FlattenSeq(g) /\ Apis(t) = FlattenSeq(f)
    BY DEF Apis, OneApi
  <2> HIDE DEF f, g, t, u, x
  <2>6. FlattenSeq(g) = FlattenSeq(f) \o x
    BY <2>3, <2>4, FlattenAppend
  <2>7. CASE IsApi(ms[k])
    <3>1. x = <<ms[k]>>
      BY <2>7 DEF x, OneApi
    <3>2. Apis(t) \o <<ms[k]>> = Append(Apis(t), ms[k])
      BY <2>1, <2>3
    <3> QED BY <2>5, <2>6, <2>7, <3>1, <3>2 DEF t, u
  <2>8. CASE ~IsApi(ms[k])
    <3>1. x = <<>>
      BY <2>8 DEF x, OneApi
    <3>2. Apis(t) \o <<>> = Apis(t)
      BY <2>3
    <3> QED BY <2>5, <2>6, <2>8, <3>1, <3>2 DEF t, u
  <2> QED BY <2>7, <2>8
<1> QED BY <1>1, <1>2, <1>3, <1>4

LEMMA ListedNext ==
  ASSUME Typed
  PROVE  /\ ListedUpTo(0) = <<>>
         /\ \A k \in 0 .. Count : ListedUpTo(k) \in Seq(Methods)
         /\ \A k \in 1 .. Count : ListedUpTo(k) = ListedUpTo(k - 1) \o Apis(services[k].methods)
<1> DEFINE f(k) == [s \in 1 .. k |-> Apis(services[s].methods)]
<1>1. Count \in Nat
  BY Facts
<1>2. \A s \in 1 .. Count : Apis(services[s].methods) \in Seq(Methods)
  BY ApisAre DEF Typed, ServicesTyped, IsService
<1>3. ASSUME NEW k \in 0 .. Count PROVE f(k) \in Seq(Seq(Methods)) /\ Len(f(k)) = k
  <2>1. k \in Nat /\ f(k) = [s \in 1 .. k |-> f(k)[s]] /\ \A s \in 1 .. k : f(k)[s] \in Seq(Methods)
    BY <1>1, <1>2
  <2> HIDE DEF f
  <2>2. f(k) \in Seq(Seq(Methods))
    BY <2>1, SequenceIs
  <2> QED BY <2>1, <2>2
<1>4. ListedUpTo(0) = <<>>
  <2>1. f(0) = <<>>
    OBVIOUS
  <2> QED BY <2>1, FlattenNone DEF ListedUpTo
<1>5. ASSUME NEW k \in 0 .. Count PROVE ListedUpTo(k) \in Seq(Methods)
  <2> HIDE DEF f
  <2>1. FlattenSeq(f(k)) \in Seq(Methods)
    BY <1>3, Flattened
  <2> QED BY <2>1 DEF ListedUpTo, f
<1>6. ASSUME NEW k \in 1 .. Count PROVE ListedUpTo(k) = ListedUpTo(k - 1) \o Apis(services[k].methods)
  <2> DEFINE x == Apis(services[k].methods)  a == f(k - 1)
  <2>1. k - 1 \in 0 .. Count /\ k \in Nat /\ (k - 1) + 1 = k
    BY <1>1
  <2>2. a \in Seq(Seq(Methods)) /\ Len(a) = k - 1 /\ x \in Seq(Methods)
    <3> HIDE DEF f
    <3> QED BY <1>2, <1>3, <2>1
  <2>3. f(k) = Append(a, x)
    <3>1. Append(a, x) = [i \in 1 .. (k - 1) + 1 |-> IF i = (k - 1) + 1 THEN x ELSE a[i]]
      <4> HIDE DEF a, x
      <4>1. k - 1 \in Nat
        BY <2>1
      <4> QED BY <2>2, <4>1, AppendIs
    <3>2. \A i \in 1 .. k : i # k => i \in 1 .. k - 1
      BY <2>1
    <3> QED BY <2>1, <3>1, <3>2
  <2> HIDE DEF f, a, x
  <2>4. FlattenSeq(f(k)) = FlattenSeq(a) \o x
    BY <2>2, <2>3, FlattenAppend
  <2> QED BY <2>4 DEF ListedUpTo, f, a, x
<1> QED BY <1>4, <1>5, <1>6

LEMMA GroupNext ==
  ASSUME NEW k \in Nat, NEW name
  PROVE  /\ GroupOf(0, name) = NoGroup
         /\ GroupOf(k + 1, name) = IF name \in DOMAIN services[k + 1].docs /\ services[k + 1].docs[name] # NoGroup
                                   THEN services[k + 1].docs[name] ELSE GroupOf(k, name)
<1> DEFINE gives == name \in DOMAIN services[k + 1].docs /\ services[k + 1].docs[name] # NoGroup
<1>1. Givers(0, name) = {}
  BY DEF Givers
<1>2. k + 1 \in 1 .. k + 1 /\ k + 1 \in Nat /\ \A s \in 1 .. k + 1 : s # k + 1 => s \in 1 .. k
  OBVIOUS
<1>3. CASE gives
  <2> DEFINE S == Givers(k + 1, name)
  <2>1. k + 1 \in S /\ S \subseteq 1 .. k + 1
    BY <1>2, <1>3 DEF Givers
  <2> HIDE DEF S
  <2>2. Max(S) \in S /\ \A y \in S : y <= Max(S)
    BY <1>2, <2>1, MaxIs
  <2>3. Max(S) = k + 1
    <3> DEFINE m == Max(S)
    <3>1. m \in 1 .. k + 1 /\ k + 1 <= m
      BY <2>1, <2>2
    <3> HIDE DEF m
    <3>2. m = k + 1
      BY <3>1
    <3> QED BY <3>2 DEF m
  <2> QED BY <1>1, <1>3, <2>1, <2>3 DEF GroupOf, S
<1>4. CASE ~gives
  <2>1. Givers(k + 1, name) = Givers(k, name)
    BY <1>2, <1>4 DEF Givers
  <2> QED BY <1>1, <1>4, <2>1 DEF GroupOf
<1> QED BY <1>3, <1>4

(* The manifest has the methods so far, and their groups so far: while docs  *)
(* are gone through, the names that are left may have the earlier group.     *)
Matches(ms) ==
  /\ DOMAIN registry = 1 .. Len(ms)
  /\ \A i \in 1 .. Len(ms) : registry[i].name = dashedName(ms[i].name) /\ registry[i].args = ms[i].args

SoFar == IF InDocs THEN ListedUpTo(svc)
         ELSE ListedUpTo(svc - 1) \o Apis(FirstOf(services[svc].methods, method - 1))

Grouped(e) == \/ e.group = GroupOf(svc, e.name)
              \/ e.group = GroupOf(svc - 1, e.name) /\ (InDocs => e.name \in docsLeft)

MInv ==
  /\ phase # "client" => \E program \in Programs : services = Own \o program
  /\ Registering /\ svc <= Made => Matches(SoFar) /\ \A i \in DOMAIN registry : Grouped(registry[i])
  /\ phase = "version" =>
       /\ svc = Made + 1 /\ Made <= Count /\ Matches(ListedUpTo(Made))
       /\ \A i \in DOMAIN registry : registry[i].group = GroupOf(Made, registry[i].name)

LEMMA SameServices ==
  ASSUME services' = services
  PROVE  /\ \A k : ListedUpTo(k)' = ListedUpTo(k)
         /\ \A k, name : GroupOf(k, name)' = GroupOf(k, name)
BY DEF ListedUpTo, GroupOf, Givers

(* A step after which nothing is claimed of the manifest. *)
LEMMA MPast ==
  ASSUME MInv, services' = services, phase = "client" => phase' = "client", phase' # "version",
         ~(phase' = "register" /\ svc' <= Made)
  PROVE  MInv'
<1>1. phase' # "client" => \E program \in Programs : services' = Own \o program
  BY DEF MInv
<1>2. ~(Registering' /\ svc' <= Made)
  BY DEF Registering
<1> QED BY <1>1, <1>2 DEF MInv

LEMMA InitMInv == Init => MInv
<1> SUFFICES ASSUME Init PROVE MInv
  OBVIOUS
<1>1. svc = 1 /\ method = 1 /\ docsLeft = {} /\ registry = <<>> /\ phase \in {"register", "client"}
      /\ (phase = "client" \/ \E program \in Programs : services = Own \o program)
  BY DEF Init
<1>2. DOMAIN registry = {}
  BY <1>1
<1>3. ASSUME Registering PROVE Matches(SoFar)
  <2>1. Typed
    BY InitIInv DEF IInv
  <2>2. svc \in 1 .. Count /\ services[svc].methods \in Seq(Methods) /\ Len(services[svc].methods) \in Nat
    BY <1>1, <1>3, <2>1 DEF Registering, Count, Typed, ServicesTyped, IsService
  <2>3. ~InDocs
    BY <1>1, <2>2 DEF InDocs
  <2>4. SoFar = ListedUpTo(0) \o Apis(FirstOf(services[svc].methods, 0))
    BY <1>1, <2>3 DEF SoFar
  <2>5. ListedUpTo(0) = <<>>
    BY <2>1, ListedNext
  <2>6. Apis(FirstOf(services[svc].methods, 0)) = <<>>
    BY <2>2, ApisAre
  <2>7. SoFar = <<>>
    BY <2>4, <2>5, <2>6
  <2> QED BY <1>1, <2>7 DEF Matches
<1> QED BY <1>1, <1>2, <1>3 DEF MInv

(* While kettlingar's own services and the first of the program register. *)
LEMMA MFacts ==
  ASSUME IInv, MInv, Registering, svc <= Made
  PROVE  /\ svc \in 1 .. Count /\ svc \in Nat \ {0} /\ method \in Nat \ {0} /\ Count \in Nat
         /\ services[svc].methods \in Seq(Methods) /\ LastOf(svc) \in Nat /\ LastOf(svc) = Len(services[svc].methods)
         /\ method <= LastOf(svc) + 2 /\ (InDocs <=> method = LastOf(svc) + 2)
         /\ ListedUpTo(svc - 1) \in Seq(Methods) /\ ListedUpTo(svc) = ListedUpTo(svc - 1) \o Apis(services[svc].methods)
         /\ ListedUpTo(svc) \in Seq(Methods)
         /\ Matches(SoFar) /\ \A i \in DOMAIN registry : Grouped(registry[i])
<1>1. /\ svc \in 1 .. Count /\ svc \in Nat \ {0} /\ method \in Nat \ {0} /\ Count \in Nat
      /\ services[svc].methods \in Seq(Methods) /\ LastOf(svc) = Len(services[svc].methods)
      /\ method <= LastOf(svc) + 2 /\ (InDocs <=> method = LastOf(svc) + 2)
  BY Facts DEF IInv, Typed, ServicesTyped, IsService, Registering, Count, LastOf, InDocs
<1>2. svc - 1 \in 0 .. Count /\ svc \in 0 .. Count
  BY <1>1
<1>3. ListedUpTo(svc - 1) \in Seq(Methods) /\ ListedUpTo(svc) = ListedUpTo(svc - 1) \o Apis(services[svc].methods)
      /\ ListedUpTo(svc) \in Seq(Methods)
  BY <1>1, <1>2, ListedNext DEF IInv
<1> QED BY <1>1, <1>3 DEF MInv

(* The list after one more method was looked at. *)
LEMMA SoFarNext ==
  ASSUME IInv, MInv, AtMethod, svc <= Made, services' = services, svc' = svc, method' = method + 1, phase' = phase
  PROVE  /\ ~InDocs /\ ~InDocs' /\ SoFar \in Seq(Methods) /\ Current \in Methods
         /\ SoFar' = IF IsApi(Current) THEN Append(SoFar, Current) ELSE SoFar
<1>1. /\ svc \in 1 .. Count /\ method \in Nat \ {0} /\ LastOf(svc) = Len(services[svc].methods) /\ LastOf(svc) \in Nat
      /\ services[svc].methods \in Seq(Methods) /\ (InDocs <=> method = LastOf(svc) + 2)
      /\ ListedUpTo(svc - 1) \in Seq(Methods) /\ method \in 1 .. LastOf(svc) /\ Current \in Methods
  BY AtCurrent, MFacts DEF AtMethod, IInv
<1> DEFINE ms == services[svc].methods  a == ListedUpTo(svc - 1)  b == Apis(FirstOf(ms, method - 1))
           c == Apis(FirstOf(ms, method))
<1>2. ~InDocs /\ ~InDocs'
  BY <1>1 DEF InDocs, Registering
<1>3. SoFar = a \o b /\ SoFar' = a \o c
  <2>1. (method + 1) - 1 = method
    BY <1>1
  <2>2. ListedUpTo(svc - 1)' = ListedUpTo(svc - 1)
    BY DEF ListedUpTo
  <2> QED BY <1>2, <2>1, <2>2 DEF SoFar
<1>4. /\ b \in Seq(Methods)
      /\ c = IF IsApi(ms[method]) THEN Append(b, ms[method]) ELSE b
  <2>1. method \in 1 .. Len(ms) /\ method - 1 \in 0 .. Len(ms)
    BY <1>1
  <2> HIDE DEF ms
  <2> QED BY <1>1, <2>1, ApisAre DEF ms
<1>5. ms[method] = Current
  BY DEF Current
<1> HIDE DEF a, b, c, ms
<1>6. a \in Seq(Methods)
  BY <1>1 DEF a
<1>7. a \o b \in Seq(Methods) /\ a \o Append(b, Current) = Append(a \o b, Current)
  <2> DEFINE m == Current
  <2>1. a \in Seq(Methods) /\ b \in Seq(Methods) /\ m \in Methods
    BY <1>1, <1>4, <1>6
  <2> HIDE DEF m
  <2>2. <<m>> \in Seq(Methods) /\ Append(b, m) = b \o <<m>>
    BY ONLY <2>1
  <2>3. (a \o b) \o <<m>> = a \o (b \o <<m>>) /\ a \o b \in Seq(Methods)
    BY <2>1, <2>2, ConcatAssociative, ConcatProperties
  <2>4. Append(a \o b, m) = (a \o b) \o <<m>>
    <3> DEFINE ab == a \o b
    <3>1. ab \in Seq(Methods)
      BY <2>3
    <3> HIDE DEF ab
    <3>2. Append(ab, m) = ab \o <<m>>
      BY ONLY <2>1, <3>1
    <3> QED BY <3>2 DEF ab
  <2> QED BY <2>2, <2>3, <2>4 DEF m
<1> QED BY <1>1, <1>2, <1>3, <1>4, <1>5, <1>7

LEMMA MSkip == ASSUME IInv, MInv, SkipMethod PROVE MInv'
<1>1. /\ AtMethod /\ ~IsApi(Current) /\ method' = method + 1 /\ phase = "register"
      /\ UNCHANGED <<services, phase, svc, docsLeft, registry, routes>>
  BY DEF SkipMethod, AtMethod, Registering
<1>2. CASE svc <= Made
  <2>1. ~InDocs /\ ~InDocs' /\ SoFar' = SoFar
    BY <1>1, <1>2, SoFarNext
  <2>2. Matches(SoFar) /\ \A i \in DOMAIN registry : Grouped(registry[i])
    BY <1>1, <1>2 DEF MInv, AtMethod
  <2>3. \A i \in DOMAIN registry : Grouped(registry[i])'
    BY <1>1, <2>1, <2>2, SameServices DEF Grouped
  <2>4. Matches(SoFar)'
    BY <1>1, <2>1, <2>2 DEF Matches
  <2> QED BY <1>1, <2>3, <2>4 DEF MInv
<1>3. CASE ~(svc <= Made)
  BY <1>1, <1>3, MPast
<1> QED BY <1>2, <1>3

(* The first services are kettlingar's own, and have one method each. *)
LEMMA OwnFirst ==
  ASSUME NEW program \in Programs, services = Own \o program
  PROVE  services[1] = DefaultMethods /\ services[2] = MetricsMethods
<1>1. program \in Seq(Range(program))
  BY ProgramsKnown
<1>2. Own[1] = DefaultMethods /\ Own[2] = MetricsMethods
  BY DEF Own
<1> DEFINE S == {DefaultMethods, MetricsMethods}
<1>3. Own \in Seq(S) /\ Len(Own) = 2
  BY OwnServices
<1> HIDE DEF S
<1>4. Own \in Seq(S \union Range(program)) /\ program \in Seq(S \union Range(program))
  BY <1>1, <1>3
<1>5. 1 \in 1 .. Len(Own) /\ 2 \in 1 .. Len(Own)
  BY <1>3
<1>6. (Own \o program)[1] = Own[1] /\ (Own \o program)[2] = Own[2]
  BY <1>4, <1>5
<1> QED BY <1>2, <1>6

LEMMA OwnNamed ==
  /\ Len(DefaultMethods.methods) = 1 /\ IsApi(DefaultMethods.methods[1])
  /\ DefaultMethods.methods[1].name = Ping /\ DOMAIN DefaultMethods.docs = {dashedName(Ping)}
  /\ Len(MetricsMethods.methods) = 1 /\ IsApi(MetricsMethods.methods[1])
  /\ MetricsMethods.methods[1].name = Scrape /\ DOMAIN MetricsMethods.docs = {dashedName(Scrape)}
BY DEF DefaultMethods, MetricsMethods, Service, Method, IsApi

(* Their docs say something of no other names than their own. *)
LEMMA OwnListed ==
  ASSUME IInv, MInv, Registering, svc <= Made, NEW s \in 1 .. (svc - 1)
  PROVE  DOMAIN services[s].docs \subseteq DOMAIN routes
<1>1. svc \in 1 .. Count /\ svc \in Nat /\ Count \in Nat /\ phase = "register"
  BY MFacts DEF Registering
<1>2. s \in {1, 2} /\ s < svc /\ s \in 1 .. Count /\ s \in 1 .. Made
  BY <1>1, MadeIs
<1>3. PICK program \in Programs : services = Own \o program
  BY <1>1 DEF MInv
<1> DEFINE m == services[s].methods[1]
<1>4. Len(services[s].methods) = 1 /\ IsApi(m) /\ DOMAIN services[s].docs = {dashedName(m.name)}
  BY <1>2, <1>3, OwnFirst, OwnNamed
<1>5. \A j : ~Bad(s, j)
  BY <1>1, <1>2 DEF IInv, Failed
<1>6. 1 \in 1 .. LastOf(s) /\ IsApi(M(s, 1))
  BY <1>4 DEF LastOf, M
<1>7. Taken(s, 1)
  BY <1>2, <1>5, <1>6 DEF IInv, Passed
<1>8. PICK name \in DOMAIN routes : routes[name].svc = s /\ routes[name].idx = 1
  BY <1>7 DEF Taken
<1>9. dashedName(Target(name).name) = name /\ Target(name) = m
  BY <1>8 DEF IInv, Routed, Target
<1> QED BY <1>4, <1>8, <1>9

(* No docs gave a group to a name that is not served yet. *)
LEMMA NotGiven ==
  ASSUME IInv, MInv, Registering, svc <= Made, NEW name, name \notin DOMAIN routes
  PROVE  GroupOf(svc - 1, name) = NoGroup
<1>1. \A s \in 1 .. (svc - 1) : name \notin DOMAIN services[s].docs
  BY OwnListed
<1>2. Givers(svc - 1, name) = {}
  BY <1>1 DEF Givers
<1> QED BY <1>2 DEF GroupOf

LEMMA MRegister == ASSUME IInv, MInv, RegisterMethod PROVE MInv'
<1>1. /\ AtMethod /\ IsApi(Current) /\ dashedName(Current.name) \notin DOMAIN routes
      /\ registry' = Append(registry, Describe(Current, services[svc]))
      /\ method' = method + 1 /\ phase = "register"
      /\ UNCHANGED <<services, phase, svc, docsLeft>>
  BY DEF RegisterMethod, AtMethod, Registering
<1>2. CASE svc <= Made
  <2> DEFINE d == dashedName(Current.name)  e == Describe(Current, services[svc])  n == Len(SoFar)
  <2>1. ~InDocs /\ ~InDocs' /\ SoFar \in Seq(Methods) /\ Current \in Methods /\ SoFar' = Append(SoFar, Current)
    BY <1>1, <1>2, SoFarNext
  <2>2. Registering /\ Matches(SoFar) /\ \A i \in DOMAIN registry : Grouped(registry[i])
    BY <1>1, <1>2 DEF MInv, AtMethod
  <2>3. svc \in Nat \ {0} /\ (svc - 1) + 1 = svc /\ svc - 1 \in Nat
    BY <1>2, <2>2, MFacts
  <2>4. e.name = d /\ e.args = Current.args
        /\ e.group = IF d \in DOMAIN services[svc].docs THEN services[svc].docs[d] ELSE NoGroup
    BY DEF Describe
  <2>5. e.group = GroupOf(svc, d)
    <3>1. GroupOf(svc - 1, d) = NoGroup
      BY <1>1, <1>2, <2>2, NotGiven
    <3>2. GroupOf(svc, d) = IF d \in DOMAIN services[svc].docs /\ services[svc].docs[d] # NoGroup
                            THEN services[svc].docs[d] ELSE GroupOf(svc - 1, d)
      <4> HIDE DEF d
      <4>1. GroupOf((svc - 1) + 1, d) =
              IF d \in DOMAIN services[(svc - 1) + 1].docs /\ services[(svc - 1) + 1].docs[d] # NoGroup
              THEN services[(svc - 1) + 1].docs[d] ELSE GroupOf(svc - 1, d)
        BY <2>3, GroupNext
      <4> QED BY <2>3, <4>1
    <3> QED BY <2>4, <3>1, <3>2
  <2>6. DOMAIN registry = 1 .. n /\ n \in Nat
    BY <2>1, <2>2 DEF Matches
  <2>7. /\ DOMAIN registry' = 1 .. n + 1
        /\ \A i \in 1 .. n : registry'[i] = registry[i]
        /\ registry'[n + 1] = e
    <3>1. PICK N, G : registry \in Seq(EntryType(N, G))
      BY DEF IInv, Typed
    <3>2. Len(registry) = n
      BY <2>6, <3>1
    <3> HIDE DEF e, n
    <3> QED BY <1>1, <3>1, <3>2, <2>6 DEF e
  <2>8. /\ Len(SoFar') = n + 1
        /\ \A i \in 1 .. n : SoFar'[i] = SoFar[i]
        /\ SoFar'[n + 1] = Current
    BY <2>1
  <2>9. \A i \in 1 .. n + 1 : i \in 1 .. n \/ i = n + 1
    BY <2>6
  <2> HIDE DEF e, n
  <2>10. Matches(SoFar)'
    <3>1. \A i \in 1 .. n : registry[i].name = dashedName(SoFar[i].name) /\ registry[i].args = SoFar[i].args
      BY <2>2 DEF Matches, n
    <3>2. \A i \in 1 .. n + 1 : registry'[i].name = dashedName(SoFar'[i].name) /\ registry'[i].args = SoFar'[i].args
      BY <2>4, <2>7, <2>8, <2>9, <3>1
    <3> QED BY <2>7, <2>8, <3>2 DEF Matches
  <2>11. \A i \in DOMAIN registry' : Grouped(registry[i])'
    <3>1. ASSUME NEW i \in 1 .. n PROVE Grouped(registry[i])'
      <4>1. Grouped(registry[i])
        BY <2>2, <2>6
      <4>2. registry'[i] = registry[i]
        BY <2>7
      <4> QED BY <1>1, <2>1, <4>1, <4>2, SameServices DEF Grouped
    <3>2. ASSUME NEW i, i = n + 1 PROVE Grouped(registry[i])'
      <4>1. registry'[i] = e
        BY <2>7, <3>2
      <4> QED BY <1>1, <2>4, <2>5, <4>1, SameServices DEF Grouped
    <3> QED BY <2>7, <2>9, <3>1, <3>2
  <2> QED BY <1>1, <2>10, <2>11 DEF MInv
<1>3. CASE ~(svc <= Made)
  BY <1>1, <1>3, MPast
<1> QED BY <1>2, <1>3

LEMMA MLeaves ==
  ASSUME IInv, MInv, RejectMethod \/ PanicAtMethod \/ Serve \/ addRpcCommands \/ Versioned
  PROVE  MInv'
<1>1. CASE RejectMethod
  <2>1. AtMethod /\ phase' = (IF svc <= Made THEN "failed" ELSE phase) /\ svc' = svc + 1 /\ services' = services
        /\ phase = "register" /\ svc \in Nat
    BY <1>1 DEF RejectMethod, AtMethod, Registering, IInv, Typed
  <2>2. phase' # "version" /\ ~(phase' = "register" /\ svc' <= Made)
    BY <2>1, MadeIs
  <2> QED BY <2>1, <2>2, MPast
<1>2. CASE PanicAtMethod
  BY <1>2, MPast DEF PanicAtMethod, AtMethod, Registering
<1>3. CASE Serve
  BY <1>3, MPast DEF Serve
<1>4. CASE addRpcCommands
  BY <1>4, MPast DEF addRpcCommands
<1>5. CASE Versioned
  <2>1. phase = "version" /\ phase' = "register" /\ svc' = svc /\ services' = services /\ svc = Made + 1
    BY <1>5 DEF Versioned, registering, MInv
  <2>2. ~(svc' <= Made)
    BY <2>1, MadeIs
  <2> QED BY <2>1, <2>2, MPast
<1> QED BY <1>1, <1>2, <1>3, <1>4, <1>5

(* What the docs of this service say of a name. *)
LEMMA GroupHere ==
  ASSUME IInv, MInv, Registering, svc <= Made, NEW name
  PROVE  GroupOf(svc, name) = IF name \in DOMAIN services[svc].docs /\ services[svc].docs[name] # NoGroup
                              THEN services[svc].docs[name] ELSE GroupOf(svc - 1, name)
<1>1. (svc - 1) + 1 = svc /\ svc - 1 \in Nat
  BY MFacts
<1>2. GroupOf((svc - 1) + 1, name) =
        IF name \in DOMAIN services[(svc - 1) + 1].docs /\ services[(svc - 1) + 1].docs[name] # NoGroup
        THEN services[(svc - 1) + 1].docs[name] ELSE GroupOf(svc - 1, name)
  BY <1>1, GroupNext
<1> QED BY <1>1, <1>2

LEMMA MAllMethods == ASSUME IInv, MInv, AllMethods PROVE MInv'
<1>1. /\ Registering /\ phase = "register" /\ method = Len(services[svc].methods) + 1
      /\ docsLeft' = DOMAIN services[svc].docs /\ method' = method + 1
      /\ UNCHANGED <<services, phase, svc, registry, routes>>
  BY DEF AllMethods, Registering
<1>2. CASE svc <= Made
  <2> DEFINE ms == services[svc].methods
  <2>1. /\ ms \in Seq(Methods) /\ Len(ms) \in Nat /\ (InDocs <=> method = Len(ms) + 2)
        /\ ListedUpTo(svc) = ListedUpTo(svc - 1) \o Apis(ms)
        /\ Matches(SoFar) /\ \A i \in DOMAIN registry : Grouped(registry[i])
    BY <1>1, <1>2, MFacts
  <2>2. ~InDocs /\ InDocs'
    <3>1. method # Len(ms) + 2 /\ method + 1 = Len(ms) + 2
      BY <1>1, <2>1
    <3> QED BY <1>1, <2>1, <3>1 DEF InDocs, Registering
  <2>3. SoFar' = SoFar
    <3>1. method - 1 = Len(ms)
      BY <1>1, <2>1
    <3>2. FirstOf(ms, Len(ms)) = ms
      BY <2>1, ApisAre
    <3>3. SoFar = ListedUpTo(svc)
      BY <2>1, <2>2, <3>1, <3>2 DEF SoFar
    <3>4. SoFar' = ListedUpTo(svc)
      BY <1>1, <2>2 DEF SoFar, ListedUpTo
    <3> QED BY <3>3, <3>4
  <2>4. Matches(SoFar)'
    BY <1>1, <2>1, <2>3 DEF Matches
  <2>5. ASSUME NEW i \in DOMAIN registry PROVE Grouped(registry[i])'
    <3> DEFINE e == registry[i]
    <3>1. e.group = GroupOf(svc, e.name) \/ e.group = GroupOf(svc - 1, e.name)
      BY <2>1 DEF Grouped
    <3>2. e.name \notin DOMAIN services[svc].docs => GroupOf(svc, e.name) = GroupOf(svc - 1, e.name)
      BY <1>1, <1>2, GroupHere
    <3> QED BY <1>1, <2>2, <3>1, <3>2, SameServices DEF Grouped
  <2> QED BY <1>1, <2>4, <2>5 DEF MInv
<1>3. CASE ~(svc <= Made)
  BY <1>1, <1>3, MPast
<1> QED BY <1>2, <1>3

LEMMA MRegroup == ASSUME IInv, MInv, RegroupOne PROVE MInv'
<1>1. PICK name \in docsLeft : Regroup(name) /\ InDocs
  BY DEF RegroupOne
<1> DEFINE group == services[svc].docs[name]
<1>2. /\ registry' = [i \in DOMAIN registry |->
             IF registry[i].name = name /\ group # NoGroup
             THEN [registry[i] EXCEPT !.group = group] ELSE registry[i]]
      /\ docsLeft' = docsLeft \ {name} /\ Registering /\ phase = "register"
      /\ UNCHANGED <<services, phase, svc, method, routes>>
  BY <1>1 DEF Regroup, InDocs, Registering
<1> HIDE DEF group
<1>3. PICK N, G : registry \in Seq(EntryType(N, G))
  BY DEF IInv, Typed
<1>4. \A i \in DOMAIN registry : registry[i] \in EntryType(N, G)
  BY <1>3
<1>5. /\ DOMAIN registry' = DOMAIN registry
      /\ \A i \in DOMAIN registry :
           /\ registry'[i].name = registry[i].name /\ registry'[i].args = registry[i].args
           /\ registry'[i].group = IF registry[i].name = name /\ group # NoGroup THEN group ELSE registry[i].group
  BY <1>2, <1>4 DEF EntryType
<1>6. InDocs'
  BY <1>1, <1>2 DEF InDocs, Registering
<1>7. CASE svc <= Made
  <2>1. Matches(SoFar) /\ (\A i \in DOMAIN registry : Grouped(registry[i]))
        /\ name \in DOMAIN services[svc].docs
    BY <1>1, <1>2, <1>7, MFacts DEF IInv, Typed
  <2>2. SoFar' = SoFar
    BY <1>1, <1>2, <1>6 DEF SoFar, ListedUpTo
  <2>3. Matches(SoFar)'
    BY <1>5, <2>1, <2>2 DEF Matches
  <2>4. ASSUME NEW i \in DOMAIN registry PROVE Grouped(registry[i])'
    <3> DEFINE e == registry[i]
    <3>1. \/ e.group = GroupOf(svc, e.name)
          \/ e.group = GroupOf(svc - 1, e.name) /\ e.name \in docsLeft
      BY <1>1, <2>1 DEF Grouped
    <3>2. GroupOf(svc, name) = IF group # NoGroup THEN group ELSE GroupOf(svc - 1, name)
      BY <1>2, <1>7, <2>1, GroupHere DEF group
    <3>3. registry'[i].name = e.name /\ registry'[i].group = IF e.name = name /\ group # NoGroup THEN group ELSE e.group
      BY <1>5
    <3>4. \/ registry'[i].group = GroupOf(svc, e.name)
          \/ registry'[i].group = GroupOf(svc - 1, e.name) /\ e.name \in docsLeft \ {name}
      <4>1. CASE e.name = name
        BY <3>1, <3>2, <3>3, <4>1
      <4>2. CASE e.name # name
        BY <3>1, <3>3, <4>2
      <4> QED BY <4>1, <4>2
    <3>5. \A k, n : GroupOf(k, n)' = GroupOf(k, n)
      BY <1>2, SameServices
    <3>6. svc' = svc /\ docsLeft' = docsLeft \ {name}
      BY <1>2
    <3> QED BY <3>3, <3>4, <3>5, <3>6 DEF Grouped
  <2> QED BY <1>2, <1>5, <2>3, <2>4 DEF MInv
<1>8. CASE ~(svc <= Made)
  BY <1>2, <1>8, MPast
<1> QED BY <1>7, <1>8

LEMMA MRegistered == ASSUME IInv, MInv, RegisteredService PROVE MInv'
<1>1. /\ InDocs /\ Registering /\ phase = "register" /\ docsLeft = {} /\ svc' = svc + 1 /\ method' = 1
      /\ phase' = (IF svc = Made THEN "version" ELSE phase)
      /\ UNCHANGED <<services, docsLeft, registry, routes>>
  BY DEF RegisteredService, InDocs, Registering
<1>2. CASE svc <= Made
  <2>1. /\ svc \in 1 .. Count /\ svc \in Nat \ {0} /\ Count \in Nat /\ ListedUpTo(svc) \in Seq(Methods)
        /\ Matches(SoFar) /\ \A i \in DOMAIN registry : Grouped(registry[i])
    BY <1>1, <1>2, MFacts
  <2>2. Matches(ListedUpTo(svc)) /\ \A i \in DOMAIN registry : registry[i].group = GroupOf(svc, registry[i].name)
    BY <1>1, <2>1 DEF SoFar, Grouped
  <2>3. CASE svc = Made
    <3>1. Made' = Made /\ Count' = Count
      BY <1>1 DEF Made, Own, DefaultMethods, MetricsMethods, Count
    <3>2. phase' = "version" /\ svc' = Made + 1 /\ Made <= Count
      BY <1>1, <2>1, <2>3
    <3>3. Matches(ListedUpTo(Made))'
      BY <1>1, <2>2, <2>3, <3>1, SameServices DEF Matches
    <3>4. \A i \in DOMAIN registry' : registry'[i].group = GroupOf(Made, registry[i].name)'
      BY <1>1, <2>2, <2>3, SameServices
    <3>5. ~Registering'
      BY <3>2 DEF Registering
    <3> QED BY <1>1, <3>1, <3>2, <3>3, <3>4, <3>5 DEF MInv
  <2>4. CASE svc # Made
    <3>1. phase' = "register" /\ (svc + 1) - 1 = svc
      BY <1>1, <2>1, <2>4
    <3>2. ASSUME Registering' PROVE SoFar' = ListedUpTo(svc) /\ ~InDocs'
      <4>1. svc + 1 \in 1 .. Count
        BY <1>1, <2>1, <3>2 DEF Registering, Count
      <4>2. services[svc + 1].methods \in Seq(Methods) /\ Len(services[svc + 1].methods) \in Nat
        BY <4>1 DEF IInv, Typed, ServicesTyped, IsService
      <4>3. ~InDocs'
        BY <1>1, <4>2 DEF InDocs
      <4>4. Apis(FirstOf(services[svc + 1].methods, 0)) = <<>>
        BY <4>2, ApisAre
      <4>5. SoFar' = ListedUpTo(svc - 1)' \o Apis(FirstOf(services[svc + 1].methods, 0))
        <5>1. services'[svc'].methods = services[svc + 1].methods /\ method' - 1 = 0
          BY <1>1
        <5> QED BY <4>3, <5>1 DEF SoFar
      <4>6. ListedUpTo(svc - 1)' = ListedUpTo(svc)
        BY <1>1, <3>1 DEF ListedUpTo
      <4>7. ListedUpTo(svc) \o <<>> = ListedUpTo(svc)
        <5> DEFINE l == ListedUpTo(svc)
        <5>1. l \in Seq(Methods)
          BY <2>1
        <5> HIDE DEF l
        <5>2. l \o <<>> = l
          BY <5>1
        <5> QED BY <5>2 DEF l
      <4> QED BY <4>3, <4>4, <4>5, <4>6, <4>7
    <3>3. Registering' => Matches(SoFar)'
      BY <1>1, <2>2, <3>2 DEF Matches
    <3>4. \A i \in DOMAIN registry : Grouped(registry[i])' \/ ~Registering'
      BY <1>1, <2>2, <3>1, <3>2, SameServices DEF Grouped
    <3> QED BY <1>1, <3>1, <3>3, <3>4 DEF MInv
  <2> QED BY <2>3, <2>4
<1>3. CASE ~(svc <= Made)
  <2>1. phase' = "register" /\ svc \in Nat /\ ~(svc + 1 <= Made)
    BY <1>1, <1>3, MadeIs DEF IInv, Typed
  <2> QED BY <1>1, <2>1, MPast
<1> QED BY <1>2, <1>3

LEMMA StepMInv == IInv /\ MInv /\ [Next]_vars => MInv'
<1> SUFFICES ASSUME IInv, MInv, [Next]_vars PROVE MInv'
  OBVIOUS
<1>1. CASE SkipMethod
  BY <1>1, MSkip
<1>2. CASE RegisterMethod
  BY <1>2, MRegister
<1>3. CASE RejectMethod \/ PanicAtMethod \/ Serve \/ addRpcCommands \/ Versioned
  BY <1>3, MLeaves
<1>4. CASE AllMethods
  BY <1>4, MAllMethods
<1>5. CASE RegroupOne
  BY <1>5, MRegroup
<1>6. CASE RegisteredService
  BY <1>6, MRegistered
<1>7. CASE UNCHANGED vars
  <2>1. UNCHANGED <<services, phase, svc, method, docsLeft, registry>>
    BY <1>7 DEF vars, registering
  <2>2. SoFar' = SoFar /\ Registering' = Registering /\ InDocs' = InDocs
    BY <2>1 DEF SoFar, InDocs, Registering, ListedUpTo
  <2>3. Matches(SoFar)' = Matches(SoFar) /\ Matches(ListedUpTo(Made))' = Matches(ListedUpTo(Made))
    BY <2>1, <2>2, SameServices DEF Matches
  <2>4. \A i \in DOMAIN registry : Grouped(registry[i]) => Grouped(registry[i])'
    BY <2>1, <2>2, SameServices DEF Grouped
  <2>5. \A i \in DOMAIN registry :
          registry[i].group = GroupOf(Made, registry[i].name) => registry'[i].group = GroupOf(Made, registry[i].name)'
    BY <2>1, SameServices
  <2>6. Made' = Made /\ Count' = Count
    BY <2>1, MadeIs DEF Count
  <2> QED BY <2>1, <2>2, <2>3, <2>4, <2>5, <2>6 DEF MInv
<1> QED BY <1>1, <1>2, <1>3, <1>4, <1>5, <1>6, <1>7 DEF Next, Register

-----------------------------------------------------------------------------
(* The version. *)

(* When all that MakeService registers is registered, the manifest is what   *)
(* the services say, with the arguments in their order.                      *)
LEMMA ManifestIs ==
  ASSUME IInv, MInv, phase = "version"
  PROVE  /\ [i \in DOMAIN registry |-> Entry(registry[i], Sorted(registry[i].args))]
              = Manifest(services).items
         /\ Manifest(services) = List(Manifest(services).items) /\ Manifest(services) \in Data
<1> DEFINE ms == ListedUpTo(Made)
           named(i) == [name |-> dashedName(ms[i].name), group |-> GroupGiven(services, dashedName(ms[i].name))]
           items == [i \in DOMAIN ms |-> Entry(named(i), Sorted(ms[i].args))]
<1>1. Manifest(services) = List(items)
  BY DEF Manifest, ListedUpTo
<1>2. List(items).items = items
  BY DEF List, Value
<1>3. /\ Made <= Count /\ Made \in 0 .. Count
      /\ DOMAIN registry = 1 .. Len(ms)
      /\ \A i \in 1 .. Len(ms) : registry[i].name = dashedName(ms[i].name) /\ registry[i].args = ms[i].args
      /\ \A i \in DOMAIN registry : registry[i].group = GroupOf(Made, registry[i].name)
  BY MadeIs, Facts DEF IInv, MInv, Matches
<1>4. DOMAIN ms = 1 .. Len(ms)
  <2>1. ms \in Seq(Methods)
    BY <1>3, ListedNext DEF IInv
  <2> HIDE DEF ms
  <2> QED BY <2>1
<1>5. \A name : GroupGiven(services, name) = GroupOf(Made, name)
  BY DEF GroupGiven, GroupOf, Givers
<1>6. ASSUME NEW i \in 1 .. Len(ms)
      PROVE  Entry(registry[i], Sorted(registry[i].args)) = Entry(named(i), Sorted(ms[i].args))
  <2>1. /\ registry[i].name = dashedName(ms[i].name) /\ registry[i].args = ms[i].args
        /\ registry[i].group = GroupGiven(services, dashedName(ms[i].name))
    BY <1>3, <1>5
  <2>2. named(i).name = registry[i].name /\ named(i).group = registry[i].group
    BY <2>1
  <2> HIDE DEF named
  <2>3. \A args : Entry(registry[i], args) = Entry(named(i), args)
    BY <2>2 DEF Entry
  <2> QED BY <2>1, <2>3
<1>7. [i \in DOMAIN registry |-> Entry(registry[i], Sorted(registry[i].args))] = items
  <2> HIDE DEF ms, named
  <2> QED BY <1>3, <1>4, <1>6
<1>8. Manifest(services) \in Data
  <2>1. PICK program \in Programs : services = Own \o program
    BY DEF MInv
  <2>2. program # <<>>
    <3>1. CASE program = <<>>
      <4>1. Own \o <<>> = Own
        BY OwnServices
      <4>2. Count = 2
        BY <2>1, <3>1, <4>1, OwnServices DEF Count
      <4> QED BY <1>3, <4>2, MadeIs
    <3> QED BY <3>1
  <2> QED BY <2>1, <2>2, ManifestsKnown
<1> HIDE DEF items
<1> QED BY <1>1, <1>2, <1>7, <1>8

(* The converter has been at no values but the manifest, but for a client's; *)
(* and so has the version.                                                   *)
Given == phase # "client" /\ result # "none" => given = <<Manifest(services)>>

SInv == IInv /\ MInv /\ VInv /\ OInv /\ Given /\ SameVersion

LEMMA EncodeManifestStep ==
  ASSUME IInv, MInv, EncodeManifest
  PROVE  VInv' /\ OInv' /\ Given'
<1>1. PICK orders :
        /\ \A i \in DOMAIN registry : orders[i] \in MapOrders(registry[i].args)
        /\ Convert(<<List([i \in DOMAIN registry |-> Entry(registry[i], orders[i])])>>)
  BY DEF EncodeManifest
<1>2. phase = "version" /\ services' = services
  BY DEF EncodeManifest, vars
<1>3. \A i \in DOMAIN registry : orders[i] = Sorted(registry[i].args)
  BY <1>1 DEF MapOrders
<1>4. [i \in DOMAIN registry |-> Entry(registry[i], orders[i])]
        = [i \in DOMAIN registry |-> Entry(registry[i], Sorted(registry[i].args))]
  BY <1>3
<1> DEFINE m == Manifest(services)
<1>5. m \in Data /\ Convert(<<m>>)
  <2>1. List([i \in DOMAIN registry |-> Entry(registry[i], orders[i])]) = m
    BY <1>2, <1>4, ManifestIs
  <2> QED BY <1>1, <1>2, <2>1, ManifestIs
<1>6. given' = <<m>>
  BY <1>5 DEF Convert
<1>7. m' = m
  BY <1>2 DEF Manifest, GroupGiven, Apis
<1>8. Given'
  BY <1>6, <1>7 DEF Given
<1>9. <<m>> \in Seq(Data)
  BY <1>5
<1> HIDE DEF m
<1>10. VInv' /\ OInv'
  BY <1>5, <1>9, ConvertBegins
<1> QED BY <1>8, <1>10

LEMMA StaysClient ==
  ASSUME [Next]_vars
  PROVE  services' = services /\ (phase = "client" => phase' = "client")
BY DEF Next, Register, SkipMethod, RegisterMethod, RejectMethod, PanicAtMethod, AllMethods, RegroupOne, Regroup,
       RegisteredService, Serve, addRpcCommands, Versioned, AtMethod, InDocs, Registering, vars

LEMMA ServiceInitSInv == ServiceInit => SInv
<1> SUFFICES ASSUME ServiceInit PROVE SInv
  OBVIOUS
<1>1. IInv /\ MInv
  BY InitIInv, InitMInv DEF ServiceInit
<1>2. SameVersion /\ Given
  BY DEF ServiceInit, SameVersion, Given
<1>3. VInv
  <2>1. CASE result = "none"
    BY <2>1 DEF VInv
  <2>2. CASE result # "none"
    <3>0. given \in Samples /\ input = Encodes(given) /\ want = TRUE /\ result = "run" /\ out = <<>> /\ stack = <<>>
      BY <2>2 DEF ServiceInit
    <3>1. given \in Samples /\ input = Encodes(given) /\ want = TRUE /\ result = "run" /\ plain = <<>> /\ stack = <<>>
      BY <3>0 DEF plain
    <3>2. given \in Seq(Data) /\ <<>> \in Seq(Texts) /\ <<>> \in Seq(Calls)
      <4>1. given \in Seq(Data)
        BY ONLY <3>1, SamplesKnown
      <4>2. <<>> \in Seq(Texts) /\ <<>> \in Seq(Calls)
        OBVIOUS
      <4> QED BY <4>1, <4>2
    <3>3. CASE given = <<>>
      <4>1. Encodes(given) = <<>> /\ Lines(given) = <<>>
        BY <3>2, <3>3, EncodesIs, LinesIs
      <4> QED BY <3>1, <3>2, <4>1 DEF VInv, Converted
    <3>4. CASE given # <<>>
      <4>1. Converting
        BY <3>1, <3>2, <3>4, ConvertStarts DEF Converting, Reads
      <4> QED BY <3>1, <3>2, <4>1 DEF VInv
    <3> QED BY <3>3, <3>4
  <2> QED BY <2>1, <2>2
<1>4. OInv
  <2>1. CASE result = "none"
    BY <2>1 DEF OInv
  <2>2. CASE out = <<>>
    <3>1. plain = <<>> /\ AsPrinted(<<>>) = <<>>
      BY <2>2 DEF plain, AsPrinted
    <3> QED BY <2>2, <3>1 DEF OInv
  <2> QED BY <2>1, <2>2 DEF ServiceInit
<1> QED BY <1>1, <1>2, <1>3, <1>4 DEF SInv

LEMMA StepSInv == SInv /\ [ServiceNext]_allVars => SInv'
<1> SUFFICES ASSUME SInv, [ServiceNext]_allVars PROVE SInv'
  OBVIOUS
<1>1. [Next]_vars
  BY DEF ServiceNext, EncodeManifest, ToJson, SetVersion, Next, allVars
<1>2. services' = services /\ (phase = "client" => phase' = "client") /\ Manifest(services)' = Manifest(services)
  <2>1. services' = services /\ (phase = "client" => phase' = "client")
    BY <1>1, StaysClient
  <2> QED BY <2>1 DEF Manifest, GroupGiven, Apis
<1>3. IInv' /\ MInv'
  BY <1>1, StepIInv, StepMInv DEF SInv
<1>4. version' = version => SameVersion'
  BY <1>2 DEF SInv, SameVersion, Lines, AsPrinted
<1>5. CASE UNCHANGED <<converter, version>>
  <2>1. VInv' /\ OInv'
    BY <1>5, ConvertStays DEF SInv
  <2>2. Given'
    BY <1>2, <1>5 DEF SInv, Given, converter
  <2> QED BY <1>3, <1>4, <1>5, <2>1, <2>2 DEF SInv
<1>6. CASE EncodeManifest
  <2>1. version' = version
    BY <1>6 DEF EncodeManifest
  <2> QED BY <1>3, <1>4, <1>6, <2>1, EncodeManifestStep DEF SInv
<1>7. CASE ToJson
  <2>1. ConvertStep /\ version' = version
    BY <1>7 DEF ToJson
  <2>2. VInv' /\ OInv'
    BY <2>1, ConvertStepStays DEF SInv
  <2>3. given' = given /\ result # "none"
    BY <2>1 DEF ConvertStep, ReadScalar, ReadHead, AfterKey, AfterItem, AfterItemIf, AfterValue, AtEOF, Running
  <2>4. Given'
    BY <1>2, <2>3 DEF SInv, Given
  <2> QED BY <1>3, <1>4, <2>1, <2>2, <2>4 DEF SInv
<1>8. CASE SetVersion
  <2>1. Versioned /\ result = "ok" /\ version' = out /\ UNCHANGED converter /\ phase = "version"
    BY <1>8 DEF SetVersion, Versioned
  <2>2. VInv' /\ OInv'
    BY <2>1, ConvertStays DEF SInv
  <2>3. Given'
    BY <1>2, <2>1 DEF SInv, Given, converter
  <2>4. given = <<Manifest(services)>>
    BY <2>1 DEF SInv, Given
  <2>5. out = AsPrinted(Lines(given))
    BY <2>1, VInvConverts DEF SInv, ConvertsExactly
  <2>6. version' = AsPrinted(Lines(<<Manifest(services)>>))
    BY <2>1, <2>4, <2>5
  <2>7. SameVersion'
    BY <1>2, <2>6 DEF SameVersion, Lines, AsPrinted
  <2> QED BY <1>3, <2>2, <2>3, <2>7 DEF SInv
<1> QED BY <1>5, <1>6, <1>7, <1>8 DEF ServiceNext, allVars

(* Convert writes the JSON of what was encoded, one value to a line and in   *)
(* order, for values nested to any depth and any set of scalars that Go      *)
(* prints in its own way, which are all that differs from JSON; at any       *)
(* moment it has written a beginning of that, and it never stops half-way    *)
(* (ConvertsExactly; msgpack_to_json.go).                                    *)
THEOREM RegistryConvertsExactly == ServiceSpec => []ConvertsExactly
<1>1. SInv => ConvertsExactly
  BY VInvConverts DEF SInv
<1> QED BY <1>1, ServiceInitSInv, StepSInv, PTL DEF ServiceSpec

(* The version of the API is a function of the services alone, for any       *)
(* services, methods and docs: the order in which Go ranges over the docs    *)
(* and over the arguments does not show (SameVersion; service.go:152,        *)
(* 575-585).                                                                 *)
THEOREM RegistrySameVersion == ServiceSpec => []SameVersion
<1>1. SInv => SameVersion
  BY DEF SInv
<1> QED BY <1>1, ServiceInitSInv, StepSInv, PTL DEF ServiceSpec

=============================================================================
