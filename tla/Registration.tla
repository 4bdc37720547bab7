---------------------------- MODULE Registration ----------------------------
(* How a service's methods come to be served: MakeService registers          *)
(* kettlingar's own and the application's by reflection, from the list of    *)
(* their types (kettlingar/service.go); and DefaultMain makes the methods    *)
(* into commands of the command line (kettlingar/default_main.go).           *)
EXTENDS Integers, SequencesExt

CONSTANTS
  Programs      \* the services an application registers, each a sequence

VARIABLES
  services,     \* ks.services: kettlingar's two and the application's
  phase,        \* "register", "version", "serve", "failed", "panicked"; "client" of
                \* a process whose own service plays no part
  svc, method,  \* RegisterService is at this method of this service
  docsLeft,     \* the entries of docs it has not looked at yet
  registry,     \* ks.registry, the manifest
  routes,       \* ks.Mux: the name in the path -> the handler it calls
  groups,       \* the root command's groups
  commands,     \* and its commands
  built         \* how often the commands of the manifest were added

registering == <<svc, method, docsLeft>>
cli  == <<groups, commands, built>>
vars == <<services, phase, registering, registry, routes, cli>>

MaxBuilds == 2  \* DefaultMain adds the commands, and its help does again

-----------------------------------------------------------------------------
(* Names are sequences of runes, a dash is 0. *)

Upper(i) == 10 + i
Lower(i) == 20 + i
Digit(i) == 30 + i
IsUpper(r) == r \in 10..19
IsLower(r) == r \in 20..29
IsDigit(r) == r \in 30..39
ToLower(r) == IF IsUpper(r) THEN r + 10 ELSE r

(* A new word starts at the i-th rune. *)
StartsWord(name, i) ==
  /\ i > 1 /\ IsUpper(name[i])
  /\ \/ IsLower(name[i-1]) \/ IsDigit(name[i-1])
     \/ IsUpper(name[i-1]) /\ i < Len(name) /\ IsLower(name[i+1])

(* A dash before a new word, unless the rune before it had one. *)
dashedName(name) ==
  FlattenSeq([i \in DOMAIN name |->
    IF StartsWord(name, i) /\ ~StartsWord(name, i - 1) THEN <<0, ToLower(name[i])>>
                                                        ELSE <<ToLower(name[i])>>])

-----------------------------------------------------------------------------
(* Services: their exported methods in the order of their names (with the    *)
(* fields of the struct they take, if they take one), the groups that        *)
(* GetDocs gives to names and the groups that GetGroups declares.            *)

Method(prefix, name, ins, void, args) ==
  [prefix |-> prefix, name |-> name, ins |-> ins, void |-> void, args |-> args]
Service(methods, docs, declared) ==
  [methods |-> methods, docs |-> docs, declared |-> declared, gens |-> {}, typed |-> {}]

(* Docs may also say IsGenerator of some names, and a ReturnType of some.    *)
Marked(s, gens, typed) == [s EXCEPT !.gens = gens, !.typed = typed]

Kinds   == {"info", "send", "recv", "struct"}        \* of parameters
Methods == [prefix : {"PublicApi", "Api", "Other"}, name : Seq(Nat), ins : Seq(Kinds),
            void : BOOLEAN, args : Seq(Nat)]

IsService(s) ==
  /\ s.methods \in Seq(Methods) /\ s.declared \in Seq(Range(s.declared))
  /\ \A i \in DOMAIN s.methods :
       LET m == s.methods[i]
       IN  m.args # <<>> => m.ins # <<>> /\ m.ins[Len(m.ins)] = "struct"

ASSUME ProgramsKnown ==
  \A program \in Programs : program \in Seq(Range(program)) /\ \A s \in Range(program) : IsService(s)

ServiceGroup == "service"
NoGroup == ""
Ping    == <<Upper(1), Lower(2)>>
Scrape  == <<Upper(3), Lower(4)>>
Reserved == {<<Lower(5)>>, <<Lower(6)>>}       \* start and stop

DefaultMethods == Service(<<Method("PublicApi", Ping, <<"info", "struct">>, FALSE, <<1>>)>>,
                          [name \in {dashedName(Ping)} |-> ServiceGroup], <<>>)
MetricsMethods == Service(<<Method("PublicApi", Scrape, <<"info">>, FALSE, <<>>)>>,
                          [name \in {dashedName(Scrape)} |-> ServiceGroup], <<>>)
Own == <<DefaultMethods, MetricsMethods>>
Made == Len(Own) + 1            \* the services that MakeService registers

IsGenerator(ins) == Len(ins) >= 2 /\ ins[1] = "send"

(* Mutant of Accepted: surplus arguments are not noticed. *)
AcceptedMore(ins) ==
  LET infoAt == IF IsGenerator(ins) THEN 2 ELSE 1
  IN  /\ Len(ins) \in 1..3
      /\ Len(ins) >= 2 => ins[1] # "recv"
      /\ ins[infoAt] = "info"
      /\ Len(ins) = infoAt + 1 => ins[infoAt + 1] = "struct"

(* The checks of RegisterService, on the kinds of the arguments after the    *)
(* receiver.                                                                 *)
Accepted(ins) ==
  LET infoAt == IF IsGenerator(ins) THEN 2 ELSE 1
      argsAt == infoAt + 1
  IN  /\ Len(ins) \in 1..3
      /\ Len(ins) >= 2 => ins[1] # "recv"
      /\ ins[infoAt] = "info"
      /\ Len(ins) <= argsAt
      /\ Len(ins) = argsAt => ins[argsAt] = "struct"

-----------------------------------------------------------------------------

Init ==
  /\ \/ phase = "register" /\ services \in {Own \o program : program \in Programs}
     \/ phase = "client" /\ services = <<>>
  /\ svc = 1 /\ method = 1 /\ docsLeft = {}
  /\ registry = <<>> /\ routes = <<>>
  /\ groups = <<ServiceGroup>> /\ built = 0
  /\ commands = <<[name |-> <<Lower(5)>>, group |-> ServiceGroup, flags |-> {}],
                  [name |-> <<Lower(6)>>, group |-> ServiceGroup, flags |-> {}]>>

Registering == phase = "register" /\ svc <= Len(services)
AtMethod == Registering /\ method <= Len(services[svc].methods)
Current  == services[svc].methods[method]
IsApi(m) == m.prefix \in {"PublicApi", "Api"}

(* desc, starting from what the docs of its service say of the name. *)
Describe(m, s) ==
  LET name == dashedName(m.name)
  IN  [name |-> name, public |-> m.prefix = "PublicApi",
       generator |-> IsGenerator(m.ins) \/ name \in s.gens,
       args |-> m.args, group |-> IF name \in DOMAIN s.docs THEN s.docs[name] ELSE NoGroup]

(* desc.ReturnType is not nil. *)
HasType(m, s) == ~m.void \/ Describe(m, s).generator \/ dashedName(m.name) \in s.typed

(* A method that is not of the API. *)
SkipMethod ==
  /\ AtMethod /\ ~IsApi(Current)
  /\ method' = method + 1
  /\ UNCHANGED <<services, phase, svc, docsLeft, registry, routes, cli>>

(* Mutant of Handler: always the first method. *)
HandlerFirst(m) == [svc |-> svc, idx |-> 1, public |-> m.prefix = "PublicApi"]

(* The closure that serves a method: which one it calls, and for whom. *)
Handler(m) == [svc |-> svc, idx |-> method, public |-> m.prefix = "PublicApi"]

RegisterMethod ==
  /\ AtMethod /\ IsApi(Current) /\ Accepted(Current.ins)
  /\ HasType(Current, services[svc])
  /\ dashedName(Current.name) \notin DOMAIN routes
  /\ registry' = Append(registry, Describe(Current, services[svc]))
  /\ routes' = [name \in DOMAIN routes \union {dashedName(Current.name)} |->
                  IF name \in DOMAIN routes THEN routes[name] ELSE Handler(Current)]
  /\ method' = method + 1
  /\ UNCHANGED <<services, phase, svc, docsLeft, cli>>

(* The methods before it stay registered.  MakeService then returns nil;     *)
(* an application that called RegisterService itself may go on.              *)
RejectMethod ==
  /\ AtMethod /\ IsApi(Current) /\ ~Accepted(Current.ins)
  /\ phase' = IF svc <= Made THEN "failed" ELSE phase
  /\ svc' = svc + 1 /\ method' = 1
  /\ UNCHANGED <<services, docsLeft, registry, routes, cli>>

(* reflect.New(nil), for a method without a type to return, before it is     *)
(* listed, or ServeMux.HandleFunc, for a name that is taken, after.          *)
PanicAtMethod ==
  /\ AtMethod /\ IsApi(Current) /\ Accepted(Current.ins)
  /\ \/ /\ ~HasType(Current, services[svc])
        /\ UNCHANGED registry
     \/ /\ HasType(Current, services[svc])
        /\ dashedName(Current.name) \in DOMAIN routes
        /\ registry' = Append(registry, Describe(Current, services[svc]))
  /\ phase' = "panicked"
  /\ UNCHANGED <<services, registering, routes, cli>>

(* Past the last method the docs are gone through, in any order. *)
AllMethods ==
  /\ Registering /\ method = Len(services[svc].methods) + 1
  /\ docsLeft' = DOMAIN services[svc].docs
  /\ method' = method + 1
  /\ UNCHANGED <<services, phase, svc, registry, routes, cli>>

InDocs == Registering /\ method = Len(services[svc].methods) + 2

(* Mutant of Regroup: docs without a group take the group away. *)
RegroupAlways(name) ==
  /\ registry' = [i \in DOMAIN registry |->
         IF registry[i].name = name
         THEN [registry[i] EXCEPT !.group = services[svc].docs[name]] ELSE registry[i]]
  /\ docsLeft' = docsLeft \ {name}
  /\ UNCHANGED <<services, phase, svc, method, routes, cli>>

Regroup(name) ==
  LET group == services[svc].docs[name]
  IN  /\ registry' = [i \in DOMAIN registry |->
             IF registry[i].name = name /\ group # NoGroup
             THEN [registry[i] EXCEPT !.group = group] ELSE registry[i]]
      /\ docsLeft' = docsLeft \ {name}
      /\ UNCHANGED <<services, phase, svc, method, routes, cli>>

RegroupOne == InDocs /\ \E name \in docsLeft : Regroup(name)

RegisteredService ==
  /\ InDocs /\ docsLeft = {}
  /\ svc' = svc + 1 /\ method' = 1
  /\ phase' = IF svc = Made THEN "version" ELSE phase
  /\ UNCHANGED <<services, docsLeft, registry, routes, cli>>

(* MakeService has derived the version, which changes nothing here, and      *)
(* returns.                                                                  *)
Versioned ==
  /\ phase = "version"
  /\ phase' = "register"
  /\ UNCHANGED <<services, registering, registry, routes, cli>>

(* callArgs: what handleRPC passes to a method that has this entry. *)
CallArgs(desc) ==
  LET first == Append(IF desc.generator THEN <<"send">> ELSE <<>>, "info")
  IN  IF desc.args # <<>> THEN Append(first, "struct") ELSE first

-----------------------------------------------------------------------------
(* The command line. *)

Serve ==
  /\ phase = "register" /\ svc > Len(services)
  /\ phase' = "serve"
  /\ UNCHANGED <<services, registering, registry, routes, cli>>

findSubCommand(root, name) == \E i \in DOMAIN root : root[i].name = name

Positional == 0     \* the argument Args, a list

createRpcCommand(m, rootGroups) ==
  [name |-> m.name, group |-> IF Contains(rootGroups, m.group) THEN m.group ELSE NoGroup,
   flags |-> Range(m.args) \ {Positional}]

AddGroups(rootGroups) ==
  FoldLeft(LAMBDA gs, id : IF (\E i \in DOMAIN registry : registry[i].group = id) /\ ~Contains(gs, id)
                           THEN Append(gs, id) ELSE gs,
           rootGroups, FlattenSeq([i \in DOMAIN services |-> services[i].declared]))

(* Mutant of AddCommands: without findSubCommand. *)
AddCommandsTwice(root, rootGroups) ==
  FoldLeft(LAMBDA cs, m : Append(cs, createRpcCommand(m, rootGroups)), root, registry)

AddCommands(root, rootGroups) ==
  FoldLeft(LAMBDA cs, m : IF findSubCommand(cs, m.name) THEN cs
                          ELSE Append(cs, createRpcCommand(m, rootGroups)),
           root, registry)

addRpcCommands ==
  /\ phase = "serve" /\ built < MaxBuilds
  /\ groups' = AddGroups(groups)
  /\ commands' = AddCommands(commands, AddGroups(groups))
  /\ built' = built + 1
  /\ UNCHANGED <<services, phase, registering, registry, routes>>

Register ==
  \/ SkipMethod \/ RegisterMethod \/ RejectMethod \/ PanicAtMethod
  \/ AllMethods \/ RegroupOne \/ RegisteredService
  \/ Serve \/ addRpcCommands

Next == Register \/ Versioned

Spec == Init /\ [][Next]_vars

-----------------------------------------------------------------------------
(* Properties. *)

Phases == {"register", "version", "serve", "failed", "panicked", "client"}

(* Type invariant of the registration: every handler points to a method of a *)
(* service (service.go:113).                                                 *)
TypeOK ==
  /\ phase \in Phases
  /\ svc \in 1..Len(services) + 1
  /\ svc <= Len(services) =>
       /\ method \in 1..Len(services[svc].methods) + 2
       /\ docsLeft \subseteq DOMAIN services[svc].docs
  /\ \A name \in DOMAIN routes :
       /\ routes[name].svc \in DOMAIN services
       /\ routes[name].idx \in DOMAIN services[routes[name].svc].methods
  /\ built \in 0..MaxBuilds

Target(name) == services[routes[name].svc].methods[routes[name].idx]
Listed(authed) == {i \in DOMAIN registry : registry[i].public \/ authed}
Answered(authed) == {name \in DOMAIN routes : routes[name].public \/ authed}

(* The manifest that ping lists to a caller and what that caller may call    *)
(* are the same, whatever was rejected half-way (service.go:305,             *)
(* default_methods.go:31): each listed name reaches a method of that name,   *)
(* with those arguments, and a generator where the docs do not claim one.    *)
ListedIsCallable ==
  phase # "panicked" => \A authed \in BOOLEAN :
    /\ Answered(authed) = {registry[i].name : i \in Listed(authed)}
    /\ \A i \in Listed(authed) :
         LET m == registry[i]  target == Target(m.name)
         IN  /\ dashedName(target.name) = m.name /\ target.args = m.args
             /\ target.prefix = "PublicApi" <=> m.public
             /\ m.generator <=> \/ target.ins[1] = "send"
                                \/ m.name \in services[routes[m.name].svc].gens

Shapes == {<<"info">>, <<"info", "struct">>, <<"send", "info">>, <<"send", "info", "struct">>}

(* It takes a struct that has no fields. *)
Fieldless(m) == m.ins[Len(m.ins)] = "struct" /\ m.args = <<>>

(* A function that the docs of its service call a generator. *)
Misnamed(m, s) == m.ins[1] # "send" /\ dashedName(m.name) \in s.gens

(* A service is refused exactly when a method of it has none of the four     *)
(* shapes, and what came before that method stays (service.go:222-272): no   *)
(* method of an accepted service is missing, and each one that is served has *)
(* a type to return and is called with exactly the parameters it takes       *)
(* (service.go:398-431).  Two kinds of methods are accepted and called with  *)
(* others, over which reflection panics: one with a field-less struct, which *)
(* is not passed, and a function that the docs call a generator.             *)
AllOrPrefix ==
  LET api(s) == {i \in DOMAIN services[s].methods : IsApi(services[s].methods[i])}
      bad(s) == {i \in api(s) : services[s].methods[i].ins \notin Shapes}
      have(s) == {i \in api(s) : \E name \in DOMAIN routes : routes[name].svc = s /\ routes[name].idx = i}
  IN  /\ \A s \in DOMAIN services : \A i \in have(s) :
           LET m == services[s].methods[i]
           IN  /\ HasType(m, services[s])
               /\ CallArgs(Describe(m, services[s])) = m.ins <=> ~(Fieldless(m) \/ Misnamed(m, services[s]))
               /\ \A j \in bad(s) : i < j
      /\ phase # "panicked" => \A s \in 1..(svc - 1) :
           \A i \in api(s) : i \in have(s) \/ \E j \in bad(s) : j <= i
      /\ phase = "failed" <=> svc > 1 /\ svc - 1 <= Made /\ bad(svc - 1) # {}

(* However often the manifest is added (default_main.go:414-440), each       *)
(* method is one command, but for those named like the static ones, with a   *)
(* flag for each argument that is not positional.  Cobra ends the program    *)
(* over a command whose group it does not know, and prints the title of a    *)
(* group nobody is in: every command's group is there, every declared group  *)
(* that a method uses is there once, and no other.                           *)
CommandsMatchManifest ==
  built > 0 =>
    /\ \A i, j \in DOMAIN commands : commands[i].name = commands[j].name => i = j
    /\ {commands[i].name : i \in DOMAIN commands} = DOMAIN routes \cup Reserved
    /\ \A i \in DOMAIN commands :
         /\ commands[i].name \notin Reserved =>
              commands[i].flags = {a \in Range(Target(commands[i].name).args) : a > 0}
         /\ commands[i].group = NoGroup \/ Contains(groups, commands[i].group)
    /\ \A i, j \in DOMAIN groups : groups[i] = groups[j] => i = j
    /\ Range(groups) = {ServiceGroup} \cup
         {id \in UNION {Range(services[s].declared) : s \in DOMAIN services} :
            \E i \in DOMAIN registry : registry[i].group = id}

=============================================================================
