------------------------------ MODULE Registry ------------------------------
(* MakeService as a whole: what Registration registers is encoded, and the   *)
(* converter of MsgpackJson writes the text from which the API version is    *)
(* derived (kettlingar/service.go).                                          *)
EXTENDS Registration, MsgpackJson

CONSTANTS
  Samples       \* sequences of values that a client converts

ASSUME SamplesKnown == Samples \subseteq Seq(Data)

VARIABLES
  version       \* ks.Version: the API hash, of the manifest's JSON

allVars == <<vars, converter, version>>

ServiceInit ==
  /\ Init
  /\ \/ /\ phase # "client"
        /\ given = <<>> /\ input = <<>> /\ want = FALSE /\ result = "none"
     \/ /\ phase = "client"
        /\ given \in Samples /\ input = Encodes(given)
        /\ want = TRUE /\ result = "run"
  /\ out = <<>> /\ stack = <<>>
  /\ version = <<>>

-----------------------------------------------------------------------------
(* The version. *)

Key(k) == Scalar(<<"key", k>>)

(* A method's entry, its arguments in this order. *)
Entry(m, args) ==
  Dict(<<Key("name"), Scalar(<<"name", m.name>>),
         Key("args"), Dict(FlattenSeq([i \in DOMAIN args |->
                             <<Scalar(<<"arg", args[i]>>), Scalar(<<"type", args[i]>>)>>])),
         Key("group"), Scalar(<<"group", m.group>>)>>)

(* Mutant of MapOrders: as Go's range over a map comes. *)
MapOrdersAny(args) == {args, Reverse(args)}

Sorted(args) == SortSeq(args, LAMBDA a, b : a < b)

(* SetSortMapKeys: the order in which a map may be encoded. *)
MapOrders(args) == {Sorted(args)}

EncodeManifest ==
  /\ phase = "version" /\ result = "none"
  /\ \E orders \in [DOMAIN registry -> UNION {MapOrders(registry[i].args) : i \in DOMAIN registry}] :
       /\ \A i \in DOMAIN registry : orders[i] \in MapOrders(registry[i].args)
       /\ Convert(<<List([i \in DOMAIN registry |-> Entry(registry[i], orders[i])])>>)
  /\ UNCHANGED <<vars, version>>

ToJson ==
  /\ ConvertStep
  /\ UNCHANGED <<vars, version>>

(* apiHash, of the whole text; MakeService returns. *)
SetVersion ==
  /\ Versioned /\ result = "ok"
  /\ version' = out
  /\ UNCHANGED converter

ServiceNext ==
  \/ Register /\ UNCHANGED <<converter, version>>
  \/ EncodeManifest \/ ToJson \/ SetVersion

ServiceSpec == ServiceInit /\ [][ServiceNext]_allVars

-----------------------------------------------------------------------------
(* Properties. *)

(* The methods of the API, in their order. *)
Apis(methods) ==
  FlattenSeq([i \in DOMAIN methods |-> IF IsApi(methods[i]) THEN <<methods[i]>> ELSE <<>>])

GroupGiven(ss, name) ==
  LET givers == {s \in 1..Made : name \in DOMAIN ss[s].docs /\ ss[s].docs[name] # NoGroup}
  IN  IF givers = {} THEN NoGroup ELSE ss[Max(givers)].docs[name]

Manifest(ss) ==
  LET ms == FlattenSeq([s \in 1..Made |-> Apis(ss[s].methods)])
  IN  List([i \in DOMAIN ms |->
             LET name == dashedName(ms[i].name)
             IN  Entry([name |-> name, group |-> GroupGiven(ss, name)], Sorted(ms[i].args))])

ASSUME ManifestsKnown == \A program \in Programs : program # <<>> => Manifest(Own \o program) \in Data

(* The API version says nothing but what the manifest says (service.go:152): *)
(* the same services give the same version, however Go ranges over its maps, *)
(* with the arguments sorted and each method under the group that the last   *)
(* docs naming it with a group gave.                                         *)
SameVersion == version # <<>> => version = AsPrinted(Lines(<<Manifest(services)>>))

=============================================================================
