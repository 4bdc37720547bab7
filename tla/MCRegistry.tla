----------------------------- MODULE MCRegistry -----------------------------
EXTENDS Registry

A == <<Upper(0), Lower(1)>>                          \* "Ab"
B == <<Upper(7), Upper(8), Lower(9), Digit(0), Upper(1), Upper(2)>>  \* "HTp0AB"
(* Two Go names with one dashed name: "GetURL" and "GetUrl". *)
Loud  == <<Upper(7), Lower(8), Upper(9), Upper(0)>>
Quiet == <<Upper(7), Lower(8), Upper(9), Lower(0)>>

Shape == {<<>>, <<"info", "struct", "struct", "struct">>}
         \cup [1..1 -> Kinds] \cup [1..2 -> Kinds] \cup [1..3 -> Kinds]

Plain(prefix, name, args) == Method(prefix, name, <<"info", "struct">>, FALSE, args)
NoDocs == <<>>

(* The fields of a last parameter that is a struct, if it has any. *)
Fields(ins) == {<<>>} \cup (IF ins # <<>> /\ ins[Len(ins)] = "struct" THEN {<<3>>} ELSE {})

(* Every shape of a method, with a result or without, as the second of four. *)
Shaped(ins, void, args) ==
  Service(<<Plain("Api", A, <<2, 1>>), Method("Api", B, ins, void, args),
            Method("Other", Loud, <<>>, TRUE, <<>>), Plain("PublicApi", Quiet, <<1, 0>>)>>,
          NoDocs, <<>>)

ByShape == UNION {{<<Shaped(ins, void, args)>> : void \in BOOLEAN, args \in Fields(ins)} : ins \in Shape}

(* And what docs may say of it. *)
ByDocs ==
  UNION {{<<Marked(Shaped(ins, TRUE, args), gens, typed)>> :
            args \in Fields(ins), gens \in SUBSET {dashedName(B)}, typed \in SUBSET {dashedName(B)}} :
           ins \in Shapes}

(* Names that collide, with each other, kettlingar's or the static commands. *)
ByName ==
  {<<Service(<<Plain("Api", A, <<3, 1>>), Plain("Api", first, <<>>), Plain("PublicApi", second, <<>>)>>,
             NoDocs, <<>>)>> :
     first \in {Loud, Ping, <<Upper(5)>>}, second \in {Quiet, Loud, B}}

(* Docs and groups, and a service the application registers afterwards. *)
ByGroup ==
  {<<Service(<<Plain("Api", A, <<2, 1>>), Plain("Api", <<Upper(5)>>, <<>>)>>, docs, <<"g", "h">>),
     Service(<<Plain("Api", B, <<>>), Method("Api", Loud, ins, FALSE, <<>>)>>, late, <<"h", "g">>)>> :
     docs \in [{dashedName(A), dashedName(Ping)} -> {NoGroup, "g", "x"}],
     late \in {NoDocs, dashedName(A) :> "h"},
     ins \in {<<"info">>, <<"struct">>}}

RECURSIVE MCEncode(_), MCJson(_), Within(_)
MCEncode(v) == Encoding(v, [i \in DOMAIN v.items |-> MCEncode(v.items[i])])
MCJson(v)   == Spelling(v, [i \in DOMAIN v.items |-> MCJson(v.items[i])])
Within(v)   == {v} \cup UNION {Within(v.items[i]) : i \in DOMAIN v.items}

MCPrograms == ByShape \cup ByDocs \cup ByName \cup ByGroup

(* Values up to three levels deep. *)
Num(i) == <<"number", i>>
N(i)   == Scalar(Num(i))
Flat == {N(1), Ext(Num(5), Num(6)), List(<<>>), Dict(<<>>)}
Nested == Flat \cup {List(<<v, w>>) : v, w \in Flat} \cup {Dict(<<N(2), v>>) : v \in Flat}
            \cup {Dict(<<N(2), v, N(3), w>>) : v, w \in Flat}
MCOdd == {Num(2), <<"arg", 3>>}    \* one in samples, and the name of a parameter
MCSamples == {<<v>> : v \in Nested} \cup {<<v, w>> : v, w \in Flat}
               \cup {<<List(<<N(1), v, N(4)>>)>> : v \in Nested}
               \cup {<<Dict(<<N(2), v>>), N(1)>> : v \in Nested} \cup {<<>>}
MCData == UNION {Within(v) : v \in UNION {Range(sample) : sample \in MCSamples}
                                     \cup {Manifest(Own \o program) : program \in MCPrograms}}
=============================================================================
