---------------------------- MODULE MsgpackJson -----------------------------
(* The converter that turns the msgpack of a reply, and of the API manifest, *)
(* into JSON without knowing the types (kettlingar/msgpack_to_json.go).  It  *)
(* reads one value after the other and calls itself for what is inside one;  *)
(* its call stack is a sequence of frames here.  What it reads are tokens, a *)
(* prefix byte with the length or the scalar that follows; what it writes    *)
(* are brackets, separators and the texts of scalars.                        *)
EXTENDS Naturals, SequencesExt

CONSTANTS
  Data,         \* the values that are encoded, with all that is inside of them
  Encode(_),    \* the tokens that the msgpack library's encoder writes for one
  Json(_),      \* its text in JSON, as the standard of JSON has it
  Odd           \* scalars that Go does not print as JSON: strings with runes that %q
                \* escapes in its own way, and numbers that are none

VARIABLES
  given,        \* history: the values that were encoded, in order
  input,        \* tokens not read yet
  out,          \* what was written
  stack,        \* the arrays and maps it is inside of, the innermost last
  want,         \* a value is to be read next, rather than one just written
  result        \* "none", "run", or what Convert returned: "ok" or "error"

converter == <<given, input, out, stack, want, result>>

(* A value: a scalar, whose items are empty, or an array, a map (its items   *)
(* alternate keys and values) or an extension (its code and its data).       *)
Value(kind, lit, items) == [kind |-> kind, lit |-> lit, items |-> items]
Absent       == <<>>
Scalar(x)    == Value("lit", x, <<>>)
List(items)  == Value("arr", Absent, items)
Dict(items)  == Value("map", Absent, items)
Ext(code, x) == Value("ext", Absent, <<Scalar(code), Scalar(x)>>)

Token(tag, n, x) == [tag |-> tag, n |-> n, lit |-> x]
Punct(s) == <<"punct", s>>
Text(x)  == <<"text", x>>       \* of a scalar, in JSON
Quoted(x) == <<"quoted", x>>    \* what Go prints for an odd one

ValueKinds == {"lit", "arr", "map", "ext"}

ASSUME DataNested ==
  \A v \in Data :
    /\ v = Value(v.kind, v.lit, v.items) /\ v.kind \in ValueKinds
    /\ v.items \in Seq(Data)
    /\ v.kind = "map" => Len(v.items) % 2 = 0
    /\ v.kind = "ext" => v = Ext(v.items[1].lit, v.items[2].lit)
                         /\ v.items[1].lit \notin Odd /\ v.items[2].lit \notin Odd

IsSequence(s) == Len(s) \in Nat /\ s = [i \in 1..Len(s) |-> s[i]]

(* What is written for a value, when that is what is written for its items.  *)
Encoding(v, inner) ==
  CASE v.kind = "lit" -> <<Token("lit", 0, v.lit)>>
    [] v.kind = "ext" -> <<Token("ext", v.items[1].lit, v.items[2].lit)>>
    [] v.kind = "arr" -> <<Token("arr", Len(inner), Absent)>> \o FlattenSeq(inner)
    [] v.kind = "map" -> <<Token("map", Len(inner) \div 2, Absent)>> \o FlattenSeq(inner)

Encodes(values) == FlattenSeq([i \in DOMAIN values |-> Encode(values[i])])

(* The encoder goes through a value in this order. *)
ASSUME EncodeRule ==
  \A v \in Data :
    /\ Encode(v) = Encoding(v, [i \in DOMAIN v.items |-> Encode(v.items[i])])
    /\ IsSequence(Encode(v))

-----------------------------------------------------------------------------

Convert(values) ==
  /\ given' = values
  /\ input' = Encodes(values)
  /\ out' = <<>> /\ stack' = <<>>
  /\ want' = TRUE /\ result' = "run"

Running == result = "run"
Writes(texts) == out' = out \o texts
Next1 == Head(input)

(* fmt's verb for the scalar. *)
Printed(x) == IF x \in Odd THEN Quoted(x) ELSE Text(x)

(* decodeNext: a scalar; an extension, in brackets (a number and hexadecimal *)
(* digits), unless it is a time, which is a scalar.                          *)
ReadScalar ==
  /\ Running /\ want /\ input # <<>> /\ Next1.tag \in {"lit", "ext"}
  /\ Writes(IF Next1.tag = "lit" THEN <<Printed(Next1.lit)>>
            ELSE <<Punct("["), Text(Next1.n), Punct(","), Text(Next1.lit), Punct("]")>>)
  /\ input' = Tail(input) /\ want' = FALSE
  /\ UNCHANGED <<given, stack, result>>

(* The head of an array or a map: decodeArray or decodeMap is called. *)
ReadHead ==
  /\ Running /\ want /\ input # <<>> /\ Next1.tag \in {"arr", "map"}
  /\ Writes(<<Punct(IF Next1.tag = "arr" THEN "[" ELSE "{")>>)
  /\ stack' = Append(stack, [kind |-> Next1.tag, left |-> Next1.n, key |-> TRUE])
  /\ input' = Tail(input)
  /\ want' = (Next1.n > 0)
  /\ UNCHANGED <<given, result>>

Top == stack[Len(stack)]

(* The key of a map was written, its value follows. *)
AfterKey ==
  /\ Running /\ ~want /\ stack # <<>> /\ Top.kind = "map" /\ Top.left > 0 /\ Top.key
  /\ Writes(<<Punct(":")>>)
  /\ stack' = [stack EXCEPT ![Len(stack)].key = FALSE]
  /\ want' = TRUE
  /\ UNCHANGED <<given, input, result>>

AfterItemIf(more) ==
  /\ Running /\ ~want /\ stack # <<>>
  /\ Top.kind = "map" /\ Top.left > 0 => ~Top.key
  /\ Writes(<<Punct(IF more THEN "," ELSE IF Top.kind = "arr" THEN "]" ELSE "}")>>)
  /\ stack' = IF more THEN [stack EXCEPT ![Len(stack)].left = @ - 1, ![Len(stack)].key = TRUE]
                      ELSE SubSeq(stack, 1, Len(stack) - 1)
  /\ want' = more
  /\ UNCHANGED <<given, input, result>>

(* Mutant of AfterItem: one item more is expected. *)
AfterItemLate == AfterItemIf(stack # <<>> /\ Top.left > 0)

(* An item was written: the next one follows, or the container is closed and *)
(* the call returns.                                                         *)
AfterItem == AfterItemIf(stack # <<>> /\ Top.left > 1)

(* The call from Convert returns: a newline. *)
AfterValue ==
  /\ Running /\ ~want /\ stack = <<>>
  /\ Writes(<<Punct("newline")>>)
  /\ want' = TRUE
  /\ UNCHANGED <<given, input, stack, result>>

(* The end of the input, wherever it is met, ends Convert without an error. *)
AtEOF ==
  /\ Running /\ want /\ input = <<>>
  /\ result' = "ok"
  /\ UNCHANGED <<given, input, out, stack, want>>

ConvertStep == ReadScalar \/ ReadHead \/ AfterKey \/ AfterItem \/ AfterValue \/ AtEOF

-----------------------------------------------------------------------------
(* Properties. *)

Separator(kind, i) == Punct(IF kind = "map" /\ i % 2 = 0 THEN ":" ELSE ",")

(* The text of a value, when that is the text of its items. *)
Spelling(v, inner) ==
  IF v.kind = "lit" THEN <<Text(v.lit)>>
  ELSE <<Punct(IF v.kind = "map" THEN "{" ELSE "[")>>
         \o FlattenSeq([i \in DOMAIN inner |->
              (IF i = 1 THEN <<>> ELSE <<Separator(v.kind, i)>>) \o inner[i]])
         \o <<Punct(IF v.kind = "map" THEN "}" ELSE "]")>>

ASSUME JsonRule ==
  \A v \in Data :
    /\ Json(v) = Spelling(v, [i \in DOMAIN v.items |-> Json(v.items[i])])
    /\ IsSequence(Json(v))

Lines(values) == FlattenSeq([i \in DOMAIN values |-> Json(values[i]) \o <<Punct("newline")>>])

AsPrinted(texts) ==
  [i \in DOMAIN texts |-> IF texts[i] \in {Text(x) : x \in Odd} THEN Quoted(texts[i][2]) ELSE texts[i]]

(* What the converter writes for whole encodings is the JSON of the values,  *)
(* one to a line and in order, however they are nested (Convert), but for    *)
(* the odd scalars inside, which are there as Go prints them: it never stops *)
(* half-way, and at any moment has written a beginning of it.                *)
ConvertsExactly ==
  result # "none" =>
    /\ IsPrefix(out, AsPrinted(Lines(given)))
    /\ result = "ok" => out = AsPrinted(Lines(given)) /\ stack = <<>>

=============================================================================
