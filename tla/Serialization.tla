--------------------------- MODULE Serialization ---------------------------
(***************************************************************************)
(* The serializers of the library at work: values are serialized one after *)
(* another into one output, and deserialized from it one after another,    *)
(* possibly by a program whose types have fewer properties.  A case says   *)
(* what is sent, in which format, and to whom.                             *)
(*   format, style, strict   the serializer and its text options           *)
(*   sent, known             the type of the sender, and of the receiver   *)
(*   messages                sequence of [value, included]                 *)
(*   wanted                  the properties the receiver includes          *)
(*   old                     the value that is deserialized into           *)
(***************************************************************************)
EXTENDS TypeVisitor

CONSTANT Cases

VARIABLES case,      \* what is sent
          output,    \* what has been serialized
          sizes,     \* lastSerializeSize() after each value
          position,  \* inputData(): how much of it has been deserialized
          consumed,  \* lastDeserializeSize() after each value
          received,  \* the values deserialized
          failed     \* an exception has been thrown

vars == <<case, output, sizes, position, consumed, received, failed>>

C == INSTANCE Cbor
X == INSTANCE Text
J == INSTANCE RapidJson

TextFormat ==
    (IF case.format = "json" THEN X!JsonFormat ELSE X!StringFormat)
    @@ [style |-> case.style, strict |-> case.strict]

(* serialize(): the calls of the visitor, each turned into output.         *)
Serialized(m) ==
    LET narrow == case.format \in {"cbor", "experimental"}
        calls  == Visit(case.sent, m.value, m.included, narrow)
    IN  CASE case.format = "cbor"         -> FlattenSeq([i \in DOMAIN calls |-> C!CborWrite(calls[i])])
          [] case.format = "experimental" -> FlattenSeq([i \in DOMAIN calls |-> C!ExperimentalWrite(calls[i])])
          [] case.format = "rapidjson"    -> <<J!RapidJsonSerialize(calls)>>
          [] OTHER -> FoldLeft(LAMBDA w, e : X!TextWrite(TextFormat, w, e), X!Writer, calls).out

(* deserialize(): from the present position, into the old value.  A        *)
(* document is a whole input of its own.                                   *)
Deserialized ==
    CASE case.format = "cbor" ->
           C!CborRead(C!Reader(output, position), case.known, case.old, case.wanted, Within(0))
      [] case.format = "experimental" ->
           C!ExperimentalRead(C!Reader(output, position), case.known, case.old)
      [] case.format = "rapidjson" ->
           LET r == J!RapidJsonDeserialize(output[position + 1], case.known, case.old, case.wanted)
           IN  [v |-> r.v, ok |-> r.ok, pos |-> position + (IF r.input = J!Null THEN 1 ELSE 0)]
      [] OTHER ->
           X!TextRead(TextFormat, X!Reader(output, position), case.known, case.old, case.wanted, Within(0))

Init ==
    /\ case \in Cases
    /\ output = << >> /\ sizes = << >>
    /\ position = 0 /\ consumed = << >> /\ received = << >>
    /\ failed = FALSE

Serialize ==
    /\ Len(sizes) < Len(case.messages)
    /\ \E text \in {Serialized(case.messages[Len(sizes) + 1])} :
         /\ output' = output \o text
         /\ sizes' = Append(sizes, Len(text))
    /\ UNCHANGED <<case, position, consumed, received, failed>>

(* visitBeginDerived: there must be input left.                            *)
HasInput == position < Len(output)

(* The size of what is consumed is counted from where it begins.           *)
Deserialize ==
    /\ HasInput /\ ~failed
    /\ \E d \in {Deserialized} :
         IF d.ok THEN /\ position' = d.pos
                      /\ consumed' = Append(consumed, d.pos - position)
                      /\ received' = Append(received, d.v)
                      /\ UNCHANGED failed
                 ELSE failed' = TRUE /\ UNCHANGED <<position, consumed, received>>
    /\ UNCHANGED <<case, output, sizes>>

Next == Serialize \/ Deserialize

Spec == Init /\ [][Next]_vars

-----------------------------------------------------------------------------
(* What a receiver should get.                                             *)

(* A zero has no sign in the text formats and in the experimental one.     *)
SameZero(float) ==
    IF case.format \notin {"cbor", "rapidjson"} /\ C!IsZero(float) THEN C!Zeros(Len(float)) ELSE float

RECURSIVE Received(_, _, _)

(* The properties the receiver knows, put into what it has already.        *)
Updated(S, old, new, removed) ==
    LET known == {t \in DOMAIN new : HasTag(S, t)}
    IN  [t \in known \cup (DOMAIN old \ removed) |->
           IF t \notin known THEN old[t]
           ELSE Received(ByTag(S, t).type, ValueOrEmplace(old, ByTag(S, t)), new[t])]

Received(type, old, new) ==
    CASE type.kind = "struct" -> Updated(type, old, new, {})
      [] type.kind = "vector" -> [i \in DOMAIN new |-> Received(type.of, Default(type.of), new[i])]
      [] type.kind \in {"float", "timepoint"} -> SameZero(new)
      [] OTHER                -> new

(* Binary formats leave out what is invalid, text formats invalidate it.   *)
Expected(m) ==
    LET included == m.included \cap case.wanted
        new      == [t \in included \cap DOMAIN m.value |-> m.value[t]]
        removed  == IF case.format \in {"cbor", "experimental"} THEN {}
                    ELSE included \ DOMAIN m.value
    IN  IF case.known.kind = "struct" THEN Updated(case.known, case.old, new, removed)
        ELSE Received(case.known, case.old, m.value)

(* What is deserialized is what was serialized, in every format, at every  *)
(* width of numbers and sizes, for types with more properties than the     *)
(* receiver has: the properties it knows and wants arrive, the others are  *)
(* skipped, what it had already stays, and nothing is thrown.              *)
RoundTrip ==
    /\ ~failed
    /\ \A i \in DOMAIN received : received[i] = Expected(case.messages[i])

(* Deserializing a value consumes exactly what serializing it produced, so *)
(* that the next one is read from where it begins.                         *)
StaysInSync == \A i \in DOMAIN consumed : consumed[i] = sizes[i]
=============================================================================
