-------------------------- MODULE MCSerialization --------------------------
EXTENDS Serialization

IntType(signed, size) == [kind |-> "int", signed |-> signed, size |-> size]
FloatType(size)       == [kind |-> "float", size |-> size]
VectorOf(type)        == [kind |-> "vector", of |-> type]
Prop(tag, name, type) == [tag |-> tag, name |-> name, type |-> type]
StructOf(name, props) == [kind |-> "struct", name |-> name, properties |-> props]

Bool   == [kind |-> "bool"]
String == [kind |-> "string"]
Uuid   == [kind |-> "uuid"]
Set    == [kind |-> "property_set"]
Time   == [kind |-> "timepoint"]
Color  == [kind |-> "enum", name |-> "Color",
           enumerators |-> <<[tag |-> 1, value |-> 7, name |-> "red"],
                             [tag |-> 30, value |-> 0, name |-> "blue"]>>]

One(type) == StructOf("One", <<Prop(1, "only", type)>>)

Inner == StructOf("Inner", <<Prop(1, "a", IntType(FALSE, 1)), Prop(3, "b", String)>>)
Outer == StructOf("Outer", <<Prop(1, "id", IntType(TRUE, 4)), Prop(2, "inner", Inner),
                             Prop(3, "list", VectorOf(Inner)), Prop(4, "names", VectorOf(String)),
                             Prop(5, "color", Color), Prop(24, "ratio", FloatType(4))>>)

Without(S, tags) == [S EXCEPT !.properties = SelectSeq(@, LAMBDA p : p.tag \notin tags)]
Tags(S) == {S.properties[i].tag : i \in DOMAIN S.properties}

(* The cases.                                                              *)
Send(format, style, strict, sent, known, messages, wanted, old) ==
    [format |-> format, style |-> style, strict |-> strict, sent |-> sent, known |-> known,
     messages |-> messages, wanted |-> wanted, old |-> old]

Formats == {<<"cbor", "", FALSE>>, <<"experimental", "", FALSE>>, <<"rapidjson", "", FALSE>>}
           \cup {<<f, s, FALSE>> : f \in {"json", "string"}, s \in {"Minified", "SingleLine", "MultiLine"}}
           \cup {<<"json", "Minified", TRUE>>, <<"string", "MultiLine", TRUE>>}

AnyTag == 1..30

(* One value of a type, in a struct and by itself.                         *)
Alone(f, type, value) ==
    Send(f[1], f[2], f[3], type, type, <<[value |-> value, included |-> AnyTag]>>, AnyTag, Default(type))
InStruct(f, type, value) ==
    Send(f[1], f[2], f[3], One(type), One(type),
         <<[value |-> 1 :> value, included |-> {1}]>>, AnyTag, << >>)

Ff(n) == [i \in 1..n |-> 255]
Mags == {<< >>, <<1>>, <<23>>, <<24>>, <<127>>, <<128>>, <<255>>, <<1, 0>>, Ff(2), <<1, 0, 0>>,
         <<127>> \o Ff(3), Ff(4), <<1, 0, 0, 0, 0>>, <<127>> \o Ff(7), <<128, 0, 0, 0, 0, 0, 0, 0>>, Ff(8)}

Fits(type, n) ==
    IF type.signed THEN Len(n.mag) < type.size \/ (Len(n.mag) = type.size /\ n.mag[1] < 128)
    ELSE Len(n.mag) <= type.size /\ ~n.neg

Ints == {IntType(s, w) : s \in BOOLEAN, w \in {1, 2, 4, 8}}
Numbers == {x \in {<<t, [neg |-> n, mag |-> m]>> : t \in Ints, n \in BOOLEAN, m \in Mags} : Fits(x[1], x[2])}

Floats == {<<FloatType(n), [i \in 1..n |-> IF i = 1 THEN b ELSE c]>> : n \in {4, 8}, b \in {0, 64, 128}, c \in {0, 3}}

Fill(n) == [i \in 1..n |-> 97]
Lengths(f) == {0, 1, 23, 24} \cup IF f[1] \in {"cbor", "experimental"} THEN {255, 256} ELSE {}
Letters == {97, 32, 34, 92, 44, 125, 10}
Strings == UNION {[1..n -> Letters] : n \in 0..2}

Others == {<<Bool, TRUE>>, <<Bool, FALSE>>, <<Color, 7>>, <<Color, 0>>, <<Uuid, Fill(16)>>,
           <<Set, [neg |-> FALSE, mag |-> Ff(4)]>>, <<Time, Fill(8)>>, <<Time, [i \in 1..8 |-> 0]>>}

(* A string at the top level of a text is the whole text: it cannot be     *)
(* empty, and leading blanks are lost.                                     *)
BareString(f, s) == f[1] \in {"json", "string"} => s # << >> /\ s[1] # 32

Values == {InStruct(f, x[1], x[2]) : f \in Formats, x \in Numbers \cup Floats \cup Others}
          \cup {Alone(f, x[1], x[2]) : f \in Formats, x \in Floats \cup Others}
          \cup {InStruct(f, String, s) : f \in Formats, s \in Strings}
          \cup {Alone(f, String, s) : f \in Formats, s \in {s \in Strings : Len(s) < 2}}
Bare == {c \in Values : c.sent.kind = "string" => BareString(<<c.format>>, c.messages[1].value)}
Long == UNION {{InStruct(f, String, Fill(n)) : n \in Lengths(f)} : f \in Formats}
        \cup {InStruct(f, VectorOf(Bool), [i \in 1..n |-> i % 2 = 0]) : f \in Formats, n \in {0, 1, 23, 24}}
        \cup {Alone(f, VectorOf(Color), [i \in 1..n |-> 7]) : f \in Formats, n \in {0, 1, 2}}

(* Instances with nested values, sent after one another.                   *)
InnerValues == {<< >>, 1 :> [neg |-> FALSE, mag |-> <<200>>], 3 :> <<44, 34>>,
                (1 :> [neg |-> FALSE, mag |-> << >>]) @@ (3 :> << >>)}
I(n) == [neg |-> FALSE, mag |-> <<n>>]
OuterValues ==
    {(1 :> [neg |-> TRUE, mag |-> <<2>>]) @@ (2 :> i) @@ (5 :> 0) : i \in InnerValues}
    \cup {(3 :> <<i, j>>) @@ (4 :> <<<<125>>, << >>>>) : i \in InnerValues, j \in InnerValues}
    \cup {(24 :> <<64, 0, 0, 0>>) @@ (4 :> << >>) @@ (3 :> << >>), << >>}
Small == (1 :> I(1)) @@ (5 :> 7)

(* The bound of Unaffected: see Defects.                                   *)
Unaffected(f, v) == ~(f[1] = "string" /\ f[2] = "MultiLine" /\ 3 \in DOMAIN v /\ v[3] # << >>)

Message(v) == [value |-> v, included |-> DOMAIN v]

Pairs == {Send(f[1], f[2], f[3], Outer, Outer, <<Message(v), Message(Small), Message(v)>>, AnyTag, << >>) :
            f \in Formats, v \in OuterValues}

(* A receiver that lacks properties, or wants only some, or has a value    *)
(* already.  The experimental format has none of this.                     *)
Skipping == {f \in Formats : f[1] # "experimental"}
Narrow == {Without(Outer, tags) : tags \in {{1}, {2}, {3, 4}, {5, 24}, {1, 2, 3, 4, 5, 24}}}
          \cup {[Outer EXCEPT !.properties[2].type = Without(Inner, {tag}),
                              !.properties[3].type = VectorOf(Without(Inner, {tag}))] : tag \in {1, 3}}
Unknown == {Send(f[1], f[2], f[3], Outer, S, <<Message(v), Message(Small)>>, AnyTag, << >>) :
              f \in Skipping, S \in Narrow, v \in OuterValues}
Wanted == {Send(f[1], f[2], f[3], Outer, Outer, <<Message(v), Message(Small)>>, tags, << >>) :
              f \in Skipping, tags \in {{1, 2}, {3}}, v \in OuterValues}
Existing == {Send(f[1], f[2], f[3], Outer, Outer, <<[value |-> v, included |-> tags]>>, AnyTag,
                  (1 :> I(9)) @@ (2 :> (3 :> <<97>>)) @@ (5 :> 7)) :
              f \in Skipping, tags \in {{1, 2, 5}, AnyTag}, v \in OuterValues}

SomeCases == {c \in Bare \cup Long \cup Pairs \cup Unknown \cup Wanted \cup Existing :
                c.sent = Outer => Unaffected(<<c.format, c.style>>, c.messages[1].value)}

(* A string of 24 characters that the receiver does not know.              *)
Defects == {Send("cbor", "", FALSE, StructOf("Two", <<Prop(1, "a", Bool), Prop(2, "b", String)>>), One(Bool),
                 <<Message((1 :> TRUE) @@ (2 :> Fill(n)))>>, AnyTag, << >>) : n \in {23, 24}}
=============================================================================
