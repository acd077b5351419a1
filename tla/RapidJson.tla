----------------------------- MODULE RapidJson -----------------------------
(***************************************************************************)
(* RapidJsonWriter, RapidJsonReader and RapidJsonSerializer.  The library  *)
(* that writes and parses the text is outside: what is written is taken as *)
(* the document it is parsed to, a tree whose objects hold names and       *)
(* values alternately, one after the other.  The reader walks the tree by  *)
(* a pointer, here the path of a node from the root.                       *)
(***************************************************************************)
EXTENDS TypeVisitor

Node(json, v) == [json |-> json, v |-> v]

(***************************************************************************)
(* RapidJsonWriter: the open containers, the innermost last.  The last of  *)
(* all is a list for the document itself.                                  *)
(***************************************************************************)

Writer == [open |-> <<Node("array", << >>)>>]

(* What is written goes into the innermost container.                      *)
Write(w, node) == [w EXCEPT !.open[Len(w.open)].v = Append(@, node)]

Begin(w, json) == [w EXCEPT !.open = Append(@, Node(json, << >>))]
End(w) == Write([w EXCEPT !.open = Front(@)], Last(w.open))

NestingLevel(w) == Len(w.open) - 1

EnumeratorTag(E, value) == [neg |-> FALSE, mag |-> <<E.enumerators[FromValue(E, value)].tag>>]

(* visitFundamentalTypeDerived, writing.                                   *)
Json(type) ==
    CASE type.kind \in {"int", "property_set", "float", "timepoint"} -> "number"
      [] type.kind = "bool"             -> "bool"
      [] type.kind \in {"uuid", "string"} -> "string"

(* visitPropertyBeginDerived: an invalid property is written as null.      *)
WriteProperty(w, e) ==
    LET n == IF NestingLevel(w) > 0 THEN Write(w, Node("string", e.property.name)) ELSE w
    IN  IF e.valid THEN n ELSE Write(n, Node("null", 0))

(* What RapidJsonSerializer writes on a call of the visitor.               *)
RapidJsonWrite(w, e) ==
    CASE e.at = "structBegin" -> Begin(w, "object")
      [] e.at = "vectorBegin" -> Begin(w, "array")
      [] e.at \in {"structEnd", "vectorEnd"} -> End(w)
      [] e.at = "property"    -> WriteProperty(w, e)
      [] e.at = "enum"        -> Write(w, Node("number", EnumeratorTag(e.type, e.value)))
      [] e.at = "fundamental" -> Write(w, Node(Json(e.type), e.value))

Document(w) == w.open[1].v[1]

(* RapidJsonSerializer::Serialize: the document a fresh writer makes of    *)
(* the calls of the visitor.                                               *)
RapidJsonSerialize(calls) == Document(FoldLeft(RapidJsonWrite, Writer, calls))

(***************************************************************************)
(* RapidJsonReader.                                                        *)
(***************************************************************************)

Null == <<0>>

Reader(document) == [doc |-> document, input |-> << >>, nest |-> << >>, v |-> 0, ok |-> TRUE]

Throw(r) == [r EXCEPT !.ok = FALSE]

RECURSIVE At(_, _)
At(node, path) == IF path = << >> THEN node ELSE At(node.v[Head(path)], Tail(path))

(* The pointer is to a node, or one past the last of a container.          *)
Points(r) == r.input # Null /\ (r.input = << >> \/ Last(r.input) <= Len(At(r.doc, Front(r.input)).v))
Input(r)  == At(r.doc, r.input)
IsA(r, json) == Points(r) /\ Input(r).json = json

(* finalizeRead: on to the next node of the container, or nowhere.         *)
FinalizeRead(r) ==
    IF r.nest = << >> THEN [r EXCEPT !.input = Null]
    ELSE [r EXCEPT !.input[Len(r.input)] = @ + 1]

(* readArrayBegin, readObjectBegin: to the first node of the container.    *)
ReadBegin(r, json) ==
    IF IsA(r, json) THEN [r EXCEPT !.nest = Append(@, r.input), !.input = Append(@, 1)] ELSE Throw(r)

(* tryReadArrayEnd, tryReadObjectEnd: the container is left behind once    *)
(* the pointer is past its last node.                                      *)
TryReadEnd(r) ==
    LET container == Last(r.nest)
    IN  IF r.ok /\ r.input = Append(container, Len(At(r.doc, container).v) + 1)
        THEN [FinalizeRead([r EXCEPT !.input = container, !.nest = Front(@)]) EXCEPT !.v = TRUE]
        ELSE [r EXCEPT !.v = FALSE]

(* read(): the value of a node of the expected type.                       *)
Read(r, json) ==
    IF IsA(r, json) THEN [FinalizeRead(r) EXCEPT !.v = Input(r).v] ELSE Throw(r)

TryReadNull(r) == IF IsA(r, "null") THEN [FinalizeRead(r) EXCEPT !.v = TRUE] ELSE [r EXCEPT !.v = FALSE]

Skip(r) == FinalizeRead(r)

(***************************************************************************)
(* RapidJsonSerializer, reading.                                           *)
(***************************************************************************)

EnumOf(t, E) ==
    IF t.ok /\ HasEnumTag(E, t.v.mag[1])
    THEN [t EXCEPT !.v = E.enumerators[FromTag(E, @.mag[1])].value] ELSE Throw(t)

ReadEnum(r, E) == EnumOf(Read(r, "number"), E)

RECURSIVE RapidJsonRead(_, _, _, _, _), Elements(_, _, _, _), Members(_, _, _, _, _),
          Member(_, _, _, _, _), Property(_, _, _, _, _, _)

(* visitVectorBeginDerived: each element is appended to the vector.        *)
Elements(e, type, vector, entered) ==
    IF ~e.ok \/ e.v THEN [e EXCEPT !.v = vector]
    ELSE LET x == RapidJsonRead(e, type.of, Default(type.of), {}, Within(entered))
         IN  Elements(TryReadEnd(x), type, Append(vector, x.v), entered)

(* visitStructBeginDerived: the members up to the end of the object.       *)
Members(e, S, instance, included, entered) ==
    IF ~e.ok \/ e.v THEN [e EXCEPT !.v = instance]
    ELSE Member(Read(e, "string"), S, instance, included, entered)

Member(m, S, instance, included, entered) ==
    LET p == ByName(S, m.v)
    IN  IF ~m.ok THEN m
        ELSE IF HasName(S, m.v) /\ (VisitingLevel(entered) > 0 \/ p.tag \in included)
             THEN Property(TryReadNull(m), p, S, instance, included, entered)
        ELSE Members(TryReadEnd(Skip(m)), S, instance, included, entered)

Property(n, p, S, instance, included, entered) ==
    IF n.v
    THEN Members(TryReadEnd(n), S, [t \in DOMAIN instance \ {p.tag} |-> instance[t]], included, entered)
    ELSE LET x == RapidJsonRead(n, p.type, ValueOrEmplace(instance, p), {}, Within(entered))
         IN  Members(TryReadEnd(x), S, (p.tag :> x.v) @@ instance, included, entered)

RapidJsonRead(r, type, old, included, entered) ==
    CASE type.kind = "struct" ->
           Members(TryReadEnd(ReadBegin(r, "object")), type, old, included, entered)
      [] type.kind = "vector" ->
           Elements(TryReadEnd(ReadBegin(r, "array")), type, old, entered)
      [] type.kind = "enum"   -> ReadEnum(r, type)
      [] OTHER                -> Read(r, Json(type))

(* RapidJsonSerializer::Deserialize: a value from a document of its own.   *)
RapidJsonDeserialize(document, type, old, included) ==
    RapidJsonRead(Reader(document), type, old, included, Within(0))
=============================================================================
