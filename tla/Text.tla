-------------------------------- MODULE Text --------------------------------
(***************************************************************************)
(* TextWriter, TextReader and TextSerializer, with JsonFormat and          *)
(* StringFormat, token by token.  Names, numbers and the like are one      *)
(* token; what the reader looks at (delimiters, separators, escapes,       *)
(* blanks, the characters of strings) is there in full.  A format is a     *)
(* record of the tokens it writes, the style and the policy.               *)
(***************************************************************************)
EXTENDS TypeVisitor

T(x) == <<"s", x>>

Blank     == T(" ")
Delimiter == T("\"")
Escape    == T("\\")
Comma     == T(",")

(* JsonFormat with JsonSerializerFormat.                                   *)
JsonFormat ==
    [array |-> <<T("["), T("]")>>, nameBegin |-> Delimiter, nameEnd |-> <<Delimiter, T(":")>>,
     valueBegin |-> << >>, null |-> T("null"), typed |-> FALSE]

(* StringFormat with StringSerializerFormat: type names, suffixes of       *)
(* numbers, identifiers for enumerators, binary property sets, ISO times.  *)
StringFormat ==
    [array |-> <<T("{"), T("}")>>, nameBegin |-> T("."), nameEnd |-> << >>,
     valueBegin |-> <<T("=")>>, null |-> T("<invalid>"), typed |-> TRUE]

(* A character of a string is a token, the one of the format if it has one.*)
Character(c) ==
    CASE c = 32 -> Blank [] c = 34 -> Delimiter [] c = 92 -> Escape [] c = 44 -> Comma
      [] c = 47 -> T("/") [] c = 91 -> T("[")  [] c = 93 -> T("]")
      [] c = 123 -> T("{") [] c = 125 -> T("}") [] OTHER -> <<"c", c>>

(* StringEscapeMapping: the quote, the backslash, the slash, \b \f \n \r \t.*)
Escaped == <<34, 92, 47, 8, 12, 10, 13, 9>>
EscapedAs == <<Delimiter, Escape, T("/"), <<"c", 98>>, <<"c", 102>>, <<"c", 110>>,
               <<"c", 114>>, <<"c", 116>>>>

(***************************************************************************)
(* TextWriter: the output, and the open arrays and objects, each with      *)
(* whether it is still empty.                                              *)
(***************************************************************************)

Writer == [out |-> << >>, nest |-> << >>]

Put(w, tokens) == [w EXCEPT !.out = @ \o tokens]

Nested(w) == w.nest # << >>
Top(w)    == w.nest[Len(w.nest)]
Started(w) == [w EXCEPT !.nest[Len(w.nest)].first = FALSE]
Push(w, array) == [w EXCEPT !.nest = Append(@, [array |-> array, first |-> TRUE])]
Pop(w)    == [w EXCEPT !.nest = Front(@)]

(* appendNewLine: nothing, a blank, or a new line and its indentation.     *)
NewLine(f) == IF f.style = "Minified" THEN << >> ELSE <<Blank>>

(* The separator before an array's element or an object's member.          *)
Separate(f, w) ==
    IF Top(w).first THEN Started(Put(w, NewLine(f))) ELSE Put(w, <<Comma>> \o NewLine(f))

(* initiateWrite: elements of arrays are separated as they are written.    *)
InitiateWrite(f, w) == IF Nested(w) /\ Top(w).array THEN Separate(f, w) ELSE w

WriteString(f, w, tokens) == Put(InitiateWrite(f, w), tokens)

WriteArrayBegin(f, w) == Push(WriteString(f, w, <<f.array[1]>>), TRUE)

WriteArrayEnd(f, w) == Put(Pop(w), NewLine(f) \o <<f.array[2]>>)

(* writeObjectBegin: the type's name, where the format and the style have  *)
(* it, is a string of its own; so an array separates it from the brace.    *)
WriteObjectBegin(f, w, name) ==
    LET named == f.typed /\ (f.style = "MultiLine" \/ (f.style = "SingleLine" /\ ~Nested(w)))
        n == IF named THEN WriteString(f, w, <<<<"id", name>>>>) ELSE w
    IN  Push(WriteString(f, n, <<T("{")>>), FALSE)

WriteObjectEnd(f, w) == Put(Pop(w), NewLine(f) \o <<T("}")>>)

(* writeObjectMemberName.                                                  *)
WriteMemberName(f, w, name) ==
    LET blank == IF f.style = "Minified" THEN << >> ELSE <<Blank>>
    IN  Put(Separate(f, w),
            <<f.nameBegin, <<"id", name>>>> \o f.nameEnd
            \o IF f.valueBegin # << >> THEN blank \o f.valueBegin \o blank ELSE blank)

(* The suffix of an unsigned number or of a float32.                       *)
Suffix(f, w, suffix) ==
    IF f.typed /\ Nested(w) /\ f.style # "Minified" THEN <<T(suffix)>> ELSE << >>

WriteInt(f, w, value, signed, prefix) ==
    WriteString(f, w, prefix \o <<<<"int", value>>>>
                      \o IF signed THEN << >> ELSE Suffix(f, w, "u"))

(* write(float, double): a zero loses its sign.                            *)
Zero(bytes) == Tail(bytes) = [i \in 1..Len(bytes) - 1 |-> 0] /\ Head(bytes) \in {0, 128}
Unsigned(bytes) == IF Zero(bytes) THEN [i \in DOMAIN bytes |-> 0] ELSE bytes

WriteFloat(f, w, value) ==
    WriteString(f, w, <<<<"float", Unsigned(value)>>>>
                      \o IF Len(value) = 4 THEN Suffix(f, w, "f") ELSE << >>)

(* writeQuotedString: delimited, except at the top level.                  *)
WriteQuoted(f, w, tokens) ==
    WriteString(f, w, IF Nested(w) THEN <<Delimiter>> \o tokens \o <<Delimiter>> ELSE tokens)

EscapeOf(c) == CHOOSE i \in DOMAIN Escaped : Escaped[i] = c

(* writeEscapedString: escaped too, except at the top level.               *)
WriteEscaped(f, w, string) ==
    LET put(c) == IF \E i \in DOMAIN Escaped : Escaped[i] = c
                  THEN <<Escape, EscapedAs[EscapeOf(c)]>> ELSE <<Character(c)>>
    IN  WriteQuoted(f, w, IF Nested(w) THEN FlattenSeq([i \in DOMAIN string |-> put(string[i])])
                                       ELSE [i \in DOMAIN string |-> Character(string[i])])

(* writeIdentifierString: the enumerator, with its type when MultiLine.    *)
WriteEnum(f, w, E, value) ==
    LET e == E.enumerators[FromValue(E, value)]
    IN  IF ~f.typed THEN WriteString(f, w, <<<<"int", [neg |-> FALSE, mag |-> <<e.tag>>]>>>>)
        ELSE WriteString(f, w, (IF Nested(w) /\ f.style = "MultiLine"
                                THEN <<<<"id", E.name>>, T("::")>> ELSE << >>)
                               \o <<<<"id", e.name>>>>)

(* visitFundamentalTypeDerived, writing.                                   *)
WriteValue(f, w, type, value) ==
    CASE type.kind = "int"          -> WriteInt(f, w, value, type.signed, << >>)
      [] type.kind = "property_set" -> WriteInt(f, w, value, FALSE, IF f.typed THEN <<T("0b")>> ELSE << >>)
      [] type.kind = "bool"         -> WriteString(f, w, <<T(IF value THEN "true" ELSE "false")>>)
      [] type.kind = "float"        -> WriteFloat(f, w, value)
      [] type.kind = "timepoint"    -> IF f.typed THEN WriteQuoted(f, w, <<<<"iso", value>>>>)
                                                  ELSE WriteFloat(f, w, value)
      [] type.kind = "uuid"         -> WriteQuoted(f, w, <<<<"uuid", value>>>>)
      [] type.kind = "string"       -> WriteEscaped(f, w, value)

(* visitPropertyBeginDerived: an invalid property is written as null.      *)
WriteProperty(f, w, e) ==
    LET n == IF Nested(w) THEN WriteMemberName(f, w, e.property.name) ELSE w
    IN  IF e.valid THEN n ELSE WriteString(f, n, <<f.null>>)

(* What TextSerializer writes on a call of the visitor.                    *)
TextWrite(f, w, e) ==
    CASE e.at = "structBegin" -> WriteObjectBegin(f, w, e.type.name)
      [] e.at = "structEnd"   -> WriteObjectEnd(f, w)
      [] e.at = "property"    -> WriteProperty(f, w, e)
      [] e.at = "vectorBegin" -> WriteArrayBegin(f, w)
      [] e.at = "vectorEnd"   -> WriteArrayEnd(f, w)
      [] e.at = "enum"        -> WriteEnum(f, w, e.type, e.value)
      [] e.at = "fundamental" -> WriteValue(f, w, e.type, e.value)

(***************************************************************************)
(* TextReader: the input, the tokens consumed, the open arrays (TRUE) and  *)
(* objects, the last value read and whether nothing has been thrown.       *)
(***************************************************************************)

Reader(input, pos) == [in |-> input, pos |-> pos, nest |-> << >>, v |-> 0, ok |-> TRUE]

Throw(r) == [r EXCEPT !.ok = FALSE]

Advance(r, n) == [r EXCEPT !.pos = @ + n]

StartsWith(r, tokens) ==
    Len(r.in) - r.pos >= Len(tokens) /\ SubSeq(r.in, r.pos + 1, r.pos + Len(tokens)) = tokens

AtEnd(r) == r.pos = Len(r.in)
Front1(r) == r.in[r.pos + 1]

RECURSIVE ConsumeWhitespace(_)
ConsumeWhitespace(r) == IF StartsWith(r, <<Blank>>) THEN ConsumeWhitespace(Advance(r, 1)) ELSE r

Consume(r, tokens) == IF StartsWith(r, tokens) THEN Advance(r, Len(tokens)) ELSE Throw(r)
TryConsume(r, tokens) ==
    IF StartsWith(r, tokens) THEN [Advance(r, Len(tokens)) EXCEPT !.v = TRUE] ELSE [r EXCEPT !.v = FALSE]

ConsumeAfterWhitespace(r, tokens)    == Consume(ConsumeWhitespace(r), tokens)
TryConsumeAfterWhitespace(r, tokens) == TryConsume(ConsumeWhitespace(r), tokens)

(* finalizeRead: within an array or an object, the separator if there is   *)
(* one; the value read stays.                                              *)
FinalizeRead(r) ==
    IF r.nest = << >> THEN r ELSE [TryConsumeAfterWhitespace(r, <<Comma>>) EXCEPT !.v = r.v]

Enter(r, array) == [r EXCEPT !.nest = Append(@, array)]
Leave(r)        == [r EXCEPT !.nest = Front(@)]

ReadArrayBegin(f, r) == Enter(ConsumeAfterWhitespace(r, <<f.array[1]>>), TRUE)

(* tryReadArrayEnd, tryReadObjectEnd.                                      *)
Ended(t) == IF t.v THEN FinalizeRead(Leave(t)) ELSE t

TryReadEnd(r, token) == Ended(TryConsumeAfterWhitespace(r, <<token>>))
TryReadArrayEnd(f, r) == TryReadEnd(r, f.array[2])
TryReadObjectEnd(r)   == TryReadEnd(r, T("}"))

(* readObjectBegin, without and with the type's name.                      *)
ReadObjectBegin(r) == Enter(ConsumeAfterWhitespace(r, <<T("{")>>), FALSE)
ReadNamedObjectBegin(f, r, name) ==
    ReadObjectBegin(IF ~f.typed THEN r
                    ELSE IF f.strict THEN ConsumeAfterWhitespace(r, <<<<"id", name>>>>)
                    ELSE TryConsumeAfterWhitespace(r, <<<<"id", name>>>>))

(* A token of a class, such as an identifier or a number.                  *)
ReadToken(r, class) ==
    IF ~AtEnd(r) /\ Front1(r)[1] = class THEN [Advance(r, 1) EXCEPT !.v = Front1(r)[2]] ELSE Throw(r)

ReadIdentifier(r) == FinalizeRead(ReadToken(r, "id"))

ReadMemberName(f, r) ==
    LET n == ReadIdentifier(ConsumeAfterWhitespace(r, <<f.nameBegin>>))
    IN  ConsumeAfterWhitespace(ConsumeAfterWhitespace(n, f.nameEnd), f.valueBegin)

Finalized(t) == IF t.v THEN FinalizeRead(t) ELSE t

TryReadNull(f, r) == Finalized(TryConsumeAfterWhitespace(r, <<f.null>>))

(* A suffix, which the strict policy demands within arrays and objects.    *)
ReadSuffix(f, r, suffix) ==
    IF ~f.typed THEN r
    ELSE IF f.strict /\ r.nest # << >> THEN Consume(r, suffix)
    ELSE [TryConsume(r, suffix) EXCEPT !.v = r.v]

ReadInt(f, r, signed) ==
    LET p == TryConsume(ConsumeWhitespace(r), <<T("0b")>>)
    IN  ReadSuffix(f, ReadToken(p, "int"), IF signed THEN << >> ELSE <<T("u")>>)

ReadFloat(f, r, size) ==
    LET n == ReadToken(ConsumeWhitespace(r), "float")
    IN  ReadSuffix(f, n, IF size = 4 THEN <<T("f")>> ELSE << >>)

ReadBool(r) ==
    LET w == ConsumeWhitespace(r)
    IN  IF StartsWith(w, <<T("true")>>) THEN [Advance(w, 1) EXCEPT !.v = TRUE]
        ELSE IF StartsWith(w, <<T("false")>>) THEN [Advance(w, 1) EXCEPT !.v = FALSE]
        ELSE Throw(w)

(* The rest of the input, which a string at the top level takes in full.   *)
TakeRest(r) ==
    LET w == ConsumeWhitespace(r)
    IN  [w EXCEPT !.v = SubSeq(w.in, w.pos + 1, Len(w.in)), !.pos = Len(w.in)]

RECURSIVE ReadUntilDelimiter(_), ReadEscapes(_, _)

(* readQuotedString: everything up to the next delimiter.                  *)
ReadUntilDelimiter(r) ==
    IF ~r.ok \/ AtEnd(r) THEN Throw(r)
    ELSE IF Front1(r) = Delimiter THEN Advance(r, 1)
    ELSE ReadUntilDelimiter([Advance(r, 1) EXCEPT !.v = Append(@, Front1(r))])

ReadQuoted(r) ==
    IF r.nest = << >> THEN TakeRest(r)
    ELSE FinalizeRead(ReadUntilDelimiter(
           [ConsumeAfterWhitespace(r, <<Delimiter>>) EXCEPT !.v = << >>]))

(* The character that is read back from a token.                           *)
CodeOf(token) ==
    IF token[1] = "c" THEN token[2]
    ELSE CHOOSE c \in {32, 34, 44, 47, 91, 92, 93, 123, 125} : Character(c) = token

(* readEscapedString: the characters up to a delimiter that is not escaped.*)
ReadEscapes(r, string) ==
    IF ~r.ok \/ AtEnd(r) THEN Throw(r)
    ELSE IF Front1(r) = Delimiter THEN FinalizeRead([Advance(r, 1) EXCEPT !.v = string])
    ELSE IF Front1(r) = Escape
         THEN IF \E i \in DOMAIN EscapedAs : StartsWith(r, <<Escape, EscapedAs[i]>>)
              THEN LET i == CHOOSE i \in DOMAIN EscapedAs : StartsWith(r, <<Escape, EscapedAs[i]>>)
                   IN  ReadEscapes(Advance(r, 2), Append(string, Escaped[i]))
              ELSE Throw(r)
    ELSE ReadEscapes(Advance(r, 1), Append(string, CodeOf(Front1(r))))

ReadEscaped(r) ==
    IF r.nest = << >>
    THEN [TakeRest(r) EXCEPT !.v = [i \in DOMAIN @ |-> CodeOf(@[i])]]
    ELSE ReadEscapes(ConsumeAfterWhitespace(r, <<Delimiter>>), << >>)

RECURSIVE Skip(_, _), SkipOne(_, _), SkipElements(_, _), SkipMembers(_, _)

(* The loops until tryReadArrayEnd, tryReadObjectEnd succeed.              *)
SkipElements(f, e) ==
    IF ~e.ok \/ e.v THEN e ELSE SkipElements(f, TryReadArrayEnd(f, Skip(f, e)))

SkipMembers(f, e) ==
    IF ~e.ok \/ e.v THEN e ELSE SkipMembers(f, TryReadObjectEnd(Skip(f, ReadMemberName(f, e))))

(* The loop of skip(): a string, an array or an object, and else whatever  *)
(* comes up to a separator or to the end of the enclosing value.           *)
SkipOne(f, r) ==
    IF ~r.ok \/ AtEnd(r) THEN r
    ELSE CASE Front1(r) = Delimiter  -> ReadEscaped(r)
           [] Front1(r) = f.array[1] -> SkipElements(f, TryReadArrayEnd(f, ReadArrayBegin(f, r)))
           [] Front1(r) = T("{") /\ f.array[1] # T("{") -> SkipMembers(f, TryReadObjectEnd(ReadObjectBegin(r)))
           [] Front1(r) = Comma      -> Advance(r, 1)
           [] Front1(r) \in {f.array[2], T("}")} -> r
           [] OTHER                  -> SkipOne(f, Advance(r, 1))

Skip(f, r) == SkipOne(f, ConsumeWhitespace(r))

(* readIdentifierString with a prefix, or the tag of the enumerator.       *)
NamedEnum(n, E) ==
    IF n.ok /\ HasEnumName(E, n.v) THEN [n EXCEPT !.v = E.enumerators[FromName(E, @)].value] ELSE Throw(n)
TaggedEnum(t, E) ==
    IF t.ok /\ HasEnumTag(E, t.v.mag[1])
    THEN [t EXCEPT !.v = E.enumerators[FromTag(E, @.mag[1])].value] ELSE Throw(t)

ReadEnum(f, r, E) ==
    LET w == ConsumeWhitespace(r)
        p == IF (f.strict /\ r.nest # << >>) \/ StartsWith(w, <<<<"id", E.name>>>>)
             THEN Consume(Consume(w, <<<<"id", E.name>>>>), <<T("::")>>) ELSE w
    IN  IF f.typed THEN NamedEnum(ReadIdentifier(p), E)
                   ELSE TaggedEnum(FinalizeRead(ReadInt(f, r, FALSE)), E)

(* A quoted uuid or time, which is one token.                              *)
TokenOf(q, class) ==
    IF q.ok /\ Len(q.v) = 1 /\ q.v[1][1] = class THEN [q EXCEPT !.v = @[1][2]] ELSE Throw(q)

ReadQuotedToken(r, class) == TokenOf(ReadQuoted(r), class)

(* visitFundamentalTypeDerived, visitEnumDerived, reading.                 *)
ReadValue(f, r, type) ==
    CASE type.kind = "int"          -> FinalizeRead(ReadInt(f, r, type.signed))
      [] type.kind = "property_set" -> FinalizeRead(ReadInt(f, r, FALSE))
      [] type.kind = "bool"         -> FinalizeRead(ReadBool(r))
      [] type.kind = "float"        -> FinalizeRead(ReadFloat(f, r, type.size))
      [] type.kind = "timepoint"    -> IF f.typed THEN ReadQuotedToken(r, "iso")
                                                  ELSE FinalizeRead(ReadFloat(f, r, 8))
      [] type.kind = "uuid"         -> ReadQuotedToken(r, "uuid")
      [] type.kind = "string"       -> ReadEscaped(r)
      [] type.kind = "enum"         -> ReadEnum(f, r, type)

RECURSIVE TextRead(_, _, _, _, _, _), TextElements(_, _, _, _, _), TextMembers(_, _, _, _, _, _),
          TextMember(_, _, _, _, _, _), TextProperty(_, _, _, _, _, _, _)

(* visitVectorBeginDerived: each element is appended to the vector.        *)
TextElements(f, e, type, vector, entered) ==
    IF ~e.ok \/ e.v THEN [e EXCEPT !.v = vector]
    ELSE LET x == TextRead(f, e, type.of, Default(type.of), {}, Within(entered))
         IN  TextElements(f, TryReadArrayEnd(f, x), type, Append(vector, x.v), entered)

(* visitStructBeginDerived: the members up to the end of the object.  The  *)
(* value of an unknown or excluded property is skipped, null makes a       *)
(* property invalid; at a nested level all properties are included.        *)
TextMembers(f, e, S, instance, included, entered) ==
    IF ~e.ok \/ e.v THEN [e EXCEPT !.v = instance]
    ELSE TextMember(f, ReadMemberName(f, e), S, instance, included, entered)

TextMember(f, m, S, instance, included, entered) ==
    LET p == ByName(S, m.v)
    IN  IF ~m.ok THEN m
        ELSE IF HasName(S, m.v) /\ (VisitingLevel(entered) > 0 \/ p.tag \in included)
             THEN TextProperty(f, TryReadNull(f, m), p, S, instance, included, entered)
        ELSE TextMembers(f, TryReadObjectEnd(Skip(f, m)), S, instance, included, entered)

TextProperty(f, n, p, S, instance, included, entered) ==
    IF n.v
    THEN TextMembers(f, TryReadObjectEnd(n), S, [t \in DOMAIN instance \ {p.tag} |-> instance[t]],
                     included, entered)
    ELSE LET x == TextRead(f, n, p.type, ValueOrEmplace(instance, p), {}, Within(entered))
         IN  TextMembers(f, TryReadObjectEnd(x), S, (p.tag :> x.v) @@ instance, included, entered)

TextRead(f, r, type, old, included, entered) ==
    CASE type.kind = "struct" ->
           TextMembers(f, TryReadObjectEnd(ReadNamedObjectBegin(f, r, type.name)), type, old, included, entered)
      [] type.kind = "vector" ->
           TextElements(f, TryReadArrayEnd(f, ReadArrayBegin(f, r)), type, old, entered)
      [] OTHER                -> ReadValue(f, r, type)
=============================================================================
