-------------------------------- MODULE Cbor --------------------------------
(***************************************************************************)
(* CborWriter, CborReader, CborSerializer and ExperimentalCborSerializer,  *)
(* byte by byte.  A reader is a record: its input, the bytes consumed, the *)
(* last value read and whether nothing has been thrown.                    *)
(***************************************************************************)
EXTENDS TypeVisitor, FiniteSets

UnsignedInt == 0
SignedInt   == 32
ByteString  == 64
TextString  == 96
Array       == 128
Map         == 160
Simple      == 224

(* The big-endian bytes of a natural number, without leading zeros.        *)
RECURSIVE Mag(_)
Mag(n) == IF n = 0 THEN << >> ELSE Append(Mag(n \div 256), n % 256)

RECURSIVE Strip(_)
Strip(bytes) == IF bytes # << >> /\ Head(bytes) = 0 THEN Strip(Tail(bytes)) ELSE bytes

Zeros(n) == [i \in 1..n |-> 0]

(***************************************************************************)
(* CborWriter.                                                             *)
(***************************************************************************)

FaultWriteHead(major, mag) ==
    IF mag = << >> \/ (Len(mag) = 1 /\ mag[1] <= 24)
    THEN <<major + (IF mag = << >> THEN 0 ELSE mag[1])>>
    ELSE LET exponent == Cardinality({k \in {1, 2, 4} : Len(mag) > k})
         IN  <<major + 24 + exponent>> \o Zeros(2^exponent - Len(mag)) \o mag

(* writeHead: the value in the initial byte if it is at most 23, else in   *)
(* the fewest following bytes of 1, 2, 4 and 8.                            *)
WriteHead(major, mag) ==
    IF mag = << >> \/ (Len(mag) = 1 /\ mag[1] <= 23)
    THEN <<major + (IF mag = << >> THEN 0 ELSE mag[1])>>
    ELSE LET exponent == Cardinality({k \in {1, 2, 4} : Len(mag) > k})
         IN  <<major + 24 + exponent>> \o Zeros(2^exponent - Len(mag)) \o mag

WriteInt(value) == WriteHead(IF value.neg THEN SignedInt ELSE UnsignedInt, value.mag)

WriteBytes(major, bytes) == WriteHead(major, Mag(Len(bytes))) \o bytes

WriteBool(value) == <<Simple + (IF value THEN 21 ELSE 20)>>

IsZero(float) == Tail(float) = Zeros(Len(float) - 1) /\ Head(float) \in {0, 128}

(* write(float, double); the experimental format shortens both zeroes.     *)
WriteFloat(value, shortZero) ==
    IF shortZero /\ IsZero(value) THEN <<Simple + 25, 0, 0>>
    ELSE <<Simple + (IF Len(value) = 4 THEN 26 ELSE 27)>> \o value

(* visitFundamentalTypeDerived, writing.                                   *)
WriteValue(T, value, shortZero) ==
    CASE T.kind \in {"int", "property_set"} -> WriteInt(value)
      [] T.kind = "bool"                    -> WriteBool(value)
      [] T.kind \in {"float", "timepoint"}  -> WriteFloat(value, shortZero)
      [] T.kind = "uuid"                    -> WriteBytes(ByteString, value)
      [] T.kind = "string"                  -> WriteBytes(TextString, value)

EnumeratorTag(E, value) == Mag(E.enumerators[FromValue(E, value)].tag)

(* PropertySet::toValue: one bit for each tag.                             *)
RECURSIVE ToValue(_)
ToValue(set) ==
    IF set = {} THEN 0 ELSE LET t == CHOOSE t \in set : TRUE IN 2^t + ToValue(set \ {t})

(* What CborSerializer writes on a call of the visitor.                    *)
CborWrite(e) ==
    CASE e.at = "structBegin" -> WriteHead(Map, Mag(Cardinality(e.included)))
      [] e.at = "property"    -> IF e.level > 0
                                 THEN WriteHead(UnsignedInt, Mag(e.property.tag)) ELSE << >>
      [] e.at = "vectorBegin" -> WriteHead(Array, Mag(e.size))
      [] e.at = "enum"        -> WriteHead(UnsignedInt, EnumeratorTag(e.type, e.value))
      [] e.at = "fundamental" -> WriteValue(e.type, e.value, FALSE)
      [] OTHER                -> << >>

(* What ExperimentalCborSerializer writes.                                 *)
ExperimentalWrite(e) ==
    CASE e.at = "structBegin" -> WriteHead(Array, Mag(Cardinality(e.included)))
                                 \o WriteHead(UnsignedInt, Mag(ToValue(e.included)))
      [] e.at = "vectorBegin" -> WriteHead(Array, Mag(e.size))
      [] e.at = "enum"        -> WriteHead(UnsignedInt, EnumeratorTag(e.type, e.value))
      [] e.at = "fundamental" -> WriteValue(e.type, e.value, TRUE)
      [] OTHER                -> << >>

(***************************************************************************)
(* CborReader.                                                             *)
(***************************************************************************)

Reader(input, pos) == [in |-> input, pos |-> pos, v |-> 0, ok |-> TRUE]

Throw(r) == [r EXCEPT !.ok = FALSE, !.v = << >>]

Available(r, n) == n <= Len(r.in) - r.pos

Bytes(r, n) == SubSeq(r.in, r.pos + 1, r.pos + n)

(* readByte, readBytes, consume: after assertInputAvailable.               *)
Take(r, n) ==
    IF r.ok /\ Available(r, n) THEN [r EXCEPT !.v = Bytes(r, n), !.pos = @ + n] ELSE Throw(r)

MajorOf(byte) == 32 * (byte \div 32)

(* readInitialByte: the number of following bytes, and the information.    *)
ReadInitialByte(r, major, size) ==
    LET byte == r.in[r.pos + 1]
        info == byte % 32
        n    == IF info <= 23 THEN 0 ELSE 2^(info - 24)
    IN  IF \/ ~r.ok \/ ~Available(r, 1)
           \/ MajorOf(byte) # major
           \/ info > 27
           \/ n > size
           \/ ~Available(r, 1 + n)
        THEN Throw(r)
        ELSE [r EXCEPT !.v = [bytes |-> n, info |-> info], !.pos = @ + 1]

(* readHead: the value in the initial byte or in the bytes after it.       *)
HeadValue(i) ==
    IF ~i.ok THEN i
    ELSE IF i.v.bytes = 0 THEN [i EXCEPT !.v = Mag(@.info)]
    ELSE [Take(i, i.v.bytes) EXCEPT !.v = Strip(@)]

ReadHead(r, major, size) == HeadValue(ReadInitialByte(r, major, size))

(* A size or a tag, which the model only needs as a small number.          *)
Small(mag) == FoldLeft(LAMBDA n, b : 256 * n + b, 0, mag)
ReadSize(r, major) == [ReadHead(r, major, 8) EXCEPT !.v = Small(@)]
ReadTag(r)         == [ReadHead(r, UnsignedInt, 4) EXCEPT !.v = Small(@)]

(* reinterpret_cast of an unsigned number to the signed type of its size.  *)
Reinterpret(mag, size) ==
    IF Len(mag) = size /\ mag[1] >= 128
    THEN [neg |-> TRUE, mag |-> Strip([i \in 1..size |-> 255 - mag[i]])]
    ELSE [neg |-> FALSE, mag |-> mag]

Complement(n) == [n EXCEPT !.neg = ~@]

ReadInt(r, T) ==
    IF T.signed /\ MajorOf(r.in[r.pos + 1]) = SignedInt
    THEN [ReadHead(r, SignedInt, T.size) EXCEPT !.v = Complement(Reinterpret(@, T.size))]
    ELSE [ReadHead(r, UnsignedInt, T.size) EXCEPT
            !.v = IF T.signed THEN Reinterpret(@, T.size) ELSE [neg |-> FALSE, mag |-> @]]

BoolOf(h) ==
    IF h.ok /\ h.v \in {<<20>>, <<21>>} THEN [h EXCEPT !.v = (@ = <<21>>)] ELSE Throw(h)

ReadBool(r) == BoolOf(ReadHead(r, Simple, 1))

(* read(float, double): the value in its own size, or the short zero.  A   *)
(* float64 is never read from a float32, nor from another float16: no      *)
(* writer of the library produces them.                                    *)
FloatOf(i, size) ==
    IF ~i.ok THEN i
    ELSE IF i.v.bytes = size THEN Take(i, size)
    ELSE IF i.v.bytes = 2 /\ Bytes(i, 2) = <<0, 0>> THEN [Take(i, 2) EXCEPT !.v = Zeros(size)]
    ELSE Throw(i)

ReadFloat(r, size) == FloatOf(ReadInitialByte(r, Simple, size), size)

TakeSize(s) == Take(s, s.v)

ReadBytes(r, major) == TakeSize(ReadSize(r, major))

(* A byte string must have the size of the array it is read into.          *)
UuidOf(s) == IF s.v = 16 THEN Take(s, 16) ELSE Throw(s)

ReadUuid(r) == UuidOf(ReadSize(r, ByteString))

(* read_size of skip(): the bytes of the size are read, and then as many   *)
(* bytes again are consumed.                                               *)
SkipSize(r, info) ==
    IF info <= 23 THEN [r EXCEPT !.v = info]
    ELSE LET n == 2^(info - 24)
         IN  IF Available(r, 2 * n) THEN [r EXCEPT !.v = Small(Bytes(r, n)), !.pos = @ + 2 * n] ELSE Throw(r)

FaultItems(major, size) == size

(* The values in a container of a size: a map has a key for each of its.   *)
Items(major, size) == IF major = Map THEN 2 * size ELSE size

RECURSIVE SkipValue(_), SkipItems(_, _)

(* skip(): one value, whatever it is.                                      *)
Skip(r) == SkipValue(Take(r, 1))

SkipItems(r, n) == IF n = 0 \/ ~r.ok THEN r ELSE SkipItems(Skip(r), n - 1)
SkipContainer(s, major) == SkipItems(s, Items(major, s.v))

(* What comes after the initial byte i, by its major type.                 *)
SkipValue(i) ==
    LET major == MajorOf(i.v[1])
        info  == i.v[1] % 32
    IN  IF ~i.ok \/ (major # 192 /\ info > 27) THEN Throw(i)
        ELSE IF major \in {UnsignedInt, SignedInt, Simple}
             THEN Take(i, IF info <= 23 THEN 0 ELSE 2^(info - 24))
        ELSE IF major \in {ByteString, TextString} THEN TakeSize(SkipSize(i, info))
        ELSE IF major \in {Array, Map} THEN SkipContainer(SkipSize(i, info), major)
        ELSE i

(***************************************************************************)
(* The serializers, reading.                                               *)
(***************************************************************************)

EnumOf(t, E) ==
    IF t.ok /\ HasEnumTag(E, t.v) THEN [t EXCEPT !.v = E.enumerators[FromTag(E, @)].value] ELSE Throw(t)

ReadEnum(r, E) == EnumOf(ReadTag(r), E)

(* visitFundamentalTypeDerived, reading.                                   *)
ReadValue(r, T) ==
    CASE T.kind = "int"          -> ReadInt(r, T)
      [] T.kind = "property_set" -> ReadInt(r, [signed |-> FALSE, size |-> 4])
      [] T.kind = "bool"         -> ReadBool(r)
      [] T.kind = "float"        -> ReadFloat(r, T.size)
      [] T.kind = "timepoint"    -> ReadFloat(r, 8)
      [] T.kind = "uuid"         -> ReadUuid(r)
      [] T.kind = "string"       -> ReadBytes(r, TextString)
      [] T.kind = "enum"         -> ReadEnum(r, T)

RECURSIVE CborRead(_, _, _, _, _), CborEntry(_, _, _, _, _, _), CborEntries(_, _, _, _, _, _), CborElements(_, _, _, _, _)

(* visitVectorBeginDerived: fill() makes as many fresh elements as come.   *)
CborElements(r, T, n, vector, entered) ==
    IF n = 0 \/ ~r.ok THEN [r EXCEPT !.v = vector]
    ELSE LET e == CborRead(r, T.of, Default(T.of), {}, Within(entered))
         IN  CborElements(e, T, n - 1, Append(vector, e.v), entered)

(* visitStructBeginDerived: the entries of the map.  A value of an unknown *)
(* or excluded property is skipped; at a nested level all are included.    *)
CborEntries(r, S, n, instance, included, entered) ==
    IF n = 0 \/ ~r.ok THEN [r EXCEPT !.v = instance]
    ELSE CborEntry(ReadTag(r), S, n, instance, included, entered)

CborEntry(t, S, n, instance, included, entered) ==
    IF t.ok /\ HasTag(S, t.v) /\ (VisitingLevel(entered) > 0 \/ t.v \in included)
    THEN LET p == ByTag(S, t.v)
             e == CborRead(t, p.type, ValueOrEmplace(instance, p), {}, Within(entered))
         IN  CborEntries(e, S, n - 1, (p.tag :> e.v) @@ instance, included, entered)
    ELSE CborEntries(Skip(t), S, n - 1, instance, included, entered)

CborContainer(s, T, old, included, entered) ==
    IF T.kind = "struct" THEN CborEntries(s, T, s.v, old, included, entered)
                         ELSE CborElements(s, T, s.v, << >>, entered)

CborRead(r, T, old, included, entered) ==
    CASE T.kind = "struct" -> CborContainer(ReadSize(r, Map), T, old, included, entered)
      [] T.kind = "vector" -> CborContainer(ReadSize(r, Array), T, old, included, entered)
      [] OTHER             -> ReadValue(r, T)

RECURSIVE ExperimentalRead(_, _, _), ExperimentalProperties(_, _, _, _), ExperimentalElements(_, _, _, _)

ExperimentalElements(r, T, n, vector) ==
    IF n = 0 \/ ~r.ok THEN [r EXCEPT !.v = vector]
    ELSE LET e == ExperimentalRead(r, T.of, Default(T.of))
         IN  ExperimentalElements(e, T, n - 1, Append(vector, e.v))

(* The properties that were written, by the traversal of the visitor.      *)
ExperimentalProperties(r, S, i, instance) ==
    IF i > Len(S) \/ ~r.ok THEN [r EXCEPT !.v = instance]
    ELSE LET e == ExperimentalRead(r, S[i].type, ValueOrEmplace(instance, S[i]))
         IN  ExperimentalProperties(e, S, i + 1, (S[i].tag :> e.v) @@ instance)

(* visitStructBeginDerived: the set of properties must match the count.    *)
ExperimentalRead(r, T, old) ==
    CASE T.kind = "struct" ->
           LET n   == ReadSize(r, Array)
               set == ReadTag(n)
               written(p) == (set.v \div 2^p.tag) % 2 = 1
               count == Cardinality({t \in 1..30 : (set.v \div 2^t) % 2 = 1})
           IN  IF ~set.ok \/ count # n.v THEN Throw(set)
               ELSE ExperimentalProperties(set, SelectSeq(T.properties, written), 1, old)
      [] T.kind = "vector" ->
           LET n == ReadSize(r, Array) IN ExperimentalElements(n, T, n.v, << >>)
      [] OTHER -> ReadValue(r, T)
=============================================================================
