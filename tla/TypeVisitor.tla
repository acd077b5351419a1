----------------------------- MODULE TypeVisitor -----------------------------
(***************************************************************************)
(* dots::type::TypeVisitor: the traversal of an instance that every        *)
(* serializer is derived from.  The traversal of a value that is only read *)
(* is modelled as the sequence of the calls the derived visitor gets; a    *)
(* serializer is then what it does on each call.  (The traversal of a      *)
(* value that is being filled is driven by the input, and is modelled with *)
(* the readers, in Cbor, Text and RapidJson.)                              *)
(*                                                                         *)
(* Types are records: a kind, and what the kind needs.                     *)
(*   int: signed, size (bytes)     float: size       vector: of            *)
(*   struct: name, properties (sequence of [tag, name, type])              *)
(*   enum: name, enumerators (sequence of [tag, value, name])              *)
(*   bool, string, uuid, property_set, timepoint                           *)
(* An instance is a function whose domain is the tags of its valid         *)
(* properties.  An integer is [neg, mag]: the number mag (big endian, in   *)
(* bytes, without leading zeros), or -1 - mag when neg.  Floats, points in *)
(* time and uuids are their bytes; a string is a sequence of characters.   *)
(***************************************************************************)
EXTENDS Integers, Sequences, SequencesExt

(* visitingLevel(): the visits and containers entered, less the first.     *)
VisitingLevel(entered) == IF entered = 0 THEN 0 ELSE entered - 1

(* visitBegin, until the matching visitEnd.                                *)
Within(entered) == entered + 1

RECURSIVE VisitType(_, _, _, _)

(* visitPropertyInternal: the value is visited only if it is valid.        *)
VisitProperty(p, instance, narrow, entered) ==
    <<[at |-> "property", property |-> p, valid |-> p.tag \in DOMAIN instance,
       level |-> VisitingLevel(entered)]>>
    \o IF p.tag \in DOMAIN instance
       THEN VisitType(p.type, instance[p.tag], narrow, entered)
       ELSE << >>

(* visitStructInternal: the included properties in the order of the        *)
(* descriptor.  A derived visitor may narrow the included properties to    *)
(* the valid ones when the struct begins (narrow).                         *)
VisitStruct(S, instance, included, narrow, entered) ==
    LET seen  == IF narrow THEN included \cap DOMAIN instance ELSE included
        props == SelectSeq(S.properties, LAMBDA p : p.tag \in seen)
    IN  <<[at |-> "structBegin", type |-> S, included |-> seen]>>
        \o FlattenSeq([i \in DOMAIN props |->
                         VisitProperty(props[i], instance, narrow, Within(entered))])
        \o <<[at |-> "structEnd"]>>

(* visitVectorInternal.                                                    *)
VisitVector(T, vector, narrow, entered) ==
    <<[at |-> "vectorBegin", size |-> Len(vector)]>>
    \o FlattenSeq([i \in DOMAIN vector |->
                     VisitType(T.of, vector[i], narrow, Within(entered))])
    \o <<[at |-> "vectorEnd"]>>

(* visitTypeInternal: a nested struct is visited with its valid properties.*)
VisitType(T, value, narrow, entered) ==
    CASE T.kind = "vector" -> VisitVector(T, value, narrow, entered)
      [] T.kind = "struct" -> VisitStruct(T, value, DOMAIN value, narrow, entered)
      [] T.kind = "enum"   -> <<[at |-> "enum", type |-> T, value |-> value]>>
      [] OTHER             -> <<[at |-> "fundamental", type |-> T, value |-> value]>>

(* visit(): the entry points, for an instance with included properties and *)
(* for any other value.                                                    *)
Visit(T, value, included, narrow) ==
    IF T.kind = "struct" THEN VisitStruct(T, value, included, narrow, Within(0))
                         ELSE VisitType(T, value, narrow, Within(0))

(* The value a property holds once valueOrEmplace() has made it valid.     *)
Default(T) ==
    CASE T.kind = "struct" -> << >>
      [] T.kind = "vector" -> << >>
      [] T.kind = "string" -> << >>
      [] OTHER             -> "unset"

ValueOrEmplace(instance, p) ==
    IF p.tag \in DOMAIN instance THEN instance[p.tag] ELSE Default(p.type)

(* find_property: by tag, or by name.                                      *)
HasTag(S, tag)   == \E i \in DOMAIN S.properties : S.properties[i].tag = tag
ByTag(S, tag)    == S.properties[CHOOSE i \in DOMAIN S.properties : S.properties[i].tag = tag]
HasName(S, name) == \E i \in DOMAIN S.properties : S.properties[i].name = name
ByName(S, name)  == S.properties[CHOOSE i \in DOMAIN S.properties : S.properties[i].name = name]

(* EnumDescriptor: an enumerator found by its tag, its value or its name.  *)
FromTag(E, tag)     == CHOOSE i \in DOMAIN E.enumerators : E.enumerators[i].tag = tag
FromValue(E, value) == CHOOSE i \in DOMAIN E.enumerators : E.enumerators[i].value = value
FromName(E, name)   == CHOOSE i \in DOMAIN E.enumerators : E.enumerators[i].name = name
HasEnumTag(E, tag)   == \E i \in DOMAIN E.enumerators : E.enumerators[i].tag = tag
HasEnumName(E, name) == \E i \in DOMAIN E.enumerators : E.enumerators[i].name = name
=============================================================================
