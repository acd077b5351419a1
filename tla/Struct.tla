------------------------------- MODULE Struct -------------------------------
(***************************************************************************)
(* Instances of struct types: which properties are valid, what is          *)
(* constructed in their storage, and the operations that the typeless      *)
(* descriptors (StructDescriptor, for types known at run time) and the     *)
(* compiled structs (StaticStruct) implement independently of each other.  *)
(*                                                                         *)
(* An instance is its property area: the set of tags that are valid and    *)
(* the storage of every property.  Storage of a property of a type that    *)
(* uses dynamic memory must be constructed exactly while the property is   *)
(* valid.  A value without dynamic memory is of no consequence while its   *)
(* property is invalid, and is Raw then; a sub-struct without dynamic      *)
(* memory keeps the valid set it had.                                      *)
(***************************************************************************)
EXTENDS Integers, Sequences, FiniteSets, SequencesExt

CONSTANTS
    Descriptors, \* the properties of each struct type, in their order:
                 \* [tag, kind], a kind being Plain, Dynamic or a struct type
    Top,         \* the type of the instances
    Val,         \* values of properties that are no structs
    Slot         \* places for instances

Plain == "plain"       \* a value without dynamic memory
Dynamic == "dynamic"   \* a value with dynamic memory, such as a string

(* What storage can hold besides a value.                                  *)
Raw == -1      \* nothing constructed
Moved == -2    \* constructed, but its value has been moved away
Leak == -3     \* constructed over something constructed
Corrupt == -4  \* assigned or destructed without being constructed

All == 0..31   \* PropertySet::All

Tags(t) == {Descriptors[t][i].tag : i \in DOMAIN Descriptors[t]}
Kinds ==
    [t \in DOMAIN Descriptors |-> [p \in Tags(t) |->
        Descriptors[t][CHOOSE i \in DOMAIN Descriptors[t] : Descriptors[t][i].tag = p].kind]]
Kind(t, p) == Kinds[t][p]
IsSub(k) == k \in DOMAIN Descriptors

ASSUME StructAssumption ==
    /\ Top \in DOMAIN Descriptors
    /\ Val \subseteq Nat
    /\ \A t \in DOMAIN Descriptors :
           /\ Tags(t) \subseteq All
           /\ Cardinality(Tags(t)) = Len(Descriptors[t])

VARIABLES
    area,   \* the property area in each slot
    alive   \* the slots that hold an instance

vars == <<area, alive>>

-----------------------------------------------------------------------------
(* Iteration *)

(* PropertyIterator: to the first property from position i on that is part *)
(* of the set, or to the end.                                              *)
Onward(ds, set, i) ==
    CHOOSE j \in i..(Len(ds) + 1) :
        /\ j <= Len(ds) => ds[j].tag \in set
        /\ \A h \in i..(j - 1) : ds[h].tag \notin set

RECURSIVE Visited(_, _, _)
Visited(ds, set, i) ==
    IF i > Len(ds) THEN <<>>
    ELSE <<ds[i].tag>> \o Visited(ds, set, Onward(ds, set, i + 1))

(* The tags that a loop over the properties of a set visits.  A range of   *)
(* pairs moves two such iterators over the same descriptors.               *)
Ranges ==
    [t \in DOMAIN Descriptors |-> [set \in SUBSET Tags(t) |->
        Visited(Descriptors[t], set, Onward(Descriptors[t], set, 1))]]
PropertyRange(t, set) == Ranges[t][set \cap Tags(t)]

RECURSIVE UsesDynamicMemory(_)
UsesDynamicMemory(k) ==
    \/ k = Dynamic
    \/ IsSub(k) /\ \E p \in Tags(k) : UsesDynamicMemory(Kind(k, p))

DynamicMemoryProperties ==
    [t \in DOMAIN Descriptors |-> {p \in Tags(t) : UsesDynamicMemory(Kind(t, p))}]

RECURSIVE Blank(_)
Blank(t) ==
    [valid |-> {},
     store |-> [p \in Tags(t) |->
                    IF IsSub(Kind(t, p)) THEN Blank(Kind(t, p)) ELSE Raw]]

-----------------------------------------------------------------------------
(* Properties: emplace, reset and assign on top of the descriptor of the   *)
(* property's type                                                         *)

RECURSIVE Construct(_, _, _), Assign(_, _, _), Destruct(_, _)

(* Seeded fault: the storage of a property that is valid is constructed    *)
(* again.                                                                  *)
FaultEmplace(t, a, p, v) ==
    [valid |-> a.valid \cup {p},
     store |-> [a.store EXCEPT ![p] = Construct(Kind(t, p), @, v)]]

Emplace(t, a, p, v) ==
    IF p \in a.valid
    THEN [a EXCEPT !.store[p] = Assign(Kind(t, p), @, v)]
    ELSE [valid |-> a.valid \cup {p},
          store |-> [a.store EXCEPT ![p] = Construct(Kind(t, p), @, v)]]

Reset(t, a, p) ==
    IF p \in a.valid
    THEN [valid |-> a.valid \ {p},
          store |-> [a.store EXCEPT ![p] = Destruct(Kind(t, p), @)]]
    ELSE a

(* Property::assign of another property, which may be invalid.             *)
AssignProperty(t, a, p, b) ==
    IF p \in b.valid THEN Emplace(t, a, p, b.store[p]) ELSE Reset(t, a, p)

(* valueOrEmplace of a property that is a struct.                          *)
ValueOrEmplace(t, a, p) ==
    IF p \in a.valid THEN a
    ELSE [valid |-> a.valid \cup {p}, store |-> [a.store EXCEPT ![p].valid = {}]]

AssignStruct(t, a, b, included) ==
    FoldLeft(LAMBDA x, p : IF p \in b.valid \cap included
                           THEN AssignProperty(t, x, p, b)
                           ELSE Reset(t, x, p),
             a, PropertyRange(t, All))

ConstructCopy(t, a, b) ==
    FoldLeft(LAMBDA x, p : AssignProperty(t, x, p, b),
             [a EXCEPT !.valid = {}], PropertyRange(t, b.valid))

Construct(k, s, v) ==
    CASE k = Plain -> v
      [] k = Dynamic -> IF s = Raw THEN v ELSE Leak
      [] OTHER -> ConstructCopy(k, s, v)

Assign(k, s, v) ==
    CASE k = Plain -> v
      [] k = Dynamic -> IF s = Raw THEN Corrupt ELSE v
      [] OTHER -> AssignStruct(k, s, v, All)

(* Only valid properties that use dynamic memory are destructed.  A        *)
(* sub-struct without dynamic memory keeps its valid set, in storage that  *)
(* is no longer valid; other values are of no consequence there.           *)
DestructStruct(t, a) ==
    [valid |-> {},
     store |-> [p \in Tags(t) |->
         IF p \in a.valid \cap DynamicMemoryProperties[t]
         THEN Destruct(Kind(t, p), a.store[p])
         ELSE IF Kind(t, p) = Plain THEN Raw ELSE a.store[p]]]

Destruct(k, s) ==
    CASE k = Plain -> Raw
      [] k = Dynamic -> IF s = Raw THEN Corrupt ELSE Raw
      [] OTHER -> DestructStruct(k, s)

-----------------------------------------------------------------------------
(* Moving and swapping change two instances: pairs <<a, b>>                *)

RECURSIVE AssignMoved(_, _, _), SwapStruct(_, _, _)

(* Assigning an rvalue to the storage s of a property; a struct that is    *)
(* constructed from an rvalue is copied.                                   *)
MoveValue(k, s, v, valid) ==
    CASE k = Plain -> <<v, v>>
      [] k = Dynamic -> <<IF valid THEN Assign(k, s, v) ELSE Construct(k, s, v),
                          Moved>>
      [] OTHER -> IF valid THEN AssignMoved(k, <<s, v>>, All)
                           ELSE <<Construct(k, s, v), v>>

(* propertyThis = std::move(propertyOther.storage()), then propertyOther   *)
(* is made invalid.                                                        *)
MovedProperty(t, ab, p, m) ==
    <<[valid |-> ab[1].valid \cup {p}, store |-> [ab[1].store EXCEPT ![p] = m[1]]],
      Reset(t, [ab[2] EXCEPT !.store[p] = m[2]], p)>>

MoveProperty(t, ab, p) ==
    MovedProperty(t, ab, p, MoveValue(Kind(t, p), ab[1].store[p], ab[2].store[p],
                                      p \in ab[1].valid))

AssignMoved(t, ab, included) ==
    LET from == ab[2].valid \cap included IN
    FoldLeft(LAMBDA x, p : IF p \in from THEN MoveProperty(t, x, p)
                           ELSE <<Reset(t, x[1], p), x[2]>>,
             ab, PropertyRange(t, All))

(* The instance is assigned to itself.                                     *)
AssignMovedSelf(t, a, included) ==
    FoldLeft(LAMBDA x, p : Reset(t, x, p), a, PropertyRange(t, All))

ConstructMoved(t, ab) ==
    FoldLeft(LAMBDA x, p : MoveProperty(t, x, p),
             <<[ab[1] EXCEPT !.valid = {}], ab[2]>>,
             PropertyRange(t, ab[2].valid))

SwapValue(k, s, v) ==
    IF IsSub(k) THEN SwapStruct(k, <<s, v>>, All) ELSE <<v, s>>

Swapped(ab) == <<ab[2], ab[1]>>
WithValues(ab, p, s) == <<[ab[1] EXCEPT !.store[p] = s[1]], [ab[2] EXCEPT !.store[p] = s[2]]>>
MoveToInvalid(t, ab, p) ==
    IF p \in ab[2].valid THEN MoveProperty(t, ab, p) ELSE ab

(* Where only one is valid, its value moves to the other.                  *)
SwapProperty(t, ab, p) ==
    CASE p \in ab[1].valid \cap ab[2].valid ->
             WithValues(ab, p, SwapValue(Kind(t, p), ab[1].store[p], ab[2].store[p]))
      [] p \in ab[1].valid \ ab[2].valid ->
             Swapped(MoveToInvalid(t, Swapped(ab), p))
      [] OTHER -> MoveToInvalid(t, ab, p)

SwapStruct(t, ab, included) ==
    FoldLeft(LAMBDA x, p : SwapProperty(t, x, p), ab, PropertyRange(t, included))

-----------------------------------------------------------------------------
(* The other operations of StructDescriptor                                *)

(* Seeded fault: what is invalid in the other instance is left alone.      *)
FaultCopy(t, a, b, included) ==
    FoldLeft(LAMBDA x, p : AssignProperty(t, x, p, b), a,
             PropertyRange(t, b.valid \cap included))

Copy(t, a, b, included) ==
    FoldLeft(LAMBDA x, p : AssignProperty(t, x, p, b), a,
             PropertyRange(t, (a.valid \cup b.valid) \cap included))

(* Seeded fault: sub-structs are assigned, not merged.                     *)
FaultMerge(t, a, b, included) ==
    FoldLeft(LAMBDA x, p : AssignProperty(t, x, p, b), a,
             PropertyRange(t, b.valid \cap included))

RECURSIVE Merge(_, _, _, _)
Merge(t, a, b, included) ==
    LET MergeProperty(x, p) ==
            IF IsSub(Kind(t, p))
            THEN [ValueOrEmplace(t, x, p) EXCEPT
                      !.store[p] = Merge(Kind(t, p), @, b.store[p], All)]
            ELSE AssignProperty(t, x, p, b)
    IN  FoldLeft(MergeProperty, a, PropertyRange(t, b.valid \cap included))

Clear(t, a, included) ==
    FoldLeft(LAMBDA x, p : Reset(t, x, p), a, PropertyRange(t, included))

RECURSIVE Equal(_, _, _, _), Less(_, _, _, _)

EqualProperty(t, a, b, p) ==
    IF p \in b.valid
    THEN p \in a.valid /\ IF IsSub(Kind(t, p))
                          THEN Equal(Kind(t, p), a.store[p], b.store[p], All)
                          ELSE a.store[p] = b.store[p]
    ELSE p \notin a.valid

(* Seeded fault: an invalid property is not compared.                      *)
FaultLessProperty(t, a, b, p) ==
    p \in a.valid \cap b.valid /\ a.store[p] # b.store[p] /\
    ~IsSub(Kind(t, p)) /\ a.store[p] < b.store[p]

(* An invalid property is less than any valid one.                         *)
LessProperty(t, a, b, p) ==
    p \in b.valid /\ \/ p \notin a.valid
                     \/ IF IsSub(Kind(t, p))
                        THEN Less(Kind(t, p), a.store[p], b.store[p], All)
                        ELSE a.store[p] < b.store[p]

Equal(t, a, b, included) ==
    \A i \in DOMAIN PropertyRange(t, included) :
        EqualProperty(t, a, b, PropertyRange(t, included)[i])

(* The loop returns at the first property that is less or greater.         *)
Less(t, a, b, included) ==
    LET r == PropertyRange(t, included) IN
    \E i \in DOMAIN r :
        /\ LessProperty(t, a, b, r[i])
        /\ \A h \in 1..(i - 1) : ~LessProperty(t, b, a, r[h])

(* Seeded fault: only what both have is compared.                          *)
FaultDiffProperties(t, a, b, included) ==
    {p \in a.valid \cap b.valid \cap included : ~EqualProperty(t, a, b, p)}

DiffProperties(t, a, b, included) ==
    (((a.valid \ b.valid) \cup (b.valid \ a.valid)) \cap included)
        \cup {p \in a.valid \cap b.valid \cap included : ~EqualProperty(t, a, b, p)}

-----------------------------------------------------------------------------
(* The operations of StaticStruct, over the property types of the struct   *)

Each(t) == [i \in DOMAIN Descriptors[t] |-> Descriptors[t][i].tag]

StaticAssign(t, a, b, included) ==
    FoldLeft(LAMBDA x, p : IF p \in included THEN AssignProperty(t, x, p, b)
                           ELSE Reset(t, x, p), a, Each(t))

StaticCopy(t, a, b, included) ==
    FoldLeft(LAMBDA x, p : IF p \in included THEN AssignProperty(t, x, p, b)
                           ELSE x, a, Each(t))

RECURSIVE StaticMerge(_, _, _, _)
StaticMerge(t, a, b, included) ==
    LET MergeProperty(x, p) ==
            CASE p \notin included \cap b.valid -> x
              [] IsSub(Kind(t, p)) ->
                    [ValueOrEmplace(t, x, p) EXCEPT
                        !.store[p] = StaticMerge(Kind(t, p), @, b.store[p], All)]
              [] OTHER -> AssignProperty(t, x, p, b)
    IN  FoldLeft(MergeProperty, a, Each(t))

StaticSwap(t, ab, included) ==
    FoldLeft(LAMBDA x, p : IF p \in included THEN SwapProperty(t, x, p) ELSE x,
             ab, Each(t))

StaticClear(t, a, included) ==
    FoldLeft(LAMBDA x, p : IF p \in included THEN Reset(t, x, p) ELSE x, a, Each(t))

StaticEqual(t, a, b, included) ==
    \A p \in Tags(t) : p \in included => EqualProperty(t, a, b, p)

(* As for std::tuple: head < head, or not greater and tail < tail.         *)
RECURSIVE StaticLessFrom(_, _, _, _, _)
StaticLessFrom(t, a, b, included, i) ==
    LET p == Each(t)[i]
        LessHere(x, y) == p \in included /\ LessProperty(t, x, y, p)
    IN  IF included = {} THEN FALSE
        ELSE IF i = Len(Each(t)) THEN LessHere(a, b)
        ELSE LessHere(a, b) \/ (~LessHere(b, a) /\
                                StaticLessFrom(t, a, b, included, i + 1))
StaticLess(t, a, b, included) == StaticLessFrom(t, a, b, included, 1)

StaticDiffProperties(t, a, b, included) ==
    LET common == a.valid \cap b.valid \cap included IN
    FoldLeft(LAMBDA d, p : IF p \in common /\ ~EqualProperty(t, a, b, p)
                           THEN d \cup {p} ELSE d,
             ((a.valid \cup b.valid) \ (a.valid \cap b.valid)) \cap included,
             Each(t))

(* ~StaticProperty resets each property.                                   *)
StaticDestruct(t, a) ==
    FoldLeft(LAMBDA x, p : Reset(t, x, p), a, Reverse(Each(t)))

-----------------------------------------------------------------------------
(* Access by path: ProxyProperty *)

RECURSIVE Paths(_)
Paths(t) ==
    UNION {{<<p>>} \cup (IF IsSub(Kind(t, p))
                         THEN {<<p>> \o q : q \in Paths(Kind(t, p))} ELSE {}) :
           p \in Tags(t)}

RECURSIVE PathKind(_, _), PathIsValid(_, _, _), EmplacePath(_, _, _, _),
          ResetPath(_, _, _)
PathKind(t, path) ==
    IF Len(path) = 1 THEN Kind(t, path[1])
    ELSE PathKind(Kind(t, path[1]), Tail(path))

(* Reading stops at a struct on the way that is invalid ...                *)
PathIsValid(t, a, path) ==
    /\ path[1] \in a.valid
    /\ Len(path) > 1 =>
           PathIsValid(Kind(t, path[1]), a.store[path[1]], Tail(path))

(* ... writing constructs it.                                              *)
EmplacePath(t, a, path, v) ==
    IF Len(path) = 1 THEN Emplace(t, a, path[1], v)
    ELSE [ValueOrEmplace(t, a, path[1]) EXCEPT
              !.store[path[1]] = EmplacePath(Kind(t, path[1]), @, Tail(path), v)]

ResetPath(t, a, path) ==
    IF ~PathIsValid(t, a, path) THEN a
    ELSE IF Len(path) = 1 THEN Reset(t, a, path[1])
    ELSE [a EXCEPT !.store[path[1]] = ResetPath(Kind(t, path[1]), @, Tail(path))]

-----------------------------------------------------------------------------
(* Instances come and go in slots (AnyStruct) and change each other.       *)

Init ==
    /\ area = [s \in Slot |-> Blank(Top)]
    /\ alive = {}

Create(s) ==
    /\ s \notin alive
    /\ alive' = alive \cup {s}
    /\ area' = [area EXCEPT ![s].valid = {}]

CreateCopy(s, o) ==
    /\ s \notin alive
    /\ o \in alive
    /\ alive' = alive \cup {s}
    /\ area' = [area EXCEPT ![s] = ConstructCopy(Top, @, area[o])]

CreateMoved(s, o) ==
    /\ s \notin alive
    /\ o \in alive
    /\ alive' = alive \cup {s}
    /\ LET m == ConstructMoved(Top, <<area[s], area[o]>>) IN
       area' = [area EXCEPT ![s] = m[1], ![o] = m[2]]

Destroy(s) ==
    /\ s \in alive
    /\ alive' = alive \ {s}
    /\ area' = [area EXCEPT ![s] = DestructStruct(Top, @)]

Update(s, a) ==
    /\ s \in alive
    /\ area' = [area EXCEPT ![s] = a]
    /\ UNCHANGED alive

UpdateBoth(s, o, ab) ==
    /\ {s, o} \subseteq alive
    /\ s # o
    /\ area' = [area EXCEPT ![s] = ab[1], ![o] = ab[2]]
    /\ UNCHANGED alive

SetPath(s) ==
    \E path \in Paths(Top), v \in Val :
        /\ ~IsSub(PathKind(Top, path))
        /\ Update(s, EmplacePath(Top, area[s], path, v))

ClearPath(s) ==
    \E path \in Paths(Top) : Update(s, ResetPath(Top, area[s], path))

AssignFrom(s, o, included) ==
    o \in alive /\ Update(s, AssignStruct(Top, area[s], area[o], included))
CopyFrom(s, o, included) ==
    o \in alive /\ Update(s, Copy(Top, area[s], area[o], included))
MergeFrom(s, o, included) ==
    o \in alive /\ Update(s, Merge(Top, area[s], area[o], included))
MoveFrom(s, o, included) ==
    IF s = o THEN Update(s, AssignMovedSelf(Top, area[s], included))
    ELSE UpdateBoth(s, o, AssignMoved(Top, <<area[s], area[o]>>, included))
SwapWith(s, o, included) ==
    UpdateBoth(s, o, SwapStruct(Top, <<area[s], area[o]>>, included))
ClearProperties(s, included) == Update(s, Clear(Top, area[s], included))

PropertySets == SUBSET Tags(Top)

Next ==
    \E s \in Slot :
        \/ Create(s) \/ Destroy(s) \/ SetPath(s) \/ ClearPath(s)
        \/ \E o \in Slot : CreateCopy(s, o) \/ CreateMoved(s, o)
        \/ \E o \in Slot, included \in PropertySets :
            \/ AssignFrom(s, o, included) \/ CopyFrom(s, o, included)
            \/ MergeFrom(s, o, included) \/ MoveFrom(s, o, included)
            \/ SwapWith(s, o, included)
        \/ \E included \in PropertySets : ClearProperties(s, included)

Spec == Init /\ [][Next]_vars

-----------------------------------------------------------------------------
(* Properties *)

RECURSIVE IsSound(_, _)
IsSound(t, a) ==
    \A p \in Tags(t) :
        LET k == Kind(t, p)
            s == a.store[p]
        IN  IF p \in a.valid
            THEN IF IsSub(k) THEN IsSound(k, s) ELSE s \in Val
            ELSE UsesDynamicMemory(k) =>
                     IF IsSub(k) THEN s.valid = {} /\ IsSound(k, s) ELSE s = Raw

(* Whatever sequence of operations is applied, moves and sub-structs       *)
(* included: what is valid is constructed and has a value of its own, what *)
(* is not valid owns no memory, and an instance that is destroyed leaves   *)
(* nothing behind.                                                         *)
MemorySound ==
    \A s \in Slot : /\ IsSound(Top, area[s])
                    /\ s \notin alive => area[s].valid = {}

(* What is left of an instance that its destruction must account for.      *)
Owned(t, a) == <<a.valid, [p \in DynamicMemoryProperties[t] |-> a.store[p]]>>

(* The struct compiled from a type and the one known by its descriptor are *)
(* the same to every operation: a host that knows the type only at run     *)
(* time treats instances as the program that was compiled with it does.    *)
StaticAgrees ==
    \A s, o \in alive : \A i \in PropertySets :
        LET a == area[s]
            b == area[o]
            ab == <<a, b>>
        IN  /\ StaticAssign(Top, a, b, i) = AssignStruct(Top, a, b, i)
            /\ StaticCopy(Top, a, b, i) = Copy(Top, a, b, i)
            /\ StaticMerge(Top, a, b, i) = Merge(Top, a, b, i)
            /\ StaticSwap(Top, ab, i) = SwapStruct(Top, ab, i)
            /\ StaticClear(Top, a, i) = Clear(Top, a, i)
            /\ StaticEqual(Top, a, b, i) = Equal(Top, a, b, i)
            /\ StaticLess(Top, a, b, i) = Less(Top, a, b, i)
            /\ StaticDiffProperties(Top, a, b, i) = DiffProperties(Top, a, b, i)
            /\ Owned(Top, StaticDestruct(Top, a)) = Owned(Top, DestructStruct(Top, a))

(* An instance as the map from its valid properties to their values.       *)
RECURSIVE View(_, _), MergeViews(_, _, _)
View(t, a) == [p \in a.valid |-> IF IsSub(Kind(t, p))
                                 THEN View(Kind(t, p), a.store[p])
                                 ELSE a.store[p]]

MergeViews(t, v, w) ==
    [p \in DOMAIN v \cup DOMAIN w |->
        IF p \notin DOMAIN w THEN v[p]
        ELSE IF p \notin DOMAIN v \/ ~IsSub(Kind(t, p)) THEN w[p]
        ELSE MergeViews(Kind(t, p), v[p], w[p])]

(* The operations on two instances mean what they mean on maps, for every  *)
(* set of included properties: assign replaces all, copy takes over what   *)
(* is included and removes what the other does not have, merge only adds,  *)
(* swap exchanges what is included.                                        *)
OperationsMean ==
    \A s, o \in alive : \A i \in PropertySets :
        LET v == View(Top, area[s])
            w == View(Top, area[o])
            ab == <<area[s], area[o]>>
            moved == AssignMoved(Top, ab, i)
            swapped == SwapStruct(Top, ab, i)
            Only(x, ps) == [p \in DOMAIN x \cap ps |-> x[p]]
            Override(x, y, ps) ==
                [p \in (DOMAIN x \ ps) \cup (DOMAIN y \cap ps) |->
                    IF p \in ps THEN y[p] ELSE x[p]]
        IN  /\ View(Top, AssignStruct(Top, ab[1], ab[2], i)) = Only(w, i)
            /\ View(Top, Copy(Top, ab[1], ab[2], i)) = Override(v, w, i)
            /\ View(Top, Merge(Top, ab[1], ab[2], i))
                   = MergeViews(Top, v, Only(w, i))
            /\ View(Top, moved[1]) = Only(w, i)
            /\ View(Top, moved[2]) = Only(w, DOMAIN w \ i)
            /\ View(Top, swapped[1]) = Override(v, w, i)
            /\ View(Top, swapped[2]) = Override(w, v, i)

(* Less compares at the first included property in which two instances    *)
(* differ, an invalid one being the smallest, and it is total: whatever is *)
(* invalid in them, two instances are equal, less or greater in exactly    *)
(* one way.  A container keeps its order, and its keys stay distinct.      *)
OrderIsTotal ==
    \A s, o \in alive : \A i \in PropertySets :
        LET a == area[s]
            b == area[o]
            r == PropertyRange(Top, i)
            first == {n \in DOMAIN r : /\ ~EqualProperty(Top, a, b, r[n])
                                      /\ \A h \in 1..(n - 1) :
                                             EqualProperty(Top, a, b, r[h])}
        IN  /\ Less(Top, a, b, i) <=>
                   \E n \in first : LessProperty(Top, a, b, r[n])
            /\ Equal(Top, a, b, i) <=> ~Less(Top, a, b, i) /\ ~Less(Top, b, a, i)
            /\ ~(Less(Top, a, b, i) /\ Less(Top, b, a, i))

(* Copying the properties that differ, and no smaller set of them, makes   *)
(* one instance equal to the other: what a publisher includes suffices.    *)
DiffSuffices ==
    \A s, o \in alive :
        LET diff == DiffProperties(Top, area[s], area[o], All) IN
        \A i \in PropertySets :
            Equal(Top, Copy(Top, area[s], area[o], i), area[o], All)
                <=> diff \subseteq i
=============================================================================
