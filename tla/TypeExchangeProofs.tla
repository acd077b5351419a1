------------------------- MODULE TypeExchangeProofs -------------------------
(***************************************************************************)
(* Proofs about TypeExchange: that no channel ever misses a type, and that *)
(* what an end counts as shared is known to its peer, or about to be.      *)
(*                                                                         *)
(* The recursion of registerType and exportDependencies is a recursive     *)
(* function on tours, Visited.  That it exists is not free: a tour weighs  *)
(* the types not seen yet, times more than any type uses, plus the types   *)
(* left; each call weighs less than its caller (VisitedSteps).  What a     *)
(* visit achieves is then shown by induction on the weight (VisitedIsGood): *)
(* it describes each new type once those it uses are seen, and leaves out  *)
(* none, because types are acyclic and a vector's element is no vector.    *)
(*                                                                         *)
(* From that follows what every transmission keeps of a channel's end      *)
(* (Line, Way), and from that the invariant (IInv).                        *)
(***************************************************************************)
EXTENDS TypeExchange, FiniteSetTheorems, SequenceTheorems, TLAPS

(* A set of natural numbers that is not empty has a least one.             *)
LEMMA LeastNatural ==
    ASSUME NEW S \in SUBSET Nat, S # {}
    PROVE  \E m \in S : \A n \in S : m <= n
<1> DEFINE R == OpToRel(<, Nat)
<1>1. IsWellFoundedOn(R, Nat)
  BY NatLessThanWellFounded
<1>2. PICK m \in S : \A n \in S : ~(<<n, m>> \in R)
  <2> HIDE DEF R
  <2> QED BY <1>1, WFMin
<1>3. ASSUME NEW n \in S, n < m PROVE <<n, m>> \in R
  BY <1>3 DEF OpToRel
<1>4. ASSUME NEW n \in S PROVE m <= n
  <2> HIDE DEF R
  <2>1. m \in Nat /\ n \in Nat /\ ~(n < m)
    BY <1>2, <1>3
  <2> QED BY <2>1
<1> QED BY <1>4

(* What holds of 0 and of each number after one it holds of.               *)
LEMMA Upto ==
    ASSUME NEW K \in Nat, NEW S, 0 \in S, \A n \in 1..K : n - 1 \in S => n \in S
    PROVE  \A n \in 0..K : n \in S
<1> DEFINE Bad == {n \in 0..K : n \notin S}
<1>1. SUFFICES ASSUME Bad # {} PROVE FALSE
  OBVIOUS
<1>2. PICK m \in Bad : \A n \in Bad : m <= n
  <2>1. Bad \in SUBSET Nat
    OBVIOUS
  <2> HIDE DEF Bad
  <2> QED BY <1>1, <2>1, LeastNatural
<1>3. m \in 1..K /\ m - 1 \in 0..K
  OBVIOUS
<1>4. m - 1 \notin Bad
  <2>1. m \in Nat /\ ~(m <= m - 1)
    BY <1>3
  <2> HIDE DEF Bad
  <2> QED BY <1>2, <2>1
<1> QED BY <1>3, <1>4

-----------------------------------------------------------------------------
(* Types *)

LEMMA Types ==
    /\ IsFiniteSet(Type)
    /\ \A t \in Type : Uses[t] \in Seq(Type) /\ UsesOf(t) \subseteq Type
<1>1. Order \in Seq(Type)
  BY TypeExchangeAssumption
<1>2. Order \in Surjection(1..Len(Order), Type)
  <2>1. Len(Order) \in Nat /\ Order \in [1..Len(Order) -> Type] /\ DOMAIN Order = 1..Len(Order)
    BY <1>1, LenProperties
  <2>2. \A t \in Type : \E i \in 1..Len(Order) : Order[i] = t
    BY <2>1 DEF Type, Range
  <2> QED BY <2>1, <2>2 DEF Surjection
<1>3. IsFiniteSet(Type)
  <2>1. Len(Order) \in Nat
    BY <1>1, LenProperties
  <2>2. IsFiniteSet(1..Len(Order))
    BY <2>1, FS_Interval
  <2> QED BY <1>2, <2>2, FS_Surjection
<1>4. \A t \in Type : Uses[t] \in Seq(Type)
  BY TypeExchangeAssumption
<1>5. \A t \in Type : UsesOf(t) \subseteq Type
  <2> SUFFICES ASSUME NEW t \in Type PROVE UsesOf(t) \subseteq Type
    OBVIOUS
  <2> QED BY <1>4, RangeOfSeq DEF UsesOf
<1> QED BY <1>3, <1>4, <1>5

(* No type uses more than so many others.                                  *)
Longest(n) == n \in Nat /\ \A t \in Type : Len(Uses[t]) <= n

LEMMA SomeAreLongest == \E n : Longest(n)
<1> DEFINE K == Len(Order)
           S == {k \in 0..K : \E n \in Nat : \A i \in 1..k : Len(Uses[Order[i]]) <= n}
<1>1. /\ K \in Nat /\ \A i \in 1..K : Order[i] \in Type
      /\ \A t \in Type : \E i \in 1..K : Order[i] = t
  <2>1. Order \in Seq(Type)
    BY TypeExchangeAssumption
  <2>2. K \in Nat /\ Order \in [1..K -> Type] /\ DOMAIN Order = 1..K
    BY <2>1, LenProperties
  <2> QED BY <2>2 DEF Type, Range
<1>2. 0 \in S
  BY <1>1
<1>3. ASSUME NEW k \in 1..K, k - 1 \in S PROVE k \in S
  <2>1. PICK n \in Nat : \A i \in 1..(k - 1) : Len(Uses[Order[i]]) <= n
    BY <1>3
  <2>2. Uses[Order[k]] \in Seq(Type)
    BY <1>1, Types
  <2>3. Len(Uses[Order[k]]) \in Nat
    BY <2>2, LenProperties
  <2>4. PICK p \in Nat : n <= p /\ Len(Uses[Order[k]]) <= p
    BY <2>3
  <2>5. ASSUME NEW i \in 1..k PROVE Len(Uses[Order[i]]) <= p
    <3>1. i \in 1..(k - 1) \/ i = k
      BY <1>1
    <3>2. CASE i \in 1..(k - 1)
      <4>1. Len(Uses[Order[i]]) <= n
        BY <3>2, <2>1
      <4>2. Uses[Order[i]] \in Seq(Type)
        BY <1>1, Types
      <4>3. Len(Uses[Order[i]]) \in Nat
        BY <4>2, LenProperties
      <4> QED BY <2>4, <4>1, <4>3
    <3> QED BY <3>1, <3>2, <2>4
  <2>6. k \in 0..K /\ p \in Nat /\ \A i \in 1..k : Len(Uses[Order[i]]) <= p
    BY <1>1, <2>4, <2>5
  <2> QED BY <2>6
<1>4. K \in S
  <2> HIDE DEF S
  <2>1. \A k \in 0..K : k \in S
    BY <1>1, <1>2, <1>3, Upto
  <2> QED BY <1>1, <2>1
<1>5. PICK n \in Nat : \A i \in 1..K : Len(Uses[Order[i]]) <= n
  BY <1>4
<1> QED BY <1>1, <1>5 DEF Longest

-----------------------------------------------------------------------------
(* Visited: it is defined everywhere, because every visit leads to lighter *)
(* ones, which have fewer types to see or fewer left in their turn.        *)
Result == [seen : SUBSET Type, described : Seq(Type)]

Own(t) == IF Kind[t] = "vector" THEN <<>> ELSE <<t>>
Inner(c) == [seen |-> Emplaced(c.seen, Head(c.left)), left |-> Uses[Head(c.left)]]
Following(s, c) == [seen |-> s, left |-> Tail(c.left)]
Both(u, t, r) == [seen |-> r.seen, described |-> u.described \o Own(t) \o r.described]

Step(f, c) ==
    IF c.left = <<>> THEN [seen |-> c.seen, described |-> <<>>]
    ELSE IF Head(c.left) \in c.seen THEN f[Following(c.seen, c)]
    ELSE Both(f[Inner(c)], Head(c.left), f[Following(f[Inner(c)].seen, c)])

Weight(n, c) == Cardinality(Type \ c.seen) * (n + 1) + Len(c.left)

LEMMA WeightIsNatural ==
    ASSUME NEW n, Longest(n), NEW c \in Tour
    PROVE  Weight(n, c) \in Nat
<1>1. Cardinality(Type \ c.seen) \in Nat
  <2>1. IsFiniteSet(Type \ c.seen)
    BY Types, FS_Subset
  <2> QED BY <2>1, FS_CardinalityType
<1>2. Len(c.left) \in Nat
  BY LenProperties DEF Tour
<1>3. n \in Nat
  BY DEF Longest
<1>4. Cardinality(Type \ c.seen) * (n + 1) \in Nat
  BY <1>1, <1>3
<1> QED BY <1>2, <1>4 DEF Weight

LEMMA Products ==
    ASSUME NEW a \in Nat, NEW b \in Nat, NEW k \in Nat, b <= a
    PROVE  b * k <= a * k
OBVIOUS

LEMMA FollowingIsLighter ==
    ASSUME NEW n, Longest(n), NEW c \in Tour, c.left # <<>>,
           NEW s \in SUBSET Type, c.seen \subseteq s
    PROVE  Following(s, c) \in Tour /\ Weight(n, Following(s, c)) < Weight(n, c)
<1>1. Following(s, c) \in Tour /\ Len(Tail(c.left)) = Len(c.left) - 1 /\ Len(c.left) \in Nat
  BY HeadTailProperties, LenProperties DEF Tour, Following
<1>2. /\ Cardinality(Type \ s) \in Nat /\ Cardinality(Type \ c.seen) \in Nat
      /\ Cardinality(Type \ s) <= Cardinality(Type \ c.seen)
  <2>1. IsFiniteSet(Type \ c.seen) /\ IsFiniteSet(Type \ s)
    BY Types, FS_Subset
  <2>2. Type \ s \in SUBSET (Type \ c.seen)
    OBVIOUS
  <2> QED BY <2>1, <2>2, FS_CardinalityType, FS_Subset
<1>3. n + 1 \in Nat
  BY DEF Longest
<1>4. Cardinality(Type \ s) * (n + 1) <= Cardinality(Type \ c.seen) * (n + 1)
  BY <1>2, <1>3, Products
<1>5. /\ Cardinality(Type \ s) * (n + 1) \in Nat
      /\ Cardinality(Type \ c.seen) * (n + 1) \in Nat
  BY <1>2, <1>3
<1>6. /\ Weight(n, Following(s, c)) = Cardinality(Type \ s) * (n + 1) + (Len(c.left) - 1)
      /\ Weight(n, c) = Cardinality(Type \ c.seen) * (n + 1) + Len(c.left)
  BY <1>1 DEF Weight, Following
<1> QED BY <1>1, <1>4, <1>5, <1>6

LEMMA InnerIsLighter ==
    ASSUME NEW n, Longest(n), NEW c \in Tour, c.left # <<>>, Head(c.left) \notin c.seen
    PROVE  /\ Inner(c) \in Tour /\ Weight(n, Inner(c)) < Weight(n, c)
           /\ Head(c.left) \in Type
<1> DEFINE t == Head(c.left)
<1>1. t \in Type /\ c.seen \subseteq Type /\ Len(c.left) \in Nat \ {0}
  BY HeadTailProperties, EmptySeq DEF Tour
<1>2. Uses[t] \in Seq(Type) /\ Len(Uses[t]) \in Nat /\ Len(Uses[t]) <= n
  <2>1. Uses[t] \in Seq(Type)
    BY <1>1, Types
  <2> QED BY <1>1, <2>1, LenProperties DEF Longest
<1>3. Inner(c) \in Tour
  BY <1>1, <1>2 DEF Inner, Tour, Emplaced
<1>4. /\ Cardinality(Type \ c.seen) \in Nat
      /\ Cardinality(Type \ Inner(c).seen) = Cardinality(Type \ c.seen) - 1
  <2>1. IsFiniteSet(Type \ c.seen)
    BY Types, FS_Subset
  <2>2. Type \ Inner(c).seen = (Type \ c.seen) \ {t}
    BY DEF Inner, Emplaced
  <2>3. t \in Type \ c.seen
    BY <1>1
  <2>4. Cardinality((Type \ c.seen) \ {t}) = Cardinality(Type \ c.seen) - 1
    BY <2>1, <2>3, FS_RemoveElement
  <2>5. Cardinality(Type \ c.seen) \in Nat
    BY <2>1, FS_CardinalityType
  <2> QED BY <2>2, <2>4, <2>5
<1>5. n \in Nat
  BY DEF Longest
<1>6. (Cardinality(Type \ c.seen) - 1) * (n + 1) = Cardinality(Type \ c.seen) * (n + 1) - (n + 1)
  BY <1>4, <1>5
<1>7. Cardinality(Type \ c.seen) * (n + 1) \in Nat
  BY <1>4, <1>5
<1>8. /\ Weight(n, Inner(c)) = (Cardinality(Type \ c.seen) * (n + 1) - (n + 1)) + Len(Uses[t])
      /\ Weight(n, c) = Cardinality(Type \ c.seen) * (n + 1) + Len(c.left)
  BY <1>4, <1>6 DEF Weight, Inner
<1> QED BY <1>1, <1>2, <1>3, <1>5, <1>7, <1>8

(* A visit depends on lighter ones only.                                   *)
LEMMA StepDepends ==
    ASSUME NEW n, Longest(n), NEW c \in Tour, NEW f, NEW g,
           \A d \in Tour : Weight(n, d) < Weight(n, c) =>
               f[d] = g[d] /\ f[d] \in Result /\ d.seen \subseteq f[d].seen
    PROVE  Step(f, c) = Step(g, c) /\ Step(f, c) \in Result /\ c.seen \subseteq Step(f, c).seen
<1> DEFINE t == Head(c.left)
           u == f[Inner(c)]
           d == Following(u.seen, c)
<1>0. c.seen \in SUBSET Type /\ c.left \in Seq(Type)
  BY DEF Tour
<1>1. CASE c.left = <<>>
  <2>1. <<>> \in Seq(Type)
    OBVIOUS
  <2> QED BY <1>0, <1>1, <2>1 DEF Step, Result
<1>2. CASE c.left # <<>> /\ t \in c.seen
  <2>1. Following(c.seen, c) \in Tour /\ Weight(n, Following(c.seen, c)) < Weight(n, c)
    BY <1>0, <1>2, FollowingIsLighter
  <2>2. Following(c.seen, c).seen = c.seen
    BY DEF Following
  <2> QED BY <1>2, <2>1, <2>2 DEF Step
<1>3. CASE c.left # <<>> /\ t \notin c.seen
  <2>1. Inner(c) \in Tour /\ Weight(n, Inner(c)) < Weight(n, c) /\ t \in Type
    BY <1>3, InnerIsLighter
  <2>2. u = g[Inner(c)] /\ u \in Result /\ c.seen \subseteq u.seen
    BY <2>1 DEF Inner, Emplaced
  <2>3. d \in Tour /\ Weight(n, d) < Weight(n, c)
    BY <1>3, <2>2, FollowingIsLighter DEF Result
  <2>4. f[d] = g[d] /\ f[d] \in Result /\ u.seen \subseteq f[d].seen
    BY <2>3 DEF Following
  <2>5. Step(f, c) = Both(u, t, f[d]) /\ Step(g, c) = Both(g[Inner(c)], t, g[Following(g[Inner(c)].seen, c)])
    BY <1>3 DEF Step
  <2>6. Step(g, c) = Both(u, t, f[d])
    BY <2>2, <2>4, <2>5
  <2>7. Own(t) \in Seq(Type)
    BY <2>1 DEF Own
  <2>8. u.described \o Own(t) \o f[d].described \in Seq(Type)
    BY <2>2, <2>4, <2>7, ConcatProperties DEF Result
  <2>9. Both(u, t, f[d]) \in Result /\ Both(u, t, f[d]).seen = f[d].seen
    BY <2>4, <2>8 DEF Both, Result
  <2> QED BY <2>2, <2>4, <2>5, <2>6, <2>9
<1> QED BY <1>1, <1>2, <1>3

(* What is defined of the tours below a weight.                            *)
Lighter(n, k) == {c \in Tour : Weight(n, c) < k}
Partly(n, k) == {f \in [Lighter(n, k) -> Result] :
                   \A c \in Lighter(n, k) : c.seen \subseteq f[c].seen /\ f[c] = Step(f, c)}

LEMMA PartlyFact ==
    ASSUME NEW n, NEW k, NEW f \in Partly(n, k), NEW c \in Tour, Weight(n, c) < k
    PROVE  f[c] \in Result /\ c.seen \subseteq f[c].seen /\ f[c] = Step(f, c)
BY DEF Partly, Lighter

LEMMA PartlyAgree ==
    ASSUME NEW n, Longest(n), NEW k \in Nat, NEW l \in Nat,
           NEW f \in Partly(n, k), NEW g \in Partly(n, l),
           NEW c \in Tour, Weight(n, c) < k, Weight(n, c) < l
    PROVE  f[c] = g[c]
<1> DEFINE Differ == {d \in Tour : Weight(n, d) < k /\ Weight(n, d) < l /\ f[d] # g[d]}
           W == {Weight(n, d) : d \in Differ}
<1>1. SUFFICES ASSUME W # {} PROVE FALSE
  OBVIOUS
<1>2. W \in SUBSET Nat
  BY WeightIsNatural
<1>3. PICK m \in W : \A w \in W : m <= w
  <2> HIDE DEF W
  <2> QED BY <1>1, <1>2, LeastNatural
<1>4. PICK d \in Differ : Weight(n, d) = m
  OBVIOUS
<1>5. d \in Tour /\ Weight(n, d) \in Nat /\ Weight(n, d) < k /\ Weight(n, d) < l /\ f[d] # g[d]
  BY <1>4, WeightIsNatural
<1>6. ASSUME NEW e \in Tour, Weight(n, e) < Weight(n, d)
      PROVE  f[e] = g[e] /\ f[e] \in Result /\ e.seen \subseteq f[e].seen
  <2>1. Weight(n, e) \in Nat
    BY WeightIsNatural
  <2>2. Weight(n, e) < k /\ Weight(n, e) < l /\ ~(m <= Weight(n, e))
    BY <1>4, <1>5, <1>6, <2>1
  <2>3. e \notin Differ
    BY <1>3, <2>2
  <2>4. f[e] = g[e]
    BY <2>2, <2>3
  <2>5. f[e] \in Result /\ e.seen \subseteq f[e].seen
    BY <2>2, PartlyFact
  <2> QED BY <2>4, <2>5
<1>7. Step(f, d) = Step(g, d)
  BY <1>5, <1>6, StepDepends
<1>8. f[d] = Step(f, d) /\ g[d] = Step(g, d)
  BY <1>5, PartlyFact
<1> QED BY <1>5, <1>7, <1>8

LEMMA PartlyExtends ==
    ASSUME NEW n, Longest(n), NEW k \in Nat, NEW f \in Partly(n, k)
    PROVE  \E g : g \in Partly(n, k + 1)
<1> DEFINE g == [c \in Lighter(n, k + 1) |-> IF c \in Lighter(n, k) THEN f[c] ELSE Step(f, c)]
<1>1. ASSUME NEW c \in Lighter(n, k + 1)
      PROVE  /\ g[c] = Step(f, c) /\ g[c] = Step(g, c)
             /\ g[c] \in Result /\ c.seen \subseteq g[c].seen
  <2>1. c \in Tour /\ Weight(n, c) \in Nat /\ Weight(n, c) < k + 1
    BY WeightIsNatural DEF Lighter
  <2>2. ASSUME NEW d \in Tour, Weight(n, d) < Weight(n, c)
        PROVE  f[d] = g[d] /\ f[d] \in Result /\ d.seen \subseteq f[d].seen
    <3>1. Weight(n, d) \in Nat
      BY WeightIsNatural
    <3>2. Weight(n, d) < k /\ Weight(n, d) < k + 1
      BY <2>1, <2>2, <3>1
    <3>3. g[d] = f[d]
      BY <3>2 DEF Lighter
    <3> QED BY <3>2, <3>3, PartlyFact
  <2>3. Step(f, c) = Step(g, c) /\ Step(f, c) \in Result /\ c.seen \subseteq Step(f, c).seen
    <3> HIDE DEF g
    <3> QED BY <2>1, <2>2, StepDepends
  <2>4. g[c] = Step(f, c)
    <3>1. CASE c \in Lighter(n, k)
      <4>1. f[c] = Step(f, c)
        BY <3>1 DEF Partly
      <4> QED BY <3>1, <4>1
    <3>2. CASE c \notin Lighter(n, k)
      BY <3>2
    <3> QED BY <3>1, <3>2
  <2> HIDE DEF g
  <2> QED BY <2>3, <2>4
<1>2. g \in [Lighter(n, k + 1) -> Result]
  <2>1. g = [c \in Lighter(n, k + 1) |-> g[c]]
    OBVIOUS
  <2> HIDE DEF g
  <2> QED BY <1>1, <2>1
<1>3. g \in Partly(n, k + 1)
  <2> HIDE DEF g
  <2> QED BY <1>1, <1>2 DEF Partly
<1> QED BY <1>3

LEMMA PartlyExists ==
    ASSUME NEW n, Longest(n), NEW k \in Nat
    PROVE  Partly(n, k) # {}
<1> DEFINE S == {l \in 0..k : Partly(n, l) # {}}
<1>1. 0 \in S
  <2>1. Lighter(n, 0) = {}
    <3>1. ASSUME NEW c \in Tour PROVE ~(Weight(n, c) < 0)
      BY WeightIsNatural
    <3> QED BY <3>1 DEF Lighter
  <2>2. [c \in {} |-> [seen |-> {}, described |-> <<>>]] \in Partly(n, 0)
    BY <2>1 DEF Partly
  <2> QED BY <2>2
<1>2. ASSUME NEW l \in 1..k, l - 1 \in S PROVE l \in S
  <2>1. PICK f : f \in Partly(n, l - 1)
    BY <1>2
  <2>2. l - 1 \in Nat /\ (l - 1) + 1 = l /\ l \in 0..k
    OBVIOUS
  <2>3. \E g : g \in Partly(n, (l - 1) + 1)
    BY <2>1, <2>2, PartlyExtends
  <2> QED BY <2>2, <2>3
<1>3. k \in S
  <2> HIDE DEF S
  <2>1. \A l \in 0..k : l \in S
    BY <1>1, <1>2, Upto
  <2> QED BY <2>1
<1> QED BY <1>3

LEMMA WholeExists == \E f : f = [c \in Tour |-> Step(f, c)]
<1>1. PICK n : Longest(n)
  BY SomeAreLongest
<1> DEFINE Some(k) == CHOOSE g : g \in Partly(n, k)
           f == [c \in Tour |-> Some(Weight(n, c) + 1)[c]]
<1>2. ASSUME NEW k \in Nat PROVE Some(k) \in Partly(n, k)
  BY <1>1, PartlyExists
<1>3. ASSUME NEW c \in Tour PROVE f[c] = Step(f, c)
  <2> DEFINE g == Some(Weight(n, c) + 1)
  <2>1. Weight(n, c) \in Nat /\ Weight(n, c) + 1 \in Nat /\ Weight(n, c) < Weight(n, c) + 1
    <3>1. Weight(n, c) \in Nat
      BY <1>1, WeightIsNatural
    <3> QED BY <3>1
  <2>2. g \in Partly(n, Weight(n, c) + 1)
    BY <1>2, <2>1
  <2>3. ASSUME NEW d \in Tour, Weight(n, d) < Weight(n, c)
        PROVE  g[d] = f[d] /\ g[d] \in Result /\ d.seen \subseteq g[d].seen
    <3>1. /\ Weight(n, d) + 1 \in Nat /\ Weight(n, d) < Weight(n, d) + 1
          /\ Weight(n, d) < Weight(n, c) + 1
      <4>1. Weight(n, d) \in Nat
        BY <1>1, WeightIsNatural
      <4> QED BY <2>1, <2>3, <4>1
    <3>2. Some(Weight(n, d) + 1) \in Partly(n, Weight(n, d) + 1)
      BY <1>2, <3>1
    <3>3. f[d] = Some(Weight(n, d) + 1)[d]
      OBVIOUS
    <3> HIDE DEF f, g, Some
    <3>4. Some(Weight(n, d) + 1)[d] = g[d]
      BY <1>1, <2>1, <2>2, <3>1, <3>2, PartlyAgree
    <3>5. g[d] \in Result /\ d.seen \subseteq g[d].seen
      BY <2>2, <3>1, PartlyFact
    <3> QED BY <3>3, <3>4, <3>5
  <2>4. f[c] = g[c]
    OBVIOUS
  <2> HIDE DEF f, g, Some
  <2>5. Step(g, c) = Step(f, c)
    BY <1>1, <2>3, StepDepends
  <2>6. g[c] = Step(g, c)
    BY <2>1, <2>2, PartlyFact
  <2> QED BY <2>4, <2>5, <2>6
<1>4. f = [c \in Tour |-> Step(f, c)]
  <2>1. f = [c \in Tour |-> f[c]]
    OBVIOUS
  <2> HIDE DEF f
  <2> QED BY <1>3, <2>1
<1> QED BY <1>4

LEMMA VisitedSteps ==
    ASSUME NEW c \in Tour
    PROVE  Visited[c] = Step(Visited, c)
<1>1. Visited = CHOOSE f : f = [d \in Tour |-> Step(f, d)]
  BY DEF Visited, Step, Following, Inner, Both, Own
<1> DEFINE v == CHOOSE f : f = [d \in Tour |-> Step(f, d)]
<1>2. v = [d \in Tour |-> Step(v, d)]
  BY WholeExists
<1> HIDE DEF v
<1> QED BY <1>1, <1>2 DEF v
-----------------------------------------------------------------------------
(* What a visit results in.  A vector needs no description of its own: its *)
(* element stands for it, and any other type for itself.                   *)
Element(t) == IF Kind[t] = "vector" THEN Uses[t][1] ELSE t
In(x, d) == \E i \in 1..Len(d) : d[i] = x

Ranks(rank) == /\ rank \in [Type -> Nat]
               /\ \A t \in Type : \A u \in UsesOf(t) : rank[u] < rank[t]

(* The types that d describes use what is in s or described before them.   *)
Prepared(d, s) ==
    \A i \in 1..Len(d) : \A x \in UsesOf(d[i]) :
        x \in s \/ Element(x) \in s \/ \E j \in 1..(i - 1) : d[j] = Element(x)

(* It has seen what it was to see, and what that uses.                     *)
Sees(c, v) == /\ c.seen \subseteq v.seen /\ Range(c.left) \subseteq v.seen
              /\ \A x \in v.seen \ c.seen : UsesOf(x) \subseteq v.seen

(* It has seen nothing but what one gets to from there.                    *)
Confined(c, v) == \A k \in SUBSET Type : Closed(k) /\ Range(c.left) \subseteq k => v.seen \subseteq c.seen \cup k

(* What it has seen ranks no higher than where it began.                   *)
Below(rank, c, v) == \A k \in Nat : (\A x \in Range(c.left) : rank[x] < k) =>
                         \A x \in v.seen \ c.seen : rank[x] < k

(* It describes types it has seen, and these only, in a good order.        *)
Describes(c, v) ==
    /\ \A i \in 1..Len(v.described) : /\ v.described[i] \in v.seen \ c.seen
                                      /\ Kind[v.described[i]] # "vector"
    /\ \A x \in v.seen \ c.seen : Element(x) \in c.seen \/ In(Element(x), v.described)
    /\ Prepared(v.described, c.seen)

Good(rank, c, v) ==
    /\ v \in Result
    /\ Sees(c, v) /\ Confined(c, v) /\ Below(rank, c, v) /\ Describes(c, v)

LEMMA Elements ==
    ASSUME NEW t \in Type
    PROVE  /\ Element(t) \in Type /\ Kind[Element(t)] # "vector"
           /\ Element(Element(t)) = Element(t)
           /\ Kind[t] = "vector" => UsesOf(t) = {Element(t)}
<1>1. CASE Kind[t] = "vector"
  <2>1. Uses[t] \in Seq(Type) /\ Len(Uses[t]) = 1 /\ Kind[Uses[t][1]] # "vector"
    BY <1>1, TypeExchangeAssumption
  <2>2. Uses[t][1] \in Type /\ UsesOf(t) = {Uses[t][1]}
    <3>1. DOMAIN Uses[t] = {1} /\ Uses[t] \in [1..1 -> Type]
      BY <2>1, LenProperties
    <3> QED BY <3>1 DEF UsesOf, Range
  <2> QED BY <1>1, <2>1, <2>2 DEF Element
<1>2. CASE Kind[t] # "vector"
  BY <1>2 DEF Element
<1> QED BY <1>1, <1>2

LEMMA ElementRanks ==
    ASSUME NEW rank, Ranks(rank), NEW t \in Type
    PROVE  rank[Element(t)] <= rank[t]
<1>1. CASE Kind[t] = "vector"
  <2>1. Element(t) \in UsesOf(t) /\ Element(t) \in Type
    BY <1>1, Elements
  <2> QED BY <2>1 DEF Ranks
<1>2. CASE Kind[t] # "vector"
  BY <1>2 DEF Element, Ranks
<1> QED BY <1>1, <1>2

LEMMA Concats ==
    ASSUME NEW S, NEW d \in Seq(S), NEW e \in Seq(S)
    PROVE  /\ d \o e \in Seq(S)
           /\ \A i \in 1..Len(d) : i \in 1..Len(d \o e) /\ (d \o e)[i] = d[i]
           /\ \A i \in 1..Len(e) : Len(d) + i \in 1..Len(d \o e) /\ (d \o e)[Len(d) + i] = e[i]
           /\ \A i \in 1..Len(d \o e) : i \in 1..Len(d) \/ \E j \in 1..Len(e) : i = Len(d) + j
<1>1. /\ Len(d) \in Nat /\ Len(e) \in Nat /\ Len(d \o e) = Len(d) + Len(e) /\ d \o e \in Seq(S)
      /\ \A i \in 1 .. Len(d) + Len(e) : (d \o e)[i] = IF i <= Len(d) THEN d[i] ELSE e[i - Len(d)]
  BY ConcatProperties, LenProperties
<1>2. ASSUME NEW i \in 1..Len(d) PROVE i \in 1..Len(d \o e) /\ (d \o e)[i] = d[i]
  <2>1. i \in 1 .. Len(d) + Len(e) /\ i <= Len(d)
    BY <1>1
  <2> QED BY <1>1, <2>1
<1>3. ASSUME NEW i \in 1..Len(e)
      PROVE  Len(d) + i \in 1..Len(d \o e) /\ (d \o e)[Len(d) + i] = e[i]
  <2>1. Len(d) + i \in 1 .. Len(d) + Len(e) /\ ~(Len(d) + i <= Len(d)) /\ (Len(d) + i) - Len(d) = i
    BY <1>1
  <2> QED BY <1>1, <2>1
<1>4. ASSUME NEW i \in 1..Len(d \o e), i \notin 1..Len(d)
      PROVE  \E j \in 1..Len(e) : i = Len(d) + j
  <2>1. i - Len(d) \in 1..Len(e) /\ i = Len(d) + (i - Len(d))
    BY <1>1, <1>4
  <2> QED BY <2>1
<1> QED BY <1>1, <1>2, <1>3, <1>4

LEMMA InConcat ==
    ASSUME NEW S, NEW d \in Seq(S), NEW e \in Seq(S), NEW x
    PROVE  In(x, d \o e) <=> In(x, d) \/ In(x, e)
<1>1. ASSUME In(x, d) PROVE In(x, d \o e)
  BY <1>1, Concats DEF In
<1>2. ASSUME In(x, e) PROVE In(x, d \o e)
  <2>1. PICK i \in 1..Len(e) : e[i] = x
    BY <1>2 DEF In
  <2>2. Len(d) + i \in 1..Len(d \o e) /\ (d \o e)[Len(d) + i] = e[i]
    BY Concats
  <2> QED BY <2>1, <2>2 DEF In
<1>3. ASSUME In(x, d \o e) PROVE In(x, d) \/ In(x, e)
  <2>1. PICK i \in 1..Len(d \o e) : (d \o e)[i] = x
    BY <1>3 DEF In
  <2>2. CASE i \in 1..Len(d)
    <3>1. d[i] = x
      BY <2>1, <2>2, Concats
    <3> QED BY <2>2, <3>1 DEF In
  <2>3. CASE \E j \in 1..Len(e) : i = Len(d) + j
    <3>1. PICK j \in 1..Len(e) : i = Len(d) + j
      BY <2>3
    <3>2. e[j] = x
      BY <2>1, <3>1, Concats
    <3> QED BY <3>2 DEF In
  <2> QED BY <2>2, <2>3, Concats
<1> QED BY <1>1, <1>2, <1>3

LEMMA PreparedConcat ==
    ASSUME NEW s, NEW d \in Seq(Type), NEW e \in Seq(Type), Prepared(d, s),
           \A i \in 1..Len(e) : \A x \in UsesOf(e[i]) :
               \/ x \in s \/ Element(x) \in s \/ In(Element(x), d)
               \/ \E j \in 1..(i - 1) : e[j] = Element(x)
    PROVE  Prepared(d \o e, s)
<1> SUFFICES ASSUME NEW i \in 1..Len(d \o e), NEW x \in UsesOf((d \o e)[i]),
                    x \notin s, Element(x) \notin s
             PROVE  \E j \in 1..(i - 1) : (d \o e)[j] = Element(x)
  BY DEF Prepared
<1>0. Len(d) \in Nat /\ Len(e) \in Nat
  BY LenProperties
<1>3. /\ \A j \in 1..Len(d) : (d \o e)[j] = d[j]
      /\ \A j \in 1..Len(e) : (d \o e)[Len(d) + j] = e[j]
      /\ i \in 1..Len(d) \/ \E j \in 1..Len(e) : i = Len(d) + j
  <2>1. \A j \in 1..Len(d) : (d \o e)[j] = d[j]
    BY Concats
  <2>2. \A j \in 1..Len(e) : (d \o e)[Len(d) + j] = e[j]
    BY Concats
  <2>3. i \in 1..Len(d) \/ \E j \in 1..Len(e) : i = Len(d) + j
    BY Concats
  <2> QED BY <2>1, <2>2, <2>3
<1>1. CASE i \in 1..Len(d)
  <2>1. (d \o e)[i] = d[i]
    BY <1>1, <1>3
  <2>2. PICK j \in 1..(i - 1) : d[j] = Element(x)
    BY <1>1, <2>1 DEF Prepared
  <2>3. j \in 1..Len(d)
    BY <1>0, <1>1
  <2>4. (d \o e)[j] = d[j]
    BY <2>3, <1>3
  <2> QED BY <2>2, <2>4
<1>2. CASE \E k \in 1..Len(e) : i = Len(d) + k
  <2>1. PICK k \in 1..Len(e) : i = Len(d) + k
    BY <1>2
  <2>2. (d \o e)[i] = e[k]
    BY <2>1, <1>3
  <2>3. In(Element(x), d) \/ \E j \in 1..(k - 1) : e[j] = Element(x)
    BY <2>2
  <2>4. CASE In(Element(x), d)
    <3>1. PICK j \in 1..Len(d) : d[j] = Element(x)
      BY <2>4 DEF In
    <3>2. (d \o e)[j] = d[j]
      BY <1>3
    <3>3. j \in 1..(i - 1)
      BY <1>0, <2>1
    <3> QED BY <3>1, <3>2, <3>3
  <2>5. CASE \E j \in 1..(k - 1) : e[j] = Element(x)
    <3>1. PICK j \in 1..(k - 1) : e[j] = Element(x)
      BY <2>5
    <3>2. j \in 1..Len(e)
      BY <1>0
    <3>3. (d \o e)[Len(d) + j] = e[j]
      BY <3>2, <1>3
    <3>4. Len(d) + j \in 1..(i - 1)
      BY <1>0, <2>1
    <3> QED BY <3>1, <3>3, <3>4
  <2> QED BY <2>3, <2>4, <2>5
<1> QED BY <1>1, <1>2, <1>3
LEMMA HeadOrTail ==
    ASSUME NEW S, NEW s \in Seq(S), s # <<>>
    PROVE  Range(s) = {Head(s)} \cup Range(Tail(s))
<1>1. /\ Len(s) \in Nat \ {0} /\ DOMAIN s = 1..Len(s) /\ Head(s) = s[1]
      /\ DOMAIN Tail(s) = 1..(Len(s) - 1) /\ \A i \in 1..(Len(s) - 1) : Tail(s)[i] = s[i + 1]
  BY HeadTailProperties, LenProperties, EmptySeq
<1>2. ASSUME NEW i \in 1..Len(s) PROVE s[i] \in {Head(s)} \cup Range(Tail(s))
  <2>1. CASE i = 1
    BY <1>1, <2>1
  <2>2. CASE i # 1
    <3>1. i - 1 \in 1..(Len(s) - 1) /\ (i - 1) + 1 = i
      BY <1>1, <2>2
    <3>2. Tail(s)[i - 1] = s[i]
      BY <1>1, <3>1
    <3> QED BY <1>1, <3>1, <3>2 DEF Range
  <2> QED BY <2>1, <2>2
<1>3. ASSUME NEW i \in 1..(Len(s) - 1) PROVE Tail(s)[i] \in Range(s)
  <2>1. i + 1 \in 1..Len(s)
    BY <1>1
  <2> QED BY <1>1, <2>1 DEF Range
<1>4. Head(s) \in Range(s)
  BY <1>1 DEF Range
<1>5. Range(s) \subseteq {Head(s)} \cup Range(Tail(s))
  BY <1>1, <1>2 DEF Range
<1>6. Range(Tail(s)) \subseteq Range(s)
  BY <1>1, <1>3 DEF Range
<1> QED BY <1>4, <1>5, <1>6

LEMMA GoodNothing ==
    ASSUME NEW rank, NEW c \in Tour, c.left = <<>>
    PROVE  Good(rank, c, [seen |-> c.seen, described |-> <<>>])
<1>1. c.seen \in SUBSET Type /\ <<>> \in Seq(Type) /\ Range(c.left) = {} /\ 1..Len(<<>>) = {}
  BY DEF Tour, Range
<1> QED BY <1>1 DEF Good, Result, Sees, Confined, Below, Describes, Prepared

LEMMA GoodAgain ==
    ASSUME NEW rank, NEW c \in Tour, c.left # <<>>, Head(c.left) \in c.seen,
           NEW v, Good(rank, Following(c.seen, c), v)
    PROVE  Good(rank, c, v)
<1>1. Range(c.left) = {Head(c.left)} \cup Range(Tail(c.left))
  BY HeadOrTail DEF Tour
<1> QED BY <1>1 DEF Good, Following, Sees, Confined, Below, Describes

(* A visit of a type that is new: what it uses comes before it, and the    *)
(* rest after it.                                                          *)
LEMMA GoodVisit ==
    ASSUME NEW rank, Ranks(rank), NEW c \in Tour, c.left # <<>>, Head(c.left) \notin c.seen,
           NEW u, Good(rank, Inner(c), u), NEW r, Good(rank, Following(u.seen, c), r)
    PROVE  Good(rank, c, Both(u, Head(c.left), r))
<1> DEFINE t == Head(c.left)
           S == c.seen
           v == Both(u, t, r)
           own == Own(t)
           d == u.described \o own
<1>1. /\ t \in Type /\ Range(c.left) = {t} \cup Range(Tail(c.left))
      /\ UsesOf(t) \subseteq Type /\ S \subseteq Type
  BY HeadOrTail, HeadTailProperties, Types DEF Tour
<1>2. /\ Inner(c).seen = S \cup {t} /\ Range(Inner(c).left) = UsesOf(t)
      /\ Following(u.seen, c).seen = u.seen /\ Following(u.seen, c).left = Tail(c.left)
  BY DEF Inner, Emplaced, Following, UsesOf
<1>3. v.seen = r.seen /\ v.described = d \o r.described
  BY DEF Both
<1>4. /\ u.seen \subseteq Type /\ r.seen \subseteq Type
      /\ u.described \in Seq(Type) /\ r.described \in Seq(Type) /\ own \in Seq(Type)
      /\ d \in Seq(Type) /\ d \o r.described \in Seq(Type)
  <2>1. /\ u.seen \subseteq Type /\ r.seen \subseteq Type
        /\ u.described \in Seq(Type) /\ r.described \in Seq(Type)
    BY DEF Good, Result
  <2>2. own \in Seq(Type)
    BY <1>1 DEF Own
  <2> QED BY <2>1, <2>2, ConcatProperties
<1>5. v \in Result
  BY <1>3, <1>4 DEF Result, Both
<1>6. /\ S \cup {t} \subseteq u.seen /\ UsesOf(t) \subseteq u.seen /\ u.seen \subseteq r.seen
      /\ Range(Tail(c.left)) \subseteq r.seen
      /\ \A x \in u.seen \ (S \cup {t}) : UsesOf(x) \subseteq u.seen
      /\ \A x \in r.seen \ u.seen : UsesOf(x) \subseteq r.seen
  BY <1>2 DEF Good, Sees
<1>7. Sees(c, v)
  <2>1. ASSUME NEW x \in r.seen \ S PROVE UsesOf(x) \subseteq r.seen
    BY <1>6
  <2> QED BY <1>1, <1>3, <1>6, <2>1 DEF Sees
<1>8. Confined(c, v)
  <2> SUFFICES ASSUME NEW k \in SUBSET Type, Closed(k), Range(c.left) \subseteq k
               PROVE  r.seen \subseteq S \cup k
    BY <1>3 DEF Confined
  <2>1. t \in k /\ UsesOf(t) \subseteq k /\ Range(Tail(c.left)) \subseteq k
    BY <1>1 DEF Closed
  <2>2. u.seen \subseteq (S \cup {t}) \cup k
    BY <1>2, <2>1 DEF Good, Confined
  <2>3. r.seen \subseteq u.seen \cup k
    BY <1>2, <2>1 DEF Good, Confined
  <2> QED BY <2>1, <2>2, <2>3
<1>9. \A x \in u.seen \ (S \cup {t}) : rank[x] < rank[t]
  <2>1. rank[t] \in Nat /\ \A x \in UsesOf(t) : rank[x] < rank[t]
    BY <1>1 DEF Ranks
  <2> QED BY <1>2, <2>1 DEF Good, Below
<1>10. Below(rank, c, v)
  <2> SUFFICES ASSUME NEW k \in Nat, \A x \in Range(c.left) : rank[x] < k,
                      NEW x \in r.seen \ S
               PROVE  rank[x] < k
    BY <1>3 DEF Below
  <2>1. rank[t] < k /\ rank[t] \in Nat /\ rank[x] \in Nat
    BY <1>1, <1>4 DEF Ranks
  <2>2. CASE x \in u.seen
    <3>1. x = t \/ rank[x] < rank[t]
      BY <1>9, <2>2
    <3> QED BY <2>1, <3>1
  <2>3. CASE x \notin u.seen
    <3>1. \A y \in Range(Tail(c.left)) : rank[y] < k
      BY <1>1
    <3> QED BY <1>2, <2>3, <3>1 DEF Good, Below
  <2> QED BY <2>2, <2>3
<1>11. ASSUME NEW x \in Type, rank[x] < rank[t]
       PROVE  x # t /\ Element(x) # t
  <2>1. /\ rank[x] \in Nat /\ rank[t] \in Nat /\ rank[Element(x)] \in Nat
        /\ rank[Element(x)] <= rank[x]
    BY <1>1, Elements, ElementRanks DEF Ranks
  <2> QED BY <1>11, <2>1
(* What the first visit has seen can be described, or has been.            *)
<1>12. ASSUME NEW x \in u.seen
       PROVE  x \in S \/ Element(x) \in S \/ In(Element(x), d)
  <2>0. x \in Type /\ (In(Element(x), u.described) => In(Element(x), d))
    BY <1>4, InConcat
  <2>1. ASSUME NEW y \in u.seen \ (S \cup {t})
        PROVE  Element(y) \in S \/ In(Element(y), u.described)
    <3>1. Element(y) \in S \cup {t} \/ In(Element(y), u.described)
      BY <1>2 DEF Good, Describes
    <3>2. Element(y) # t
      BY <1>4, <1>9, <1>11
    <3> QED BY <3>1, <3>2
  <2>2. CASE x = t /\ Kind[t] # "vector"
    <3>1. Element(x) = t /\ own = <<t>>
      BY <2>2 DEF Element, Own
    <3>2. In(t, own)
      BY <3>1 DEF In
    <3> QED BY <1>4, <3>1, <3>2, InConcat
  <2>3. CASE x = t /\ Kind[t] = "vector"
    <3>1. Element(x) \in UsesOf(t) /\ Element(x) \in Type
      BY <1>1, <2>3, Elements
    <3>2. Element(x) # t
      BY <1>1, <1>11, <3>1 DEF Ranks
    <3>3. CASE Element(x) \in S
      BY <3>3
    <3>4. CASE Element(x) \notin S
      <4>1. Element(x) \in u.seen \ (S \cup {t})
        BY <1>6, <3>1, <3>2, <3>4
      <4>2. Element(Element(x)) = Element(x)
        BY <2>0, Elements
      <4>3. In(Element(x), u.described)
        BY <2>1, <3>4, <4>1, <4>2
      <4> QED BY <2>0, <4>3
    <3> QED BY <3>3, <3>4
  <2>4. CASE x # t /\ x \notin S
    BY <2>0, <2>1, <2>4
  <2> QED BY <2>2, <2>3, <2>4
<1>13. ASSUME NEW x \in r.seen \ S
       PROVE  Element(x) \in S \/ In(Element(x), v.described)
  <2>0. /\ x \in Type /\ Element(x) \in Type /\ Element(Element(x)) = Element(x)
        /\ \A y : In(y, d) \/ In(y, r.described) => In(y, v.described)
    BY <1>3, <1>4, InConcat, Elements
  <2>1. CASE x \in u.seen
    BY <1>12, <2>0, <2>1
  <2>2. CASE x \notin u.seen
    <3>1. Element(x) \in u.seen \/ In(Element(x), r.described)
      BY <1>2, <2>2 DEF Good, Describes
    <3>2. Element(x) \in u.seen => Element(x) \in S \/ In(Element(x), d)
      BY <1>12, <2>0
    <3> QED BY <2>0, <3>1, <3>2
  <2> QED BY <2>1, <2>2
<1>14. Prepared(u.described, S)
  <2> SUFFICES ASSUME NEW i \in 1..Len(u.described), NEW x \in UsesOf(u.described[i])
               PROVE  \/ x \in S \/ Element(x) \in S
                      \/ \E j \in 1..(i - 1) : u.described[j] = Element(x)
    BY DEF Prepared
  <2>1. u.described[i] \in u.seen \ (S \cup {t})
    BY <1>2 DEF Good, Describes
  <2>2. \/ x \in S \cup {t} \/ Element(x) \in S \cup {t}
        \/ \E j \in 1..(i - 1) : u.described[j] = Element(x)
    BY <1>2 DEF Good, Describes, Prepared
  <2>3. x \in Type /\ rank[x] < rank[t]
    <3>1. rank[u.described[i]] < rank[t] /\ u.described[i] \in Type
      BY <1>4, <1>9, <2>1
    <3>2. x \in Type /\ rank[x] < rank[u.described[i]]
      BY <3>1, Types DEF Ranks
    <3>3. rank[x] \in Nat /\ rank[t] \in Nat /\ rank[u.described[i]] \in Nat
      BY <1>1, <3>1, <3>2 DEF Ranks
    <3> QED BY <3>1, <3>2, <3>3
  <2>4. x # t /\ Element(x) # t
    BY <1>11, <2>3
  <2> QED BY <2>2, <2>4
<1>15. Prepared(d, S)
  <2>1. ASSUME NEW i \in 1..Len(own), NEW x \in UsesOf(own[i])
        PROVE  x \in S \/ Element(x) \in S \/ In(Element(x), u.described)
    <3>1. own[i] = t
      BY DEF Own
    <3>2. x \in u.seen /\ x # t
      BY <1>1, <1>6, <1>11, <3>1 DEF Ranks
    <3>3. CASE x \notin S
      <4>1. Element(x) \in S \cup {t} \/ In(Element(x), u.described)
        BY <1>2, <3>2, <3>3 DEF Good, Describes
      <4>2. Element(x) # t
        BY <1>1, <1>11, <3>1 DEF Ranks
      <4> QED BY <4>1, <4>2
    <3> QED BY <3>3
  <2> HIDE DEF own, S
  <2> QED BY <1>4, <1>14, <2>1, PreparedConcat
<1>16. Prepared(v.described, S)
  <2>1. ASSUME NEW i \in 1..Len(r.described), NEW x \in UsesOf(r.described[i])
        PROVE  \/ x \in S \/ Element(x) \in S \/ In(Element(x), d)
               \/ \E j \in 1..(i - 1) : r.described[j] = Element(x)
    <3>1. \/ x \in u.seen \/ Element(x) \in u.seen
          \/ \E j \in 1..(i - 1) : r.described[j] = Element(x)
      BY <1>2 DEF Good, Describes, Prepared
    <3>2. r.described[i] \in Type
      BY <1>4, ElementOfSeq
    <3>3. x \in Type
      BY <3>2, Types
    <3>4. Element(Element(x)) = Element(x)
      BY <3>3, Elements
    <3> QED BY <1>12, <3>1, <3>4
  <2>2. Prepared(d \o r.described, S)
    <3> HIDE DEF d, S
    <3> QED BY <1>4, <1>15, <2>1, PreparedConcat
  <2> QED BY <1>3, <2>2
<1>17. ASSUME NEW i \in 1..Len(v.described)
       PROVE  v.described[i] \in r.seen \ S /\ Kind[v.described[i]] # "vector"
  <2>1. In(v.described[i], u.described) \/ In(v.described[i], own) \/ In(v.described[i], r.described)
    <3>1. In(v.described[i], v.described)
      BY DEF In
    <3>2. In(v.described[i], d) \/ In(v.described[i], r.described)
      <4> HIDE DEF d, v
      <4> QED BY <1>3, <1>4, <3>1, InConcat
    <3>3. In(v.described[i], d) => In(v.described[i], u.described) \/ In(v.described[i], own)
      <4> HIDE DEF own, v
      <4> QED BY <1>4, InConcat
    <3> QED BY <3>2, <3>3
  <2>2. ASSUME In(v.described[i], u.described)
        PROVE  v.described[i] \in r.seen \ S /\ Kind[v.described[i]] # "vector"
    <3>1. PICK j \in 1..Len(u.described) : u.described[j] = v.described[i]
      BY <2>2 DEF In
    <3>2. u.described[j] \in u.seen \ (S \cup {t}) /\ Kind[u.described[j]] # "vector"
      BY <1>2 DEF Good, Describes
    <3> QED BY <1>6, <3>1, <3>2
  <2>3. ASSUME In(v.described[i], own)
        PROVE  v.described[i] \in r.seen \ S /\ Kind[v.described[i]] # "vector"
    <3>1. v.described[i] = t /\ Kind[t] # "vector"
      BY <2>3 DEF In, Own
    <3> QED BY <1>6, <3>1
  <2>4. ASSUME In(v.described[i], r.described)
        PROVE  v.described[i] \in r.seen \ S /\ Kind[v.described[i]] # "vector"
    <3>1. PICK j \in 1..Len(r.described) : r.described[j] = v.described[i]
      BY <2>4 DEF In
    <3>2. r.described[j] \in r.seen \ u.seen /\ Kind[r.described[j]] # "vector"
      BY <1>2 DEF Good, Describes
    <3> QED BY <1>6, <3>1, <3>2
  <2> QED BY <2>1, <2>2, <2>3, <2>4
<1>18. Describes(c, v)
  BY <1>3, <1>13, <1>16, <1>17 DEF Describes
<1> QED BY <1>5, <1>7, <1>8, <1>10, <1>18 DEF Good

(* So is every visit, by its weight.                                       *)
LEMMA VisitedIsGood ==
    ASSUME NEW rank, Ranks(rank), NEW c \in Tour
    PROVE  Good(rank, c, Visited[c])
<1>1. PICK n : Longest(n)
  BY SomeAreLongest
<1> DEFINE Bad == {d \in Tour : ~Good(rank, d, Visited[d])}
           W == {Weight(n, d) : d \in Bad}
<1>2. SUFFICES ASSUME W # {} PROVE FALSE
  OBVIOUS
<1>3. W \in SUBSET Nat
  BY <1>1, WeightIsNatural
<1>4. PICK m \in W : \A w \in W : m <= w
  <2> HIDE DEF W
  <2> QED BY <1>2, <1>3, LeastNatural
<1>5. PICK d \in Bad : Weight(n, d) = m
  OBVIOUS
<1>6. ASSUME NEW e \in Tour, Weight(n, e) < Weight(n, d)
      PROVE  Good(rank, e, Visited[e])
  <2>1. Weight(n, e) \in Nat /\ Weight(n, d) \in Nat
    BY <1>1, WeightIsNatural
  <2>2. ~(m <= Weight(n, e))
    BY <1>5, <1>6, <2>1
  <2> QED BY <1>4, <2>2
<1>7. d \in Tour /\ Visited[d] = Step(Visited, d)
  BY VisitedSteps
<1>8. CASE d.left = <<>>
  <2>1. Visited[d] = [seen |-> d.seen, described |-> <<>>]
    BY <1>7, <1>8 DEF Step
  <2> QED BY <1>7, <1>8, <2>1, GoodNothing
<1>9. CASE d.left # <<>> /\ Head(d.left) \in d.seen
  <2>1. Visited[d] = Visited[Following(d.seen, d)]
    BY <1>7, <1>9 DEF Step
  <2>2. Following(d.seen, d) \in Tour /\ Weight(n, Following(d.seen, d)) < Weight(n, d)
    BY <1>1, <1>7, <1>9, FollowingIsLighter DEF Tour
  <2>3. Good(rank, Following(d.seen, d), Visited[Following(d.seen, d)])
    BY <1>6, <2>2
  <2>4. Good(rank, d, Visited[Following(d.seen, d)])
    BY <1>7, <1>9, <2>3, GoodAgain
  <2> QED BY <2>1, <2>4
<1>10. CASE d.left # <<>> /\ Head(d.left) \notin d.seen
  <2> DEFINE u == Visited[Inner(d)]
             f == Following(u.seen, d)
  <2>1. Visited[d] = Both(u, Head(d.left), Visited[f])
    BY <1>7, <1>10 DEF Step
  <2>2. Inner(d) \in Tour /\ Weight(n, Inner(d)) < Weight(n, d)
    BY <1>1, <1>7, <1>10, InnerIsLighter
  <2>3. Good(rank, Inner(d), u)
    BY <1>6, <2>2
  <2>4. u.seen \in SUBSET Type /\ d.seen \subseteq u.seen
    BY <2>3 DEF Good, Sees, Result, Inner, Emplaced
  <2>5. f \in Tour /\ Weight(n, f) < Weight(n, d)
    BY <1>1, <1>7, <1>10, <2>4, FollowingIsLighter
  <2>6. Good(rank, f, Visited[f])
    BY <1>6, <2>5
  <2>7. Good(rank, d, Both(u, Head(d.left), Visited[f]))
    BY <1>7, <1>10, <2>3, <2>6, GoodVisit
  <2> QED BY <2>1, <2>7
<1> QED BY <1>8, <1>9, <1>10
(* A visit of a single type.                                               *)
LEMMA Visits ==
    ASSUME NEW s \in SUBSET Type, NEW t \in Type
    PROVE  /\ Visit(s, t) \in Result /\ s \subseteq Visit(s, t).seen /\ t \in Visit(s, t).seen
           /\ \A x \in Visit(s, t).seen \ s :
                  /\ UsesOf(x) \subseteq Visit(s, t).seen
                  /\ Element(x) \in s \/ In(Element(x), Visit(s, t).described)
           /\ \A k \in SUBSET Type : Closed(k) /\ t \in k => Visit(s, t).seen \subseteq s \cup k
           /\ \A i \in 1..Len(Visit(s, t).described) :
                  /\ Visit(s, t).described[i] \in Visit(s, t).seen \ s
                  /\ Kind[Visit(s, t).described[i]] # "vector"
           /\ Prepared(Visit(s, t).described, s)
<1> DEFINE c == [seen |-> s, left |-> <<t>>]
<1>1. c \in Tour /\ c.seen = s /\ c.left = <<t>>
  BY DEF Tour
<1>2. Range(<<t>>) = {t}
  BY DEF Range
<1>3. \E rank : Ranks(rank)
  <2>1. PICK rank \in [Type -> 0..Cardinality(Type)] :
            \A x \in Type : \A u \in UsesOf(x) : rank[u] < rank[x]
    BY TypeExchangeAssumption DEF Acyclic
  <2>2. \A x \in Type : rank[x] \in Nat
    OBVIOUS
  <2>3. rank \in [Type -> Nat]
    BY <2>2
  <2> QED BY <2>1, <2>3 DEF Ranks
<1>4. PICK rank : Ranks(rank)
  BY <1>3
<1>5. Good(rank, c, Visited[c])
  <2> HIDE DEF c
  <2> QED BY <1>1, <1>4, VisitedIsGood
<1>6. Visited[c] = Visit(s, t)
  BY DEF Visit
<1> HIDE DEF c
<1> QED BY <1>1, <1>2, <1>5, <1>6 DEF Good, Sees, Confined, Describes

-----------------------------------------------------------------------------
(* The invariant of a channel's end: whatever it has transmitted needs     *)
(* only types that its peer knows or is told of before (Fit); its peer     *)
(* knows what counts as shared, or will (Backed); and the program at the   *)
(* end knows what it has described or asked to join itself (Vouches).      *)
(* ks is what that program knows and k what the peer's knows.              *)
Needs(m) == CASE m.kind = "descriptor" -> {Element(u) : u \in UsesOf(m.type)}
              [] m.kind = "instance"   -> {m.type}
              [] OTHER                 -> {}
Vouched(m) == CASE m.kind = "descriptor" -> {m.type}
                [] m.kind = "join"       -> {m.group} \cap Type
                [] OTHER                 -> {}

Fit(k, q) == \A i \in 1..Len(q) : \A u \in Needs(q[i]) :
                 u \in k \/ \E j \in 1..(i - 1) : q[j] = Descriptor(u)
Backed(k, q, s) == \A t \in s : Element(t) \in k \/ In(Descriptor(Element(t)), q)
Vouches(ks, q) == \A i \in 1..Len(q) : Vouched(q[i]) \subseteq ks

Line(ks, k, q, s) ==
    /\ q \in Seq(Message) /\ s \in SUBSET Type
    /\ Fit(k, q) /\ Backed(k, q, s) /\ Vouches(ks, q)

LEMMA Messages ==
    ASSUME NEW m \in Message
    PROVE  /\ m.kind \in {"descriptor", "instance", "join", "leave", "request", "cacheInfo"}
           /\ m.kind = "descriptor" => /\ m = Descriptor(m.type) /\ m.type \in Type
                                       /\ Kind[m.type] \in DescriptorGroup
           /\ m.kind = "instance" => m.type \in Struct
           /\ m.kind = "join" => m.group \in Type \cup DescriptorGroup
           /\ m.kind = "leave" => m.group \in Type \cup DescriptorGroup
<1>1. CASE \E t \in Type : m = Descriptor(t) /\ Kind[t] # "vector"
  BY <1>1, TypeExchangeAssumption DEF Descriptor, DescriptorGroup
<1>2. CASE \E t \in Struct : m = Instance(t)
  BY <1>2 DEF Instance
<1>3. CASE \E x \in Type \cup DescriptorGroup : m = Join(x)
  BY <1>3 DEF Join
<1>4. CASE \E x \in Type \cup DescriptorGroup : m = Leave(x)
  BY <1>4 DEF Leave
<1>5. CASE \E w \in WhiteLists : m = Request(w)
  BY <1>5 DEF Request
<1>6. CASE m = CacheInfo
  BY <1>6 DEF CacheInfo
<1> QED BY <1>1, <1>2, <1>3, <1>4, <1>5, <1>6 DEF Message

LEMMA Described ==
    ASSUME NEW t \in Type
    PROVE  /\ Needs(Descriptor(t)) = {Element(u) : u \in UsesOf(t)}
           /\ Vouched(Descriptor(t)) = {t}
           /\ Descriptor(t).kind = "descriptor" /\ Descriptor(t).type = t
           /\ Kind[t] # "vector" => Descriptor(t) \in Message
BY DEF Needs, Vouched, Descriptor, Message

LEMMA FitConcat ==
    ASSUME NEW k, NEW q \in Seq(Message), NEW p \in Seq(Message), Fit(k, q),
           \A i \in 1..Len(p) : \A u \in Needs(p[i]) :
               \/ u \in k \/ In(Descriptor(u), q)
               \/ \E j \in 1..(i - 1) : p[j] = Descriptor(u)
    PROVE  Fit(k, q \o p)
<1> SUFFICES ASSUME NEW i \in 1..Len(q \o p), NEW u \in Needs((q \o p)[i]), u \notin k
             PROVE  \E j \in 1..(i - 1) : (q \o p)[j] = Descriptor(u)
  BY DEF Fit
<1>0. Len(q) \in Nat /\ Len(p) \in Nat
  BY LenProperties
<1>1. CASE i \in 1..Len(q)
  <2>1. (q \o p)[i] = q[i]
    BY <1>1, Concats
  <2>2. PICK j \in 1..(i - 1) : q[j] = Descriptor(u)
    BY <1>1, <2>1 DEF Fit
  <2>3. j \in 1..Len(q)
    BY <1>0, <1>1
  <2>4. (q \o p)[j] = q[j]
    BY <2>3, Concats
  <2> QED BY <2>2, <2>4
<1>2. CASE \E n \in 1..Len(p) : i = Len(q) + n
  <2>1. PICK n \in 1..Len(p) : i = Len(q) + n
    BY <1>2
  <2>2. (q \o p)[i] = p[n]
    <3>1. \A j \in 1..Len(p) : (q \o p)[Len(q) + j] = p[j]
      BY Concats
    <3> QED BY <2>1, <3>1
  <2>3. In(Descriptor(u), q) \/ \E j \in 1..(n - 1) : p[j] = Descriptor(u)
    BY <2>2
  <2>4. CASE In(Descriptor(u), q)
    <3>1. PICK j \in 1..Len(q) : q[j] = Descriptor(u)
      BY <2>4 DEF In
    <3>2. (q \o p)[j] = q[j]
      BY Concats
    <3>3. j \in 1..(i - 1)
      BY <1>0, <2>1
    <3> QED BY <3>1, <3>2, <3>3
  <2>5. CASE \E j \in 1..(n - 1) : p[j] = Descriptor(u)
    <3>1. PICK j \in 1..(n - 1) : p[j] = Descriptor(u)
      BY <2>5
    <3>2. j \in 1..Len(p)
      BY <1>0
    <3>3. (q \o p)[Len(q) + j] = p[j]
      BY <3>2, Concats
    <3>4. Len(q) + j \in 1..(i - 1)
      BY <1>0, <2>1
    <3> QED BY <3>1, <3>3, <3>4
  <2> QED BY <2>3, <2>4, <2>5
<1>3. i \in 1..Len(q) \/ \E n \in 1..Len(p) : i = Len(q) + n
  BY Concats
<1> QED BY <1>1, <1>2, <1>3

LEMMA VouchesConcat ==
    ASSUME NEW ks, NEW q \in Seq(Message), NEW p \in Seq(Message), Vouches(ks, q), Vouches(ks, p)
    PROVE  Vouches(ks, q \o p)
<1> SUFFICES ASSUME NEW i \in 1..Len(q \o p)
             PROVE  Vouched((q \o p)[i]) \subseteq ks
  BY DEF Vouches
<1>1. In((q \o p)[i], q) \/ In((q \o p)[i], p)
  <2>1. In((q \o p)[i], q \o p)
    BY DEF In
  <2> QED BY <2>1, InConcat
<1> QED BY <1>1 DEF In, Vouches

LEMMA LineSends ==
    ASSUME NEW ks, NEW k, NEW q, NEW s, Line(ks, k, q, s),
           NEW m \in Message, Vouched(m) \subseteq ks,
           \A u \in Needs(m) : u \in k \/ In(Descriptor(u), q)
    PROVE  Line(ks, k, Append(q, m), s)
<1>1. q \in Seq(Message) /\ <<m>> \in Seq(Message) /\ Append(q, m) = q \o <<m>>
  BY AppendIsConcat DEF Line
<1>2. Append(q, m) \in Seq(Message)
  BY <1>1, AppendProperties
<1>3. Fit(k, q \o <<m>>)
  <2>1. \A i \in 1..Len(<<m>>) : <<m>>[i] = m
    OBVIOUS
  <2> QED BY <1>1, <2>1, FitConcat DEF Line
<1>4. Vouches(ks, q \o <<m>>)
  <2>1. Vouches(ks, <<m>>)
    BY DEF Vouches
  <2> QED BY <1>1, <2>1, VouchesConcat DEF Line
<1>5. Backed(k, q \o <<m>>, s)
  BY <1>1, InConcat DEF Line, Backed
<1> QED BY <1>1, <1>2, <1>3, <1>4, <1>5 DEF Line

LEMMA LineExports ==
    ASSUME NEW ks \in SUBSET Type, Closed(ks), NEW k, NEW q, NEW s, Line(ks, k, q, s),
           NEW t \in ks
    PROVE  /\ Descriptors(Visit(s, t).described) \in Seq(Message)
           /\ Line(ks, k, q \o Descriptors(Visit(s, t).described), Visit(s, t).seen)
           /\ Kind[t] # "vector" =>
                  t \in k \/ In(Descriptor(t), q \o Descriptors(Visit(s, t).described))
<1> DEFINE v == Visit(s, t)
           d == v.described
           p == Descriptors(d)
<1>1. /\ s \in SUBSET Type /\ q \in Seq(Message) /\ t \in Type
  BY DEF Line
<1>2. /\ v.seen \in SUBSET Type /\ d \in Seq(Type) /\ s \subseteq v.seen /\ t \in v.seen
      /\ \A x \in v.seen \ s : Element(x) \in s \/ In(Element(x), d)
      /\ v.seen \subseteq s \cup ks
      /\ \A i \in 1..Len(d) : d[i] \in v.seen \ s /\ Kind[d[i]] # "vector"
      /\ Prepared(d, s)
  BY <1>1, Visits DEF Result
<1> HIDE DEF v
<1>3. Len(d) \in Nat /\ d \in [1..Len(d) -> Type] /\ DOMAIN d = 1..Len(d)
  BY <1>2, LenProperties
<1>4. /\ p = [i \in 1..Len(d) |-> Descriptor(d[i])]
      /\ p \in Seq(Message) /\ Len(p) = Len(d) /\ \A i \in 1..Len(d) : p[i] = Descriptor(d[i])
  <2>1. p = [i \in 1..Len(d) |-> Descriptor(d[i])]
    BY <1>3 DEF Descriptors
  <2>2. \A i \in 1..Len(d) : Descriptor(d[i]) \in Message
    BY <1>2, <1>3, Described
  <2>3. p \in [1..Len(d) -> Message]
    BY <2>1, <2>2
  <2>4. p \in Seq(Message)
    BY <1>3, <2>3
  <2>5. Len(p) = Len(d)
    BY <1>3, <2>1
  <2> QED BY <2>1, <2>4, <2>5
<1> HIDE DEF p
<1>5. \A x \in Type : In(x, d) => In(Descriptor(x), p)
  BY <1>4 DEF In
<1>6. ASSUME NEW x \in Type, x \in s
      PROVE  Element(x) \in k \/ In(Descriptor(Element(x)), q)
  BY <1>6 DEF Line, Backed
<1>7. Fit(k, q \o p)
  <2>1. ASSUME NEW i \in 1..Len(p), NEW y \in Needs(p[i])
        PROVE  \/ y \in k \/ In(Descriptor(y), q)
               \/ \E j \in 1..(i - 1) : p[j] = Descriptor(y)
    <3>1. i \in 1..Len(d) /\ d[i] \in Type /\ p[i] = Descriptor(d[i])
      BY <1>3, <1>4
    <3>2. PICK x \in UsesOf(d[i]) : y = Element(x)
      BY <3>1, Described
    <3>3. x \in Type /\ Element(x) \in Type /\ Element(Element(x)) = Element(x)
      BY <3>1, <3>2, Types, Elements
    <3>4. x \in s \/ Element(x) \in s \/ \E j \in 1..(i - 1) : d[j] = Element(x)
      BY <1>2, <3>1 DEF Prepared
    <3>5. CASE \E j \in 1..(i - 1) : d[j] = Element(x)
      <4>1. PICK j \in 1..(i - 1) : d[j] = Element(x)
        BY <3>5
      <4>2. j \in 1..Len(d)
        BY <1>3, <3>1
      <4> QED BY <1>4, <3>2, <4>1, <4>2
    <3> QED BY <1>6, <3>2, <3>3, <3>4, <3>5
  <2> QED BY <1>1, <1>4, <2>1, FitConcat DEF Line
<1>8. Vouches(ks, q \o p)
  <2>1. ASSUME NEW i \in 1..Len(p) PROVE Vouched(p[i]) \subseteq ks
    BY <1>2, <1>3, <1>4, Described
  <2>2. Vouches(ks, p)
    BY <2>1 DEF Vouches
  <2> QED BY <1>1, <1>4, <2>2, VouchesConcat DEF Line
<1>9. \A x \in Message : In(x, q) \/ In(x, p) => In(x, q \o p)
  BY <1>1, <1>4, InConcat
<1>10. ASSUME NEW x \in v.seen
       PROVE  Element(x) \in k \/ In(Descriptor(Element(x)), q \o p)
  <2>1. /\ x \in Type /\ Element(x) \in Type /\ Element(Element(x)) = Element(x)
        /\ Descriptor(Element(x)) \in Message
    BY <1>2, Elements, Described
  <2>2. CASE x \in s
    BY <1>6, <1>9, <2>1, <2>2
  <2>3. CASE x \notin s
    <3>1. Element(x) \in s \/ In(Element(x), d)
      BY <1>2, <2>3
    <3> QED BY <1>5, <1>6, <1>9, <2>1, <3>1
  <2> QED BY <2>2, <2>3
<1>11. Line(ks, k, q \o p, v.seen)
  <2>1. q \o p \in Seq(Message)
    BY <1>1, <1>4, ConcatProperties
  <2> QED BY <1>2, <1>7, <1>8, <1>10, <2>1 DEF Line, Backed
<1>12. Kind[t] # "vector" => t \in k \/ In(Descriptor(t), q \o p)
  BY <1>2, <1>10 DEF Element
<1> QED BY <1>4, <1>11, <1>12 DEF p, v
(* The programs at both ends only ever get to know more.                   *)
LEMMA LineGrows ==
    ASSUME NEW ks, NEW k, NEW ls, NEW l, ks \subseteq ls, k \subseteq l,
           NEW q, NEW s, Line(ks, k, q, s)
    PROVE  Line(ls, l, q, s)
<1>1. Fit(l, q)
  BY DEF Line, Fit
<1>2. Backed(l, q, s) /\ Vouches(ls, q)
  BY DEF Line, Backed, Vouches
<1> QED BY <1>1, <1>2 DEF Line

(* What is received is shared by the receiver too.                         *)
LEMMA LineShares ==
    ASSUME NEW ks, NEW k, NEW q, NEW s, Line(ks, k, q, s),
           NEW t \in Type, Kind[t] # "vector", t \in k
    PROVE  Line(ks, k, q, s \cup {t})
BY DEF Line, Backed, Element

LEMMA LineReceives ==
    ASSUME NEW ks, NEW k, NEW q, NEW s, Line(ks, k, q, s), q # <<>>
    PROVE  /\ Head(q) \in Message /\ Needs(Head(q)) \subseteq k /\ Vouched(Head(q)) \subseteq ks
           /\ Tail(q) \in Seq(Message)
           /\ \A l : k \subseteq l /\ (Head(q).kind = "descriptor" => Head(q).type \in l) =>
                  Line(ks, l, Tail(q), s)
<1>1. /\ q \in Seq(Message) /\ Len(q) \in Nat \ {0} /\ Head(q) = q[1] /\ Head(q) \in Message
      /\ Tail(q) \in Seq(Message) /\ Len(Tail(q)) = Len(q) - 1
      /\ \A i \in 1..(Len(q) - 1) : Tail(q)[i] = q[i + 1]
  BY HeadTailProperties, EmptySeq DEF Line
<1>2. 1 \in 1..Len(q) /\ 1..(1 - 1) = {}
  BY <1>1
<1>3. Needs(Head(q)) \subseteq k
  BY <1>1, <1>2 DEF Line, Fit
<1>4. Vouched(Head(q)) \subseteq ks
  BY <1>1, <1>2 DEF Line, Vouches
<1>5. ASSUME NEW l, k \subseteq l, Head(q).kind = "descriptor" => Head(q).type \in l
      PROVE  Line(ks, l, Tail(q), s)
  <2>1. ASSUME NEW t, Descriptor(t) = q[1] PROVE t \in l
    BY <1>1, <1>5, <2>1 DEF Descriptor
  <2>2. ASSUME NEW i \in 1..(Len(q) - 1) PROVE i + 1 \in 1..Len(q) /\ Tail(q)[i] = q[i + 1]
    BY <1>1
  <2>3. Fit(l, Tail(q))
    <3> SUFFICES ASSUME NEW i \in 1..(Len(q) - 1), NEW u \in Needs(Tail(q)[i]), u \notin l
                 PROVE  \E j \in 1..(i - 1) : Tail(q)[j] = Descriptor(u)
      BY <1>1 DEF Fit
    <3>1. PICK j \in 1..((i + 1) - 1) : q[j] = Descriptor(u)
      BY <1>5, <2>2 DEF Line, Fit
    <3>2. j # 1
      BY <2>1, <3>1
    <3>3. j - 1 \in 1..(i - 1) /\ j - 1 \in 1..(Len(q) - 1) /\ (j - 1) + 1 = j
      BY <1>1, <3>2
    <3>4. Tail(q)[j - 1] = q[j]
      BY <1>1, <3>3
    <3> QED BY <3>1, <3>3, <3>4
  <2>4. Backed(l, Tail(q), s)
    <3> SUFFICES ASSUME NEW t \in s, Element(t) \notin l
                 PROVE  In(Descriptor(Element(t)), Tail(q))
      BY DEF Backed
    <3>1. PICK i \in 1..Len(q) : q[i] = Descriptor(Element(t))
      BY <1>5 DEF Line, Backed, In
    <3>2. i # 1
      BY <2>1, <3>1
    <3>3. i - 1 \in 1..(Len(q) - 1) /\ (i - 1) + 1 = i
      BY <1>1, <3>2
    <3>4. Tail(q)[i - 1] = q[i]
      BY <1>1, <3>3
    <3> QED BY <1>1, <3>1, <3>3, <3>4 DEF In
  <2>5. Vouches(ks, Tail(q))
    BY <1>1, <2>2 DEF Line, Vouches
  <2> QED BY <1>1, <2>3, <2>4, <2>5 DEF Line
<1> QED BY <1>1, <1>3, <1>4, <1>5

(* A channel's state while it transmits, after q.                          *)
ChannelState == [shared : SUBSET Type, sent : Seq(Message)]
Way(ks, k, q) == {s \in ChannelState : Line(ks, k, q \o s.sent, s.shared)}

LEMMA WayBegins ==
    ASSUME NEW ks, NEW k, NEW q, NEW s, Line(ks, k, q, s)
    PROVE  [shared |-> s, sent |-> <<>>] \in Way(ks, k, q)
<1>1. q \in Seq(Message) /\ s \in SUBSET Type /\ <<>> \in Seq(Message)
  BY DEF Line
<1>2. q \o <<>> = q
  BY <1>1, ConcatEmptySeq
<1> QED BY <1>1, <1>2 DEF Way, ChannelState

LEMMA Associates ==
    ASSUME NEW a \in Seq(Message), NEW b \in Seq(Message), NEW c \in Seq(Message)
    PROVE  (a \o b) \o c = a \o (b \o c)
BY ConcatAssociative

LEMMA WaySends ==
    ASSUME NEW ks, NEW k, NEW q \in Seq(Message), NEW s \in Way(ks, k, q),
           NEW m \in Message, Vouched(m) \subseteq ks,
           \A u \in Needs(m) : u \in k \/ In(Descriptor(u), q \o s.sent)
    PROVE  Send(s, m) \in Way(ks, k, q)
<1>1. s \in ChannelState /\ s.sent \in Seq(Message) /\ s.shared \in SUBSET Type
  BY DEF Way, ChannelState
<1>2. Send(s, m).sent = Append(s.sent, m) /\ Send(s, m).shared = s.shared
  BY <1>1 DEF Send, ChannelState
<1>3. Append(s.sent, m) \in Seq(Message)
  BY <1>1, AppendProperties
<1>4. Send(s, m) \in ChannelState
  BY <1>1, <1>3 DEF Send, ChannelState
<1>5. q \o Append(s.sent, m) = Append(q \o s.sent, m)
  <2>1. /\ <<m>> \in Seq(Message) /\ q \o s.sent \in Seq(Message)
        /\ Append(s.sent, m) = s.sent \o <<m>>
    BY <1>1, AppendIsConcat, ConcatProperties
  <2>2. Append(q \o s.sent, m) = (q \o s.sent) \o <<m>>
    BY <2>1, AppendIsConcat
  <2>3. (q \o s.sent) \o <<m>> = q \o (s.sent \o <<m>>)
    BY <1>1, <2>1, Associates
  <2> QED BY <2>1, <2>2, <2>3
<1>6. Line(ks, k, q \o s.sent, s.shared)
  BY DEF Way
<1>7. Line(ks, k, Append(q \o s.sent, m), s.shared)
  BY <1>6, LineSends
<1> QED BY <1>2, <1>4, <1>5, <1>7 DEF Way

LEMMA WayExports ==
    ASSUME NEW ks \in SUBSET Type, Closed(ks), NEW k,
           NEW q \in Seq(Message), NEW s \in Way(ks, k, q), NEW t \in ks
    PROVE  /\ Export(s, t) \in Way(ks, k, q)
           /\ Kind[t] # "vector" => t \in k \/ In(Descriptor(t), q \o Export(s, t).sent)
<1> DEFINE p == Descriptors(Visit(s.shared, t).described)
           r == Visit(s.shared, t).seen
<1>1. s.sent \in Seq(Message) /\ s.shared \in SUBSET Type /\ t \in Type
  BY DEF Way, ChannelState
<1>2. Line(ks, k, q \o s.sent, s.shared)
  BY DEF Way
<1>3. /\ p \in Seq(Message) /\ Line(ks, k, (q \o s.sent) \o p, r)
      /\ Kind[t] # "vector" => t \in k \/ In(Descriptor(t), (q \o s.sent) \o p)
  BY <1>2, LineExports
<1>4. Export(s, t).shared = r /\ Export(s, t).sent = s.sent \o p
  BY DEF Export
<1>5. Export(s, t) \in ChannelState
  <2>1. s.sent \o p \in Seq(Message) /\ r \in SUBSET Type
    BY <1>1, <1>3, ConcatProperties DEF Line
  <2> QED BY <2>1 DEF Export, ChannelState
<1>6. (q \o s.sent) \o p = q \o (s.sent \o p)
  <2> HIDE DEF p
  <2> QED BY <1>1, <1>3, Associates
<1> QED BY <1>3, <1>4, <1>5, <1>6 DEF Way

(* One step after the other, each from and to a state of C.                *)
LEMMA StepsInTurn ==
    ASSUME NEW C, NEW a \in C, NEW K \in Nat, NEW F \in [1..K -> [C -> C]]
    PROVE  \E h \in [0..K -> C] : h[0] = a /\ \A i \in 1..K : h[i] = F[i][h[i - 1]]
<1> DEFINE Through(k, h) == h \in [0..k -> C] /\ h[0] = a /\ \A i \in 1..k : h[i] = F[i][h[i - 1]]
           S == {k \in 0..K : \E h : Through(k, h)}
<1>1. 0 \in S
  <2>1. Through(0, [i \in 0..0 |-> a])
    OBVIOUS
  <2> HIDE DEF Through
  <2> QED BY <2>1
<1>2. ASSUME NEW k \in 1..K, k - 1 \in S PROVE k \in S
  <2>1. PICK h : Through(k - 1, h)
    BY <1>2
  <2> DEFINE g == [i \in 0..k |-> IF i = k THEN F[k][h[k - 1]] ELSE h[i]]
  <2>2. k - 1 \in 0..(k - 1) /\ h[k - 1] \in C
    BY <2>1
  <2>3. F[k][h[k - 1]] \in C
    BY <2>2
  <2>4. ASSUME NEW i \in 0..k PROVE g[i] \in C
    <3>1. i = k \/ i \in 0..(k - 1)
      OBVIOUS
    <3> QED BY <2>1, <2>3, <3>1
  <2>5. g \in [0..k -> C]
    BY <2>4
  <2>6. g[0] = a
    BY <2>1
  <2>7. ASSUME NEW i \in 1..k PROVE g[i] = F[i][g[i - 1]]
    <3>1. i - 1 \in 0..(k - 1) /\ i - 1 # k /\ i - 1 \in 0..k /\ (i = k \/ i \in 1..(k - 1))
      OBVIOUS
    <3>2. g[i - 1] = h[i - 1]
      BY <3>1
    <3>3. CASE i = k
      BY <3>2, <3>3
    <3>4. CASE i \in 1..(k - 1)
      <4>1. g[i] = h[i] /\ h[i] = F[i][h[i - 1]]
        BY <2>1, <3>4
      <4> QED BY <3>2, <4>1
    <3> QED BY <3>1, <3>3, <3>4
  <2>8. Through(k, g)
    <3> HIDE DEF g
    <3> QED BY <2>5, <2>6, <2>7
  <2> HIDE DEF Through
  <2> QED BY <2>8
<1>3. K \in S
  <2> HIDE DEF S
  <2>1. \A k \in 0..K : k \in S
    BY <1>1, <1>2, Upto
  <2> QED BY <2>1
<1> QED BY <1>3

(* The same, of transitions that a definition hides.                       *)
Transitions(C, K, F) == F \in [1..K -> [C -> C]]
Goes(C, a, K, F, h) == /\ h \in [0..K -> C]
                       /\ h[0] = a
                       /\ \A i \in 1..K : h[i] = F[i][h[i - 1]]

LEMMA GoesThrough ==
    ASSUME NEW C, NEW a \in C, NEW K \in Nat, NEW F, Transitions(C, K, F)
    PROVE  \E h : Goes(C, a, K, F, h)
<1>1. F \in [1..K -> [C -> C]]
  BY DEF Transitions
<1>2. \E h \in [0..K -> C] : h[0] = a /\ \A i \in 1..K : h[i] = F[i][h[i - 1]]
  BY <1>1, StepsInTurn
<1> QED BY <1>2 DEF Goes

(* A type that the peer knows, or is told of, may be described again.      *)
LEMMA MayRepeat ==
    ASSUME NEW ks, NEW k, Closed(k), NEW q, NEW s, Line(ks, k, q, s),
           NEW t \in Type, t \in k \/ In(Descriptor(t), q),
           NEW u \in Needs(Descriptor(t))
    PROVE  u \in k \/ In(Descriptor(u), q)
<1>1. PICK x \in UsesOf(t) : u = Element(x)
  BY Described
<1>2. x \in Type /\ (Kind[x] = "vector" => UsesOf(x) = {u})
  BY <1>1, Types, Elements
<1>3. CASE t \in k
  <2>1. x \in k
    BY <1>1, <1>3 DEF Closed
  <2> QED BY <1>1, <1>2, <2>1 DEF Closed, Element
<1>4. CASE In(Descriptor(t), q)
  <2>1. PICK i \in 1..Len(q) : q[i] = Descriptor(t)
    BY <1>4 DEF In
  <2>2. u \in k \/ \E j \in 1..(i - 1) : q[j] = Descriptor(u)
    BY <2>1 DEF Line, Fit
  <2>3. Len(q) \in Nat
    BY LenProperties DEF Line
  <2>4. \A j \in 1..(i - 1) : j \in 1..Len(q)
    BY <2>3
  <2> QED BY <2>2, <2>4 DEF In
<1> QED BY <1>3, <1>4

LEMMA WayForwards ==
    ASSUME NEW ks \in SUBSET Type, Closed(ks), NEW k, Closed(k), NEW q, NEW s, Line(ks, k, q, s),
           NEW m \in Message, m.kind \in {"descriptor", "instance"},
           m.kind = "descriptor" => m.type \in ks,
           m.kind = "instance" => m.type \in k
    PROVE  Forward([shared |-> s, sent |-> <<>>], m) \in Way(ks, k, q)
<1> DEFINE b == [shared |-> s, sent |-> <<>>]
<1>1. b \in Way(ks, k, q) /\ q \in Seq(Message)
  BY WayBegins DEF Line
<1> HIDE DEF b
<1>2. CASE m.kind = "instance"
  <2>1. Vouched(m) = {} /\ Needs(m) = {m.type}
    BY <1>2 DEF Vouched, Needs
  <2>2. Send(b, m) \in Way(ks, k, q)
    BY <1>1, <1>2, <2>1, WaySends
  <2> QED BY <1>2, <2>2 DEF Forward, b
<1>3. CASE m.kind = "descriptor"
  <2> DEFINE r == Export(b, m.type)
  <2>1. /\ m = Descriptor(m.type) /\ m.type \in Type /\ Kind[m.type] # "vector" /\ m.type \in ks
        /\ Vouched(m) = {m.type}
    BY <1>3, Messages DEF DescriptorGroup, Vouched
  <2>2. r \in Way(ks, k, q) /\ (m.type \in k \/ In(Descriptor(m.type), q \o r.sent))
    BY <1>1, <2>1, WayExports
  <2>3. Line(ks, k, q \o r.sent, r.shared)
    BY <2>2 DEF Way
  <2> HIDE DEF r
  <2>4. \A u \in Needs(m) : u \in k \/ In(Descriptor(u), q \o r.sent)
    BY <2>1, <2>2, <2>3, MayRepeat
  <2>5. Send(r, m) \in Way(ks, k, q)
    BY <1>1, <2>1, <2>2, <2>4, WaySends
  <2> QED BY <1>3, <2>5 DEF Forward, r, b
<1> QED BY <1>2, <1>3

LEMMA WayInstance ==
    ASSUME NEW ks \in SUBSET Type, Closed(ks), NEW k,
           NEW q \in Seq(Message), NEW s \in Way(ks, k, q), NEW t \in ks, t \in Struct
    PROVE  TransmitInstance(s, t) \in Way(ks, k, q)
<1>1. Kind[t] # "vector" /\ Instance(t) \in Message
  BY DEF Struct, Message
<1>2. Vouched(Instance(t)) = {} /\ Needs(Instance(t)) = {t}
  BY DEF Vouched, Needs, Instance
<1>3. Export(s, t) \in Way(ks, k, q) /\ (t \in k \/ In(Descriptor(t), q \o Export(s, t).sent))
  BY <1>1, WayExports
<1>4. Send(Export(s, t), Instance(t)) \in Way(ks, k, q)
  BY <1>1, <1>2, <1>3, WaySends
<1> QED BY <1>4 DEF TransmitInstance

LEMMA WayInternal ==
    ASSUME NEW ks, NEW k, NEW q \in Seq(Message), NEW s \in Way(ks, k, q),
           NEW m \in Message, m.kind \in {"join", "leave", "request", "cacheInfo"},
           m.kind = "join" => m.group \in ks \/ m.group \notin Type
    PROVE  TransmitInternal(s, m) \in Way(ks, k, q)
<1>1. Needs(m) = {} /\ Vouched(m) \subseteq ks
  BY DEF Needs, Vouched
<1>2. Send(s, m) \in Way(ks, k, q)
  BY <1>1, WaySends
<1> QED BY <1>2 DEF TransmitInternal

LEMMA Internals ==
    /\ \A x \in Type \cup DescriptorGroup :
           /\ Join(x) \in Message /\ Join(x).kind = "join" /\ Join(x).group = x
           /\ Leave(x) \in Message /\ Leave(x).kind = "leave"
    /\ \A w \in WhiteLists : Request(w) \in Message /\ Request(w).kind = "request"
    /\ CacheInfo \in Message /\ CacheInfo.kind = "cacheInfo"
BY DEF Message, Join, Leave, Request, CacheInfo

-----------------------------------------------------------------------------
(* What programs know *)

LEMMA RegisteredIsClosed ==
    ASSUME NEW k \in SUBSET Type, Closed(k), NEW t \in Type
    PROVE  /\ Registered(k, t) \in SUBSET Type /\ Closed(Registered(k, t))
           /\ k \subseteq Registered(k, t) /\ t \in Registered(k, t)
<1>1. /\ Visit(k, t).seen \in SUBSET Type /\ k \subseteq Visit(k, t).seen /\ t \in Visit(k, t).seen
      /\ \A x \in Visit(k, t).seen \ k : UsesOf(x) \subseteq Visit(k, t).seen
  BY Visits DEF Result
<1> QED BY <1>1 DEF Registered, Closed

(* A descriptor is converted if the types it needs are known.              *)
LEMMA ConvertSucceeds ==
    ASSUME NEW k \in SUBSET Type, Closed(k), NEW t \in Type, Kind[t] \in DescriptorGroup,
           \A u \in UsesOf(t) : Element(u) \in k
    PROVE  /\ Convert(k, t).ok
           /\ Convert(k, t).known \in SUBSET Type /\ Closed(Convert(k, t).known)
           /\ k \subseteq Convert(k, t).known /\ t \in Convert(k, t).known
<1> DEFINE c == [ok |-> TRUE, known |-> k]
           l == k \cup UsesOf(t)
           d == IF Kind[t] = "enum" THEN c ELSE ConvertProperties(k, t)
<1>1. /\ Uses[t] \in Seq(Type) /\ UsesOf(t) \subseteq Type /\ DOMAIN Uses[t] = 1..Len(Uses[t])
      /\ UsesOf(t) = {Uses[t][i] : i \in 1..Len(Uses[t])}
  BY Types, LenProperties DEF UsesOf, Range
<1>2. ASSUME NEW u \in UsesOf(t) PROVE Converts(k, u)
  <2>1. u \in Type /\ Element(u) \in k /\ Kind[u] \in AnyKind
    BY <1>1, TypeExchangeAssumption DEF AnyKind
  <2>2. CASE Kind[u] = "vector"
    <3>1. Element(u) = Uses[u][1] /\ Element(u) \in Type /\ Kind[Element(u)] # "vector"
      BY <2>1, <2>2, Elements DEF Element
    <3>2. Kind[Element(u)] \in {"struct", "enum"}
      BY <3>1, TypeExchangeAssumption
    <3> QED BY <2>1, <2>2, <3>1, <3>2 DEF Converts, Finds
  <2>3. CASE Kind[u] # "vector"
    BY <2>1, <2>3 DEF Converts, Finds, Element
  <2> QED BY <2>2, <2>3
<1>3. ConvertProperties(k, t) = [ok |-> TRUE, known |-> l]
  <2>1. {i \in DOMAIN Uses[t] : ~Converts(k, Uses[t][i])} = {}
    BY <1>1, <1>2
  <2> QED BY <1>1, <2>1 DEF ConvertProperties
<1>4. l \in SUBSET Type /\ Closed(l)
  <2>1. ASSUME NEW u \in UsesOf(t) PROVE UsesOf(u) \subseteq l
    <3>1. u \in Type /\ Element(u) \in k
      BY <1>1
    <3>2. CASE Kind[u] = "vector"
      BY <3>1, <3>2, Elements
    <3>3. CASE Kind[u] # "vector"
      BY <3>1, <3>3 DEF Element, Closed
    <3> QED BY <3>2, <3>3
  <2> QED BY <1>1, <2>1 DEF Closed
<1>5. /\ d.ok /\ d.known \in SUBSET Type /\ Closed(d.known) /\ k \subseteq d.known
      /\ d = [ok |-> d.ok, known |-> d.known]
  <2>1. d = [ok |-> TRUE, known |-> k] \/ d = [ok |-> TRUE, known |-> l]
    BY <1>3
  <2> HIDE DEF d, l
  <2>2. k \subseteq l
    BY DEF l
  <2> QED BY <1>4, <2>1, <2>2
<1>6. CASE t \in k
  <2>1. Convert(k, t) = c
    BY <1>6 DEF Convert, Finds
  <2> QED BY <1>6, <2>1
<1>7. CASE t \notin k
  <2>1. Convert(k, t) = [d EXCEPT !.known = Registered(@, t)]
    BY <1>5, <1>7 DEF Convert, Finds
  <2> HIDE DEF d
  <2>2. Convert(k, t) = [ok |-> d.ok, known |-> Registered(d.known, t)]
    BY <1>5, <2>1
  <2>3. /\ Registered(d.known, t) \in SUBSET Type /\ Closed(Registered(d.known, t))
        /\ d.known \subseteq Registered(d.known, t) /\ t \in Registered(d.known, t)
    BY <1>5, RegisteredIsClosed
  <2> QED BY <1>5, <2>2, <2>3
<1> QED BY <1>6, <1>7

LEMMA StaticTypesAreClosed ==
    ASSUME NEW p \in Program
    PROVE  StaticTypes(p) \in SUBSET Type /\ Closed(StaticTypes(p))
<1>1. Static[p] \subseteq Type /\ Closed(Static[p]) /\ Policy[p] \in {"InternalOnly", "All"}
  BY TypeExchangeAssumption
<1>2. CASE Policy[p] = "All"
  BY <1>1, <1>2 DEF StaticTypes
<1>3. CASE Policy[p] = "InternalOnly"
  <2>1. StaticTypes(p) = {t \in Static[p] : ~IsUserType(t)}
    BY <1>3 DEF StaticTypes
  <2>2. ASSUME NEW t \in Static[p], ~IsUserType(t), NEW u \in UsesOf(t)
        PROVE  u \in Static[p] /\ ~IsUserType(u)
    <3>1. t \in Type /\ u \in Static[p] /\ u \in Type
      BY <1>1 DEF Closed
    <3>2. Kind[t] # "enum"
      <4>1. Kind[t] = "enum" => UsesOf(t) = {}
        BY <3>1, TypeExchangeAssumption DEF UsesOf, Range
      <4> QED BY <4>1
    <3>3. Kind[t] = "vector"
      BY <2>2, <3>1, <3>2, TypeExchangeAssumption DEF IsUserType
    <3>4. u = Uses[t][1] /\ Kind[u] # "vector"
      BY <3>1, <3>3, Elements DEF Element
    <3> QED BY <2>2, <3>1, <3>3, <3>4 DEF IsUserType
  <2> QED BY <1>1, <2>1, <2>2 DEF Closed
<1> QED BY <1>1, <1>2, <1>3
-----------------------------------------------------------------------------
(* The invariant of the whole: every registry has the types that its types *)
(* use, and those whose names its channels keep; every end of a connection *)
(* is in order; and a member of a type's group knows the type.             *)
Knowing(ts) == ts \in [Program -> SUBSET Type] /\ \A p \in Program : Closed(ts[p])
Grown(ts, us) == \A p \in Program : ts[p] \subseteq us[p]
Named(ts, ns) == \A e \in End : ns[e] \subseteq ts[ProgramAt(e)]
Lines(ts, ps, ws, ss) ==
    \A e \in End : e[1] \in ps => Line(ts[ProgramAt(e)], ts[ProgramAt(Peer(e))], ws[e], ss[e])
Members(ts, gs) == \A x \in Type : \A g \in gs[x] : x \in ts[g]

IInv ==
    /\ TypeOK /\ failed = {}
    /\ Knowing(types) /\ Named(types, names)
    /\ Lines(types, open, wire, shared)
    /\ Members(types, group)

LEMMA Ends ==
    /\ \A e \in End : /\ e[1] \in Guest /\ Peer(e) \in End /\ Peer(e)[1] = e[1] /\ Peer(e) # e
                      /\ Peer(Peer(e)) = e
                      /\ ProgramAt(e) \in Program /\ ProgramAt(Peer(e)) \in Program
                      /\ ProgramAt(e) # ProgramAt(Peer(e))
                      /\ e = <<e[1], "guest">> \/ e = <<e[1], "host">>
    /\ \A g \in Guest : /\ <<g, "guest">> \in End /\ <<g, "host">> \in End
                        /\ Peer(<<g, "guest">>) = <<g, "host">>
                        /\ Peer(<<g, "host">>) = <<g, "guest">>
                        /\ ProgramAt(<<g, "guest">>) = g /\ ProgramAt(<<g, "host">>) = Host
                        /\ g \in Program /\ g # Host
    /\ Host \in Program
<1>1. Host \notin Guest
  BY TypeExchangeAssumption
<1> QED BY <1>1 DEF End, Peer, ProgramAt, Program, Host

(* An end that nothing is done to stays in order as registries grow.       *)
LEMMA LinesGrow ==
    ASSUME NEW ts, NEW us, Grown(ts, us), NEW ps, NEW ws, NEW ss, Lines(ts, ps, ws, ss)
    PROVE  Lines(us, ps, ws, ss)
<1> SUFFICES ASSUME NEW e \in End, e[1] \in ps
             PROVE  Line(us[ProgramAt(e)], us[ProgramAt(Peer(e))], ws[e], ss[e])
  BY DEF Lines
<1>1. Line(ts[ProgramAt(e)], ts[ProgramAt(Peer(e))], ws[e], ss[e])
  BY DEF Lines
<1>2. /\ ts[ProgramAt(e)] \subseteq us[ProgramAt(e)]
      /\ ts[ProgramAt(Peer(e))] \subseteq us[ProgramAt(Peer(e))]
  BY Ends DEF Grown
<1> QED BY <1>1, <1>2, LineGrows

(* An end has transmitted.                                                 *)
Extended(ws, ss, e, s, vs, rs) ==
    vs = [ws EXCEPT ![e] = @ \o s.sent] /\ rs = [ss EXCEPT ![e] = s.shared]

LEMMA LinesExtend ==
    ASSUME NEW ts, NEW ps, NEW ws \in [End -> Seq(Message)], NEW ss \in [End -> SUBSET Type],
           Lines(ts, ps, ws, ss), NEW e \in End,
           NEW s \in Way(ts[ProgramAt(e)], ts[ProgramAt(Peer(e))], ws[e]),
           NEW vs, NEW rs, Extended(ws, ss, e, s, vs, rs)
    PROVE  vs \in [End -> Seq(Message)] /\ rs \in [End -> SUBSET Type] /\ Lines(ts, ps, vs, rs)
<1>0. vs = [ws EXCEPT ![e] = @ \o s.sent] /\ rs = [ss EXCEPT ![e] = s.shared]
  BY DEF Extended
<1>1. s.sent \in Seq(Message) /\ s.shared \in SUBSET Type
  BY DEF Way, ChannelState
<1>2. vs \in [End -> Seq(Message)] /\ rs \in [End -> SUBSET Type]
  <2>1. ws[e] \o s.sent \in Seq(Message)
    BY <1>1, ConcatProperties
  <2> QED BY <1>0, <1>1, <2>1
<1>3. ASSUME NEW d \in End, d[1] \in ps
      PROVE  Line(ts[ProgramAt(d)], ts[ProgramAt(Peer(d))], vs[d], rs[d])
  <2>1. CASE d = e
    <3>1. vs[d] = ws[e] \o s.sent /\ rs[d] = s.shared
      BY <1>0, <2>1
    <3> QED BY <2>1, <3>1 DEF Way
  <2>2. CASE d # e
    <3>1. vs[d] = ws[d] /\ rs[d] = ss[d]
      BY <1>0, <2>2
    <3> QED BY <1>3, <3>1 DEF Lines
  <2> QED BY <2>1, <2>2
<1> QED BY <1>2, <1>3 DEF Lines

(* What an end receives it can import.                                     *)
LEMMA Imports ==
    ASSUME IInv, NEW e \in End, e[1] \in open, wire[Peer(e)] # <<>>,
           NEW m, m = Head(wire[Peer(e)]),
           NEW c, c = Import(e, m)
    PROVE  /\ c.ok
           /\ c.known \in SUBSET Type /\ Closed(c.known) /\ types[ProgramAt(e)] \subseteq c.known
           /\ m.kind = "descriptor" => m.type \in c.known
           /\ m.kind # "descriptor" => c.known = types[ProgramAt(e)]
<1> DEFINE k == types[ProgramAt(e)]
<1>1. k \in SUBSET Type /\ Closed(k) /\ names[e] \subseteq k
  BY Ends DEF IInv, Knowing, Named
<1>2. m \in Message /\ Needs(m) \subseteq k
  <2>1. Line(types[ProgramAt(Peer(e))], k, wire[Peer(e)], shared[Peer(e)])
    BY Ends DEF IInv, Lines
  <2> HIDE DEF k
  <2> QED BY <2>1, LineReceives
<1>3. CASE m.kind = "descriptor" /\ m.type \notin names[e]
  <2>1. c = Convert(k, m.type)
    BY <1>3 DEF Import
  <2>2. m.type \in Type /\ Kind[m.type] \in DescriptorGroup
    BY <1>2, <1>3, Messages
  <2>3. \A u \in UsesOf(m.type) : Element(u) \in k
    BY <1>2, <1>3 DEF Needs
  <2> HIDE DEF k
  <2> QED BY <1>1, <1>3, <2>1, <2>2, <2>3, ConvertSucceeds DEF k
<1>4. CASE m.kind = "instance"
  <2>1. m.type \in k /\ m.type \in Struct
    BY <1>2, <1>4, Messages DEF Needs
  <2>2. c = [ok |-> Finds(k, m.type, {"struct"}), known |-> k]
    BY <1>4 DEF Import
  <2>3. Finds(k, m.type, {"struct"})
    BY <2>1 DEF Finds, Struct
  <2> QED BY <1>1, <1>4, <2>2, <2>3
<1>5. CASE m.kind # "instance" /\ ~(m.kind = "descriptor" /\ m.type \notin names[e])
  <2>1. c = [ok |-> TRUE, known |-> k]
    BY <1>5 DEF Import
  <2> QED BY <1>1, <1>5, <2>1
<1> QED BY <1>3, <1>4, <1>5

(* Then every end is in order, and what was received is off the wire.      *)
Received(e, m, ts, ns, ss, ws) ==
    /\ m = Head(wire[Peer(e)])
    /\ ts = [types EXCEPT ![ProgramAt(e)] = Import(e, m).known]
    /\ ns = [names EXCEPT ![e] = NamesAfter(e, m)]
    /\ ss = [shared EXCEPT ![e] = SharedAfter(e, m)]
    /\ ws = [wire EXCEPT ![Peer(e)] = Tail(@)]

LEMMA Receives ==
    ASSUME IInv, NEW e \in End, e[1] \in open, wire[Peer(e)] # <<>>,
           NEW m, NEW ts, NEW ns, NEW ss, NEW ws, Received(e, m, ts, ns, ss, ws)
    PROVE  /\ Import(e, m).ok /\ m \in Message
           /\ Knowing(ts) /\ Grown(types, ts) /\ Named(ts, ns)
           /\ ns \in [End -> SUBSET Type] /\ ss \in [End -> SUBSET Type]
           /\ ws \in [End -> Seq(Message)]
           /\ Lines(ts, open, ws, ss)
           /\ Vouched(m) \subseteq types[ProgramAt(Peer(e))]
           /\ Needs(m) \subseteq types[ProgramAt(e)]
           /\ m.kind = "descriptor" => m.type \in ts[ProgramAt(e)]
           /\ m.kind # "descriptor" => ts = types
<1>0. /\ m = Head(wire[Peer(e)])
      /\ ts = [types EXCEPT ![ProgramAt(e)] = Import(e, m).known]
      /\ ns = [names EXCEPT ![e] = NamesAfter(e, m)]
      /\ ss = [shared EXCEPT ![e] = SharedAfter(e, m)]
      /\ ws = [wire EXCEPT ![Peer(e)] = Tail(@)]
  BY DEF Received
<1> DEFINE p == ProgramAt(e)
           o == ProgramAt(Peer(e))
<1>1. /\ p \in Program /\ o \in Program /\ p # o /\ Peer(e) \in End /\ Peer(e) # e
      /\ Peer(Peer(e)) = e /\ Peer(e)[1] \in open
  BY Ends
<1>2. /\ types \in [Program -> SUBSET Type] /\ \A x \in Program : Closed(types[x])
      /\ names \in [End -> SUBSET Type] /\ shared \in [End -> SUBSET Type]
      /\ wire \in [End -> Seq(Message)]
  BY DEF IInv, TypeOK, Knowing
<1>3. /\ Import(e, m).ok /\ Import(e, m).known \in SUBSET Type /\ Closed(Import(e, m).known)
      /\ types[p] \subseteq Import(e, m).known
      /\ m.kind = "descriptor" => m.type \in Import(e, m).known
      /\ m.kind # "descriptor" => Import(e, m).known = types[p]
  BY <1>0, Imports
<1>4. /\ Line(types[o], types[p], wire[Peer(e)], shared[Peer(e)])
      /\ Line(types[p], types[o], wire[e], shared[e])
  BY <1>1 DEF IInv, Lines
<1>5. /\ m \in Message /\ Needs(m) \subseteq types[p] /\ Vouched(m) \subseteq types[o]
      /\ Tail(wire[Peer(e)]) \in Seq(Message)
      /\ \A l : types[p] \subseteq l /\ (m.kind = "descriptor" => m.type \in l) =>
             Line(types[o], l, Tail(wire[Peer(e)]), shared[Peer(e)])
  <2> HIDE DEF p, o
  <2> QED BY <1>0, <1>4, LineReceives
<1>6. m.kind = "descriptor" => m.type \in Type /\ m.type \in types[o] /\ Kind[m.type] # "vector"
  BY <1>5, Messages DEF Vouched, DescriptorGroup
<1> HIDE DEF p, o
<1>7. /\ ts \in [Program -> SUBSET Type] /\ ts[p] = Import(e, m).known
      /\ \A x \in Program : x # p => ts[x] = types[x]
  BY <1>0, <1>1, <1>2, <1>3 DEF p
<1>8. Knowing(ts) /\ Grown(types, ts)
  BY <1>2, <1>3, <1>7 DEF Knowing, Grown
<1>9. /\ ns \in [End -> SUBSET Type] /\ ss \in [End -> SUBSET Type] /\ ws \in [End -> Seq(Message)]
      /\ ns[e] = NamesAfter(e, m) /\ ss[e] = SharedAfter(e, m) /\ ws[e] = wire[e]
      /\ ss[Peer(e)] = shared[Peer(e)] /\ ws[Peer(e)] = Tail(wire[Peer(e)])
      /\ \A d \in End : d # e => ns[d] = names[d] /\ ss[d] = shared[d]
      /\ \A d \in End : d # Peer(e) => ws[d] = wire[d]
  <2>1. NamesAfter(e, m) \in SUBSET Type /\ SharedAfter(e, m) \in SUBSET Type
    BY <1>2, <1>6 DEF NamesAfter, SharedAfter
  <2> QED BY <1>0, <1>1, <1>2, <1>5, <2>1
<1>10. Named(ts, ns)
  <2> SUFFICES ASSUME NEW d \in End PROVE ns[d] \subseteq ts[ProgramAt(d)]
    BY DEF Named
  <2>1. names[d] \subseteq types[ProgramAt(d)] /\ types[ProgramAt(d)] \subseteq ts[ProgramAt(d)]
    BY <1>8, Ends DEF IInv, Named, Grown
  <2>2. CASE d = e
    BY <1>3, <1>7, <1>9, <2>1, <2>2 DEF NamesAfter, p
  <2>3. CASE d # e
    BY <1>9, <2>1, <2>3
  <2> QED BY <2>2, <2>3
<1>11. Lines(ts, open, ws, ss)
  <2> SUFFICES ASSUME NEW d \in End, d[1] \in open
               PROVE  Line(ts[ProgramAt(d)], ts[ProgramAt(Peer(d))], ws[d], ss[d])
    BY DEF Lines
  <2>1. CASE d = Peer(e)
    <3>1. Line(types[o], ts[p], Tail(wire[Peer(e)]), shared[Peer(e)])
      BY <1>3, <1>5, <1>7
    <3>2. types[o] \subseteq ts[o]
      BY <1>1, <1>8 DEF Grown
    <3>3. Line(ts[o], ts[p], Tail(wire[Peer(e)]), shared[Peer(e)])
      BY <3>1, <3>2, LineGrows
    <3> QED BY <1>1, <1>9, <2>1, <3>3 DEF o, p
  <2>2. CASE d = e
    <3>1. types[p] \subseteq ts[p] /\ types[o] \subseteq ts[o]
      BY <1>1, <1>8 DEF Grown
    <3>2. Line(ts[p], ts[o], wire[e], shared[e])
      BY <1>4, <3>1, LineGrows
    <3>3. CASE m.kind = "descriptor" /\ m.type \notin names[e]
      <4>1. Line(ts[p], ts[o], wire[e], shared[e] \cup {m.type})
        BY <1>6, <3>1, <3>2, <3>3, LineShares
      <4> QED BY <1>9, <2>2, <3>3, <4>1 DEF SharedAfter, o, p
    <3>4. CASE ~(m.kind = "descriptor" /\ m.type \notin names[e])
      BY <1>9, <2>2, <3>2, <3>4 DEF SharedAfter, o, p
    <3> QED BY <3>3, <3>4
  <2>3. CASE d # e /\ d # Peer(e)
    <3>1. Line(ts[ProgramAt(d)], ts[ProgramAt(Peer(d))], wire[d], shared[d])
      BY <1>8, LinesGrow DEF IInv, Lines
    <3> QED BY <1>9, <2>3, <3>1
  <2> QED BY <2>1, <2>2, <2>3
<1>12. /\ m.kind = "descriptor" => m.type \in ts[p]
       /\ m.kind # "descriptor" => ts = types
  BY <1>0, <1>2, <1>3, <1>7
<1> QED BY <1>3, <1>5, <1>8, <1>9, <1>10, <1>11, <1>12 DEF p, o
-----------------------------------------------------------------------------
(* What an end transmits in one go.                                        *)
LEMMA AnswersJoin ==
    ASSUME IInv, NEW k, NEW q \in Seq(Message), NEW s \in Way(types[Host], k, q), NEW x
    PROVE  AnswerJoin(s, x) \in Way(types[Host], k, q)
<1> DEFINE ks == types[Host]
           r == IF x \in filled THEN TransmitInstance(s, x) ELSE s
<1>1. ks \in SUBSET Type /\ Closed(ks)
  BY Ends DEF IInv, Knowing
<1>2. CASE x \in Cached /\ Finds(ks, x, {"struct"})
  <2>1. x \in ks /\ x \in Struct
    BY <1>1, <1>2 DEF Finds, Struct
  <2>2. r \in Way(ks, k, q)
    <3> HIDE DEF ks
    <3>1. TransmitInstance(s, x) \in Way(ks, k, q)
      BY <1>1, <2>1, WayInstance DEF ks
    <3> QED BY <3>1 DEF ks
  <2>3. CacheInfo \in Message /\ CacheInfo.kind = "cacheInfo"
    BY Internals
  <2>4. TransmitInternal(r, CacheInfo) \in Way(ks, k, q)
    <3> HIDE DEF r, ks
    <3> QED BY <2>2, <2>3, WayInternal
  <2> QED BY <1>2, <2>4 DEF AnswerJoin
<1>3. CASE ~(x \in Cached /\ Finds(ks, x, {"struct"}))
  BY <1>3 DEF AnswerJoin
<1> QED BY <1>2, <1>3

LEMMA AnswersRequest ==
    ASSUME IInv, NEW k, NEW q \in Seq(Message), NEW s \in Way(types[Host], k, q), NEW w
    PROVE  AnswerRequest(s, w) \in Way(types[Host], k, q)
<1> DEFINE C == Way(types[Host], k, q)
           n == Len(Order)
           answered(r, t) == IF /\ Finds(types[Host], t, {"struct"})
                                /\ w # {} => t \in w
                             THEN Export(r, t) ELSE r
           after == CHOOSE f : f = [i \in 0..n |-> IF i = 0 THEN s ELSE answered(f[i - 1], Order[i])]
<1>1. n \in Nat /\ \A i \in 1..n : Order[i] \in Type
  BY TypeExchangeAssumption, LenProperties, ElementOfSeq
<1>2. ASSUME NEW r \in C, NEW t PROVE answered(r, t) \in C
  <2>1. types[Host] \in SUBSET Type /\ Closed(types[Host])
    BY Ends DEF IInv, Knowing
  <2>2. t \in types[Host] => Export(r, t) \in C
    BY <2>1, WayExports
  <2> QED BY <2>2 DEF Finds
<1>3. \E f : f = [i \in 0..n |-> IF i = 0 THEN s ELSE answered(f[i - 1], Order[i])]
  <2> DEFINE F == [i \in 1..n |-> [r \in C |-> answered(r, Order[i])]]
  <2> HIDE DEF C, n, answered
  <2>1. Transitions(C, n, F)
    BY <1>2 DEF Transitions
  <2>2. s \in C
    BY DEF C
  <2>k. n \in Nat
    BY <1>1
  <2> HIDE DEF F
  <2>h. \E h : Goes(C, s, n, F, h)
    BY <2>1, <2>2, <2>k, GoesThrough
  <2>3. PICK h \in [0..n -> C] : h[0] = s /\ \A i \in 1..n : h[i] = F[i][h[i - 1]]
    BY <2>h DEF Goes
  <2> USE DEF F
  <2>4. ASSUME NEW i \in 0..n
        PROVE  h[i] = IF i = 0 THEN s ELSE answered(h[i - 1], Order[i])
    <3>1. CASE i # 0
      <4>1. i \in 1..n /\ i - 1 \in 0..n
        BY <1>1, <3>1
      <4>2. h[i - 1] \in C
        BY <4>1
      <4> QED BY <2>3, <3>1, <4>1, <4>2
    <3> QED BY <2>3, <3>1
  <2>5. h = [i \in 0..n |-> IF i = 0 THEN s ELSE answered(h[i - 1], Order[i])]
    BY <2>4
  <2> QED BY <2>5
<1>4. after = [i \in 0..n |-> IF i = 0 THEN s ELSE answered(after[i - 1], Order[i])]
  <2> HIDE DEF C, n, answered
  <2> QED BY <1>3
<1>5. InTurn(s, Order, answered) = after[n]
  BY DEF InTurn
<1>6. after[n] \in C
  <2> DEFINE S == {i \in 0..n : after[i] \in C}
  <2> HIDE DEF after, answered, n
  <2>1. 0 \in S
    BY <1>1, <1>4
  <2>2. ASSUME NEW i \in 1..n, i - 1 \in S PROVE i \in S
    <3>1. i \in 0..n /\ i # 0 /\ after[i - 1] \in C
      BY <1>1, <2>2
    <3>2. after[i] = answered(after[i - 1], Order[i])
      BY <1>4, <3>1
    <3> QED BY <1>2, <3>1, <3>2
  <2>3. n \in S
    <3> HIDE DEF S
    <3>1. \A i \in 0..n : i \in S
      BY <1>1, <2>1, <2>2, Upto
    <3> QED BY <1>1, <3>1
  <2> QED BY <2>3
<1>7. AnswerRequest(s, w) = TransmitInternal(after[n], CacheInfo)
  BY <1>5 DEF AnswerRequest
<1> HIDE DEF after
<1> QED BY <1>6, <1>7, Internals, WayInternal

(* What a guest transmits as it connects.                                  *)
LEMMA Preloads ==
    ASSUME IInv, NEW g \in Guest, Range(Preload[g]) \subseteq types[g]
    PROVE  Preloading(g) \in Way(types[g], types[Host], <<>>)
<1> DEFINE C == Way(types[g], types[Host], <<>>)
           ts == Preload[g]
           n == Len(ts)
           s == [shared |-> {}, sent |-> <<>>]
           preloaded(r, t) == IF t \in joined[g] THEN Export(r, t)
                              ELSE TransmitInternal(Export(r, t), Join(t))
           after == CHOOSE f : f = [i \in 0..n |-> IF i = 0 THEN s ELSE preloaded(f[i - 1], ts[i])]
<1>0. types[g] \in SUBSET Type /\ Closed(types[g])
  BY Ends DEF IInv, Knowing
<1>1. n \in Nat /\ \A i \in 1..n : ts[i] \in types[g]
  <2>1. ts \in Seq(Publishable)
    BY TypeExchangeAssumption
  <2>2. n \in Nat /\ DOMAIN ts = 1..n
    BY <2>1, LenProperties
  <2> QED BY <2>2 DEF Range
<1>2. ASSUME NEW r \in C, NEW t \in types[g] PROVE preloaded(r, t) \in C
  <2>0. <<>> \in Seq(Message)
    OBVIOUS
  <2>1. Export(r, t) \in C
    BY <1>0, <2>0, WayExports
  <2>2. t \in Type
    BY <1>0
  <2>3. Join(t) \in Message /\ Join(t).kind = "join" /\ Join(t).group \in types[g]
    BY <2>2, Internals
  <2>4. TransmitInternal(Export(r, t), Join(t)) \in C
    BY <2>0, <2>1, <2>3, WayInternal
  <2> QED BY <2>1, <2>4
<1>s. s \in C
  <2>1. Line(types[g], types[Host], <<>>, {})
    BY DEF Line, Fit, Backed, Vouches
  <2> QED BY <2>1, WayBegins
<1>3. \E f : f = [i \in 0..n |-> IF i = 0 THEN s ELSE preloaded(f[i - 1], ts[i])]
  <2> DEFINE F == [i \in 1..n |-> [r \in C |-> preloaded(r, ts[i])]]
  <2> HIDE DEF C, n, preloaded, s, ts
  <2>1. Transitions(C, n, F)
    BY <1>1, <1>2 DEF Transitions
  <2>k. n \in Nat
    BY <1>1
  <2> HIDE DEF F
  <2>h. \E h : Goes(C, s, n, F, h)
    BY <1>s, <2>1, <2>k, GoesThrough
  <2>3. PICK h \in [0..n -> C] : h[0] = s /\ \A i \in 1..n : h[i] = F[i][h[i - 1]]
    BY <2>h DEF Goes
  <2> USE DEF F
  <2>4. ASSUME NEW i \in 0..n
        PROVE  h[i] = IF i = 0 THEN s ELSE preloaded(h[i - 1], ts[i])
    <3>1. CASE i # 0
      <4>1. i \in 1..n /\ i - 1 \in 0..n
        BY <1>1, <3>1
      <4>2. h[i - 1] \in C
        BY <4>1
      <4> QED BY <2>3, <3>1, <4>1, <4>2
    <3> QED BY <2>3, <3>1
  <2>5. h = [i \in 0..n |-> IF i = 0 THEN s ELSE preloaded(h[i - 1], ts[i])]
    BY <2>4
  <2> QED BY <2>5
<1>4. after = [i \in 0..n |-> IF i = 0 THEN s ELSE preloaded(after[i - 1], ts[i])]
  <2> HIDE DEF C, n, preloaded, s, ts
  <2> QED BY <1>3
<1>5. Preloading(g) = after[n]
  BY DEF InTurn, Preloading
<1>6. after[n] \in C
  <2> DEFINE S == {i \in 0..n : after[i] \in C}
  <2> HIDE DEF after, preloaded, n, s, ts, C
  <2>1. 0 \in S
    BY <1>1, <1>4, <1>s
  <2>2. ASSUME NEW i \in 1..n, i - 1 \in S PROVE i \in S
    <3>1. i \in 0..n /\ i # 0 /\ after[i - 1] \in C
      BY <1>1, <2>2
    <3>2. after[i] = preloaded(after[i - 1], ts[i])
      BY <1>4, <3>1
    <3> QED BY <1>1, <1>2, <3>1, <3>2
  <2>3. n \in S
    <3> HIDE DEF S
    <3>1. \A i \in 0..n : i \in S
      BY <1>1, <2>1, <2>2, Upto
    <3> QED BY <1>1, <3>1
  <2> QED BY <2>3
<1> QED BY <1>5, <1>6

(* The host has transmitted to the members of a group.                     *)
LEMMA Groups ==
    ASSUME NEW ts, Knowing(ts), NEW w \in [End -> Seq(Message)], NEW sh \in [End -> SUBSET Type],
           Lines(ts, open, w, sh),
           NEW x, NEW m \in Message, m.kind \in {"descriptor", "instance"},
           m.kind = "descriptor" => m.type \in ts[Host],
           m.kind = "instance" => \A g \in group[x] \cap open : g \in Guest => m.type \in ts[g],
           TransmitGroup(sh, w, x, m)
    PROVE  /\ wire' \in [End -> Seq(Message)] /\ shared' \in [End -> SUBSET Type]
           /\ Lines(ts, open, wire', shared')
<1> DEFINE reached == {<<g, "host">> : g \in group[x] \cap open}
           sent(e) == Forward([shared |-> sh[e], sent |-> <<>>], m)
<1>1. /\ shared' = [e \in End |-> IF e \in reached THEN sent(e).shared ELSE sh[e]]
      /\ wire' = [e \in End |-> IF e \in reached THEN w[e] \o sent(e).sent ELSE w[e]]
  BY DEF TransmitGroup
<1>2. ASSUME NEW e \in End, e \in reached
      PROVE  sent(e) \in Way(ts[ProgramAt(e)], ts[ProgramAt(Peer(e))], w[e])
  <2>1. PICK g \in group[x] \cap open : e = <<g, "host">>
    BY <1>2
  <2>2. g \in Guest /\ e[1] \in open /\ ProgramAt(e) = Host /\ ProgramAt(Peer(e)) = g
    BY <2>1, Ends
  <2>3. /\ ts[Host] \in SUBSET Type /\ Closed(ts[Host])
        /\ ts[g] \in SUBSET Type /\ Closed(ts[g])
    BY <2>2, Ends DEF Knowing
  <2>4. Line(ts[Host], ts[g], w[e], sh[e])
    BY <2>2 DEF Lines
  <2>5. m.kind = "instance" => m.type \in ts[g]
    BY <2>1, <2>2
  <2>6. sent(e) \in Way(ts[Host], ts[g], w[e])
    BY <2>3, <2>4, <2>5, WayForwards
  <2> QED BY <2>2, <2>6
<1> HIDE DEF reached, sent
<1>3. ASSUME NEW e \in End
      PROVE  /\ wire'[e] \in Seq(Message) /\ shared'[e] \in SUBSET Type
             /\ e[1] \in open =>
                    Line(ts[ProgramAt(e)], ts[ProgramAt(Peer(e))], wire'[e], shared'[e])
  <2>1. CASE e \in reached
    <3>1. shared'[e] = sent(e).shared /\ wire'[e] = w[e] \o sent(e).sent
      BY <1>1, <2>1
    <3>2. /\ sent(e).shared \in SUBSET Type /\ sent(e).sent \in Seq(Message)
          /\ Line(ts[ProgramAt(e)], ts[ProgramAt(Peer(e))], w[e] \o sent(e).sent, sent(e).shared)
      BY <1>2, <2>1 DEF Way, ChannelState
    <3>3. w[e] \o sent(e).sent \in Seq(Message)
      BY <3>2, ConcatProperties
    <3> QED BY <3>1, <3>2, <3>3
  <2>2. CASE e \notin reached
    <3>1. shared'[e] = sh[e] /\ wire'[e] = w[e]
      BY <1>1, <2>2
    <3> QED BY <3>1 DEF Lines
  <2> QED BY <2>1, <2>2
<1>4. wire' \in [End -> Seq(Message)] /\ shared' \in [End -> SUBSET Type]
  BY <1>1, <1>3
<1> QED BY <1>3, <1>4 DEF Lines

-----------------------------------------------------------------------------
(* The invariant is inductive.                                             *)

LEMMA Initially == Init => IInv
<1> SUFFICES ASSUME Init PROVE IInv
  OBVIOUS
<1>1. types \in [Program -> SUBSET Type] /\ \A p \in Program : Closed(types[p])
  BY StaticTypesAreClosed DEF Init
<1>2. TypeOK
  BY <1>1 DEF Init, TypeOK
<1>3. Named(types, names) /\ Members(types, group) /\ Lines(types, open, wire, shared)
  BY DEF Init, Named, Members, Lines
<1> QED BY <1>1, <1>2, <1>3 DEF IInv, Knowing, Init

(* A guest has transmitted.                                                *)
LEMMA GuestTransmission ==
    ASSUME IInv, NEW g \in Guest, g \in open,
           NEW s, At(<<g, "guest">>) \in Way(types[g], types[Host], wire[<<g, "guest">>]) =>
                      s \in Way(types[g], types[Host], wire[<<g, "guest">>]),
           GuestTransmits(g, s)
    PROVE  /\ wire' \in [End -> Seq(Message)] /\ shared' \in [End -> SUBSET Type]
           /\ Lines(types, open, wire', shared')
<1> DEFINE e == <<g, "guest">>
<1>1. /\ e \in End /\ e[1] \in open /\ ProgramAt(e) = g /\ ProgramAt(Peer(e)) = Host
      /\ wire \in [End -> Seq(Message)] /\ shared \in [End -> SUBSET Type]
      /\ Lines(types, open, wire, shared)
  BY Ends DEF IInv, TypeOK
<1>2. Line(types[g], types[Host], wire[e], shared[e])
  <2>1. Line(types[ProgramAt(e)], types[ProgramAt(Peer(e))], wire[e], shared[e])
    <3> HIDE DEF e
    <3> QED BY <1>1 DEF Lines
  <2> QED BY <1>1, <2>1
<1>3. At(e) \in Way(types[g], types[Host], wire[e])
  BY <1>2, WayBegins DEF At
<1>4. s \in Way(types[ProgramAt(e)], types[ProgramAt(Peer(e))], wire[e])
  BY <1>1, <1>3
<1>5. wire' = [wire EXCEPT ![e] = @ \o s.sent] /\ shared' = [shared EXCEPT ![e] = s.shared]
  BY DEF GuestTransmits
<1> HIDE DEF e
<1>6. Extended(wire, shared, e, s, wire', shared')
  BY <1>5 DEF Extended
<1> QED BY <1>1, <1>4, <1>6, LinesExtend

LEMMA PublishPreserves ==
    ASSUME IInv, NEW g \in Guest, NEW t \in Type, Publish(g, t)
    PROVE  IInv'
<1> DEFINE q == wire[<<g, "guest">>]
<1>1. types[g] \in SUBSET Type /\ Closed(types[g]) /\ q \in Seq(Message)
  BY Ends DEF IInv, TypeOK, Knowing
<1>2. t \in types[g] /\ t \in Struct /\ g \in open
  BY DEF Publish, Publishable
<1>3. ASSUME NEW s \in Way(types[g], types[Host], q)
      PROVE  TransmitInstance(s, t) \in Way(types[g], types[Host], q)
  BY <1>1, <1>2, WayInstance
<1>4. /\ wire' \in [End -> Seq(Message)] /\ shared' \in [End -> SUBSET Type]
      /\ Lines(types, open, wire', shared')
  <2>1. GuestTransmits(g, TransmitInstance(At(<<g, "guest">>), t))
    BY DEF Publish
  <2> QED BY <1>2, <1>3, <2>1, GuestTransmission
<1>5. UNCHANGED <<types, names, open, group, joined, filled, failed, connects>> /\ calls' = calls + 1
  BY DEF Publish, Call
<1> QED BY <1>4, <1>5 DEF IInv, TypeOK, Knowing, Named, Members

(* What a guest transmits that is internal.                                *)
LEMMA GuestInternal ==
    ASSUME IInv, NEW g \in Guest, g \in open,
           NEW m \in Message, m.kind \in {"join", "leave", "request", "cacheInfo"},
           m.kind = "join" => m.group \in types[g] \/ m.group \notin Type,
           GuestTransmits(g, TransmitInternal(At(<<g, "guest">>), m))
    PROVE  /\ wire' \in [End -> Seq(Message)] /\ shared' \in [End -> SUBSET Type]
           /\ Lines(types, open, wire', shared')
<1> DEFINE q == wire[<<g, "guest">>]
<1>1. q \in Seq(Message)
  BY Ends DEF IInv, TypeOK
<1>2. ASSUME NEW s \in Way(types[g], types[Host], q)
      PROVE  TransmitInternal(s, m) \in Way(types[g], types[Host], q)
  <2> HIDE DEF q
  <2> QED BY <1>1, WayInternal
<1> QED BY <1>2, GuestTransmission

LEMMA SubscribePreserves ==
    ASSUME IInv, NEW g \in Guest, NEW x \in Type \cup DescriptorGroup, Subscribe(g, x)
    PROVE  IInv'
<1>1. /\ g \in open /\ GuestTransmits(g, TransmitInternal(At(<<g, "guest">>), Join(x)))
      /\ x \in types[g] \/ x \in DescriptorGroup
  BY DEF Subscribe
<1>2. Join(x) \in Message /\ Join(x).kind = "join" /\ Join(x).group = x
  BY Internals
<1>3. Join(x).group \in types[g] \/ Join(x).group \notin Type
  BY <1>1, <1>2, TypeExchangeAssumption
<1>4. /\ wire' \in [End -> Seq(Message)] /\ shared' \in [End -> SUBSET Type]
      /\ Lines(types, open, wire', shared')
  BY <1>1, <1>2, <1>3, GuestInternal
<1>5. /\ UNCHANGED <<types, names, open, group, filled, failed, connects>> /\ calls' = calls + 1
      /\ joined' = [joined EXCEPT ![g] = @ \cup {x}]
  BY DEF Subscribe, Call
<1>6. joined' \in [Guest -> SUBSET (Type \cup DescriptorGroup)]
  BY <1>5 DEF IInv, TypeOK
<1> QED BY <1>4, <1>5, <1>6 DEF IInv, TypeOK, Knowing, Named, Members

LEMMA LeaveGroupPreserves ==
    ASSUME IInv, NEW g \in Guest, NEW x \in Type \cup DescriptorGroup, LeaveGroup(g, x)
    PROVE  IInv'
<1>1. g \in open /\ GuestTransmits(g, TransmitInternal(At(<<g, "guest">>), Leave(x)))
  BY DEF LeaveGroup
<1>2. Leave(x) \in Message /\ Leave(x).kind = "leave"
  BY Internals
<1>4. /\ wire' \in [End -> Seq(Message)] /\ shared' \in [End -> SUBSET Type]
      /\ Lines(types, open, wire', shared')
  BY <1>1, <1>2, GuestInternal
<1>5. /\ UNCHANGED <<types, names, open, group, filled, failed, connects>> /\ calls' = calls + 1
      /\ joined' = [joined EXCEPT ![g] = @ \ {x}]
  BY DEF LeaveGroup, Call
<1>6. joined' \in [Guest -> SUBSET (Type \cup DescriptorGroup)]
  BY <1>5 DEF IInv, TypeOK
<1> QED BY <1>4, <1>5, <1>6 DEF IInv, TypeOK, Knowing, Named, Members

LEMMA RequestPreserves ==
    ASSUME IInv, NEW g \in Guest, NEW w \in WhiteLists, RequestDescriptors(g, w)
    PROVE  IInv'
<1>1. g \in open /\ GuestTransmits(g, TransmitInternal(At(<<g, "guest">>), Request(w)))
  BY DEF RequestDescriptors
<1>2. Request(w) \in Message /\ Request(w).kind = "request"
  BY Internals
<1>4. /\ wire' \in [End -> Seq(Message)] /\ shared' \in [End -> SUBSET Type]
      /\ Lines(types, open, wire', shared')
  BY <1>1, <1>2, GuestInternal
<1>5. UNCHANGED <<types, names, open, group, joined, filled, failed, connects>> /\ calls' = calls + 1
  BY DEF RequestDescriptors, Call
<1> QED BY <1>4, <1>5 DEF IInv, TypeOK, Knowing, Named, Members

LEMMA RegisterPreserves ==
    ASSUME IInv, NEW p \in Program, NEW t \in Type, Register(p, t)
    PROVE  IInv'
<1>1. types \in [Program -> SUBSET Type] /\ \A x \in Program : Closed(types[x])
  BY DEF IInv, Knowing
<1>2. /\ Registered(types[p], t) \in SUBSET Type /\ Closed(Registered(types[p], t))
      /\ types[p] \subseteq Registered(types[p], t)
  BY <1>1, RegisteredIsClosed
<1>3. /\ types' = [types EXCEPT ![p] = Registered(@, t)] /\ calls' = calls + 1
      /\ UNCHANGED <<names, shared, wire, open, group, joined, filled, failed, connects>>
  BY DEF Register, Call
<1>4. types' \in [Program -> SUBSET Type] /\ Knowing(types') /\ Grown(types, types')
  BY <1>1, <1>2, <1>3 DEF Knowing, Grown
<1>5. Lines(types', open, wire, shared)
  BY <1>4, LinesGrow DEF IInv
<1>6. Named(types', names) /\ Members(types', group)
  <2>1. \A e \in End : ProgramAt(e) \in Program
    BY Ends
  <2>2. \A x \in Type : group[x] \subseteq Program
    BY DEF IInv, TypeOK, Program
  <2> QED BY <1>4, <2>1, <2>2 DEF IInv, Named, Members, Grown
<1>7. TypeOK'
  BY <1>3, <1>4 DEF IInv, TypeOK
<1>8. failed' = {} /\ names' = names /\ group' = group /\ wire' = wire /\ shared' = shared /\ open' = open
  BY <1>3 DEF IInv
<1> QED BY <1>4, <1>5, <1>6, <1>7, <1>8 DEF IInv

LEMMA ConnectPreserves ==
    ASSUME IInv, NEW g \in Guest, Connect(g)
    PROVE  IInv'
<1> DEFINE a == <<g, "guest">>
           b == <<g, "host">>
           s == Preloading(g)
<1>1. /\ g \notin open /\ Range(Preload[g]) \subseteq types[g]
      /\ open' = open \cup {g}
      /\ shared' = [shared EXCEPT ![a] = s.shared, ![b] = {}]
      /\ names' = [names EXCEPT ![a] = {}, ![b] = {}]
      /\ wire' = [wire EXCEPT ![a] = s.sent, ![b] = <<>>]
      /\ joined' = [joined EXCEPT ![g] = @ \cup Range(Preload[g])]
      /\ connects' = connects + 1
      /\ UNCHANGED <<types, group, filled, failed, calls>>
  BY DEF Connect
<1>2. s \in Way(types[g], types[Host], <<>>)
  BY <1>1, Preloads
<1> HIDE DEF s
<1>3. /\ s.shared \in SUBSET Type /\ s.sent \in Seq(Message)
      /\ Line(types[g], types[Host], s.sent, s.shared)
  <2>1. s.shared \in SUBSET Type /\ s.sent \in Seq(Message)
    BY <1>2 DEF Way, ChannelState
  <2>2. <<>> \o s.sent = s.sent
    BY <2>1, ConcatEmptySeq
  <2> QED BY <1>2, <2>1, <2>2 DEF Way
<1>4. Line(types[Host], types[g], <<>>, {})
  BY DEF Line, Fit, Backed, Vouches
<1>5. /\ a \in End /\ b \in End /\ a # b /\ a[1] = g /\ b[1] = g
      /\ Peer(a) = b /\ Peer(b) = a /\ ProgramAt(a) = g /\ ProgramAt(b) = Host
      /\ \A e \in End : e[1] = g => e = a \/ e = b
  BY Ends DEF End
<1>6. /\ names \in [End -> SUBSET Type] /\ shared \in [End -> SUBSET Type]
      /\ wire \in [End -> Seq(Message)] /\ joined \in [Guest -> SUBSET (Type \cup DescriptorGroup)]
  BY DEF IInv, TypeOK
<1> HIDE DEF a, b
<1>7. /\ names' \in [End -> SUBSET Type] /\ shared' \in [End -> SUBSET Type]
      /\ wire' \in [End -> Seq(Message)]
      /\ names'[a] = {} /\ names'[b] = {}
      /\ shared'[a] = s.shared /\ shared'[b] = {}
      /\ wire'[a] = s.sent /\ wire'[b] = <<>>
      /\ \A e \in End : e # a /\ e # b =>
             names'[e] = names[e] /\ shared'[e] = shared[e] /\ wire'[e] = wire[e]
  <2>1. <<>> \in Seq(Message)
    OBVIOUS
  <2>2. /\ names' \in [End -> SUBSET Type] /\ names'[a] = {} /\ names'[b] = {}
        /\ \A e \in End : e # a /\ e # b => names'[e] = names[e]
    BY <1>1, <1>5, <1>6
  <2>3. /\ shared' \in [End -> SUBSET Type] /\ shared'[a] = s.shared /\ shared'[b] = {}
        /\ \A e \in End : e # a /\ e # b => shared'[e] = shared[e]
    BY <1>1, <1>3, <1>5, <1>6
  <2>4. /\ wire' \in [End -> Seq(Message)] /\ wire'[a] = s.sent /\ wire'[b] = <<>>
        /\ \A e \in End : e # a /\ e # b => wire'[e] = wire[e]
    BY <1>1, <1>3, <1>5, <1>6, <2>1
  <2> QED BY <2>2, <2>3, <2>4
<1>8. joined' \in [Guest -> SUBSET (Type \cup DescriptorGroup)]
  <2>1. Range(Preload[g]) \subseteq Type
    <3>1. types[g] \subseteq Type
      BY Ends DEF IInv, TypeOK
    <3> QED BY <1>1, <3>1
  <2>2. joined[g] \cup Range(Preload[g]) \in SUBSET (Type \cup DescriptorGroup)
    BY <1>6, <2>1
  <2>3. joined' = [joined EXCEPT ![g] = joined[g] \cup Range(Preload[g])]
    BY <1>1
  <2> QED BY <1>6, <2>2, <2>3
<1>9. TypeOK'
  <2>1. connects' \in Nat /\ open' \subseteq Guest
    BY <1>1 DEF IInv, TypeOK
  <2>2. UNCHANGED <<types, group, filled, failed, calls>>
    BY <1>1
  <2> QED BY <1>7, <1>8, <2>1, <2>2 DEF IInv, TypeOK
<1>10. Lines(types', open', wire', shared')
  <2> SUFFICES ASSUME NEW e \in End, e[1] \in open'
               PROVE  Line(types'[ProgramAt(e)], types'[ProgramAt(Peer(e))], wire'[e], shared'[e])
    BY DEF Lines
  <2>1. types' = types
    BY <1>1
  <2>2. CASE e = a
    BY <1>3, <1>5, <1>7, <2>1, <2>2
  <2>3. CASE e = b
    BY <1>4, <1>5, <1>7, <2>1, <2>3
  <2>4. CASE e # a /\ e # b
    <3>1. e[1] \in open
      BY <1>1, <1>5, <2>4
    <3>2. Line(types[ProgramAt(e)], types[ProgramAt(Peer(e))], wire[e], shared[e])
      BY <3>1 DEF IInv, Lines
    <3> QED BY <1>7, <2>1, <2>4, <3>2
  <2> QED BY <2>2, <2>3, <2>4
<1>11. Named(types', names')
  <2> SUFFICES ASSUME NEW e \in End PROVE names'[e] \subseteq types'[ProgramAt(e)]
    BY DEF Named
  <2>1. names'[e] \subseteq names[e]
    BY <1>7
  <2> QED BY <1>1, <2>1 DEF IInv, Named
<1> QED BY <1>1, <1>9, <1>10, <1>11 DEF IInv, Knowing, Members

LEMMA DisconnectPreserves ==
    ASSUME IInv, NEW g \in Guest, Disconnect(g)
    PROVE  IInv'
<1>1. /\ open' = open \ {g}
      /\ wire' = [wire EXCEPT ![<<g, "guest">>] = <<>>, ![<<g, "host">>] = <<>>]
      /\ group' = [x \in DOMAIN group |-> group[x] \ {g}]
      /\ calls' = calls + 1
      /\ UNCHANGED <<types, names, shared, joined, filled, failed, connects>>
  BY DEF Disconnect, Closes, Call
<1>2. group \in [Type \cup DescriptorGroup -> SUBSET Guest] /\ wire \in [End -> Seq(Message)]
  BY DEF IInv, TypeOK
<1>3. /\ group' \in [Type \cup DescriptorGroup -> SUBSET Guest]
      /\ \A x \in Type : group'[x] \subseteq group[x]
  BY <1>1, <1>2
<1>4. /\ wire' \in [End -> Seq(Message)]
      /\ \A e \in End : e[1] # g => wire'[e] = wire[e]
  <2>1. <<>> \in Seq(Message)
    OBVIOUS
  <2>2. wire' = [wire EXCEPT ![<<g, "guest">>] = <<>>, ![<<g, "host">>] = <<>>]
    BY <1>1
  <2>3. \A e \in End : e[1] # g => e # <<g, "guest">> /\ e # <<g, "host">>
    OBVIOUS
  <2> QED BY <1>2, <2>1, <2>2, <2>3
<1>5. TypeOK'
  <2>1. calls' \in Nat /\ open' \subseteq Guest
    BY <1>1 DEF IInv, TypeOK
  <2>2. UNCHANGED <<types, names, shared, joined, filled, failed, connects>>
    BY <1>1
  <2> QED BY <1>3, <1>4, <2>1, <2>2 DEF IInv, TypeOK
<1>6. Lines(types', open', wire', shared')
  <2> SUFFICES ASSUME NEW e \in End, e[1] \in open'
               PROVE  Line(types'[ProgramAt(e)], types'[ProgramAt(Peer(e))], wire'[e], shared'[e])
    BY DEF Lines
  <2>1. e[1] \in open /\ e[1] # g
    BY <1>1
  <2>2. Line(types[ProgramAt(e)], types[ProgramAt(Peer(e))], wire[e], shared[e])
    BY <2>1 DEF IInv, Lines
  <2>3. wire'[e] = wire[e]
    BY <1>4, <2>1
  <2> QED BY <1>1, <2>2, <2>3
<1>7. Members(types', group')
  BY <1>1, <1>3 DEF IInv, Members
<1> QED BY <1>1, <1>5, <1>6, <1>7 DEF IInv, Knowing, Named

(* A guest receives: what it receives it can import.                       *)
LEMMA GuestReceivePreserves ==
    ASSUME IInv, NEW g \in Guest, GuestReceive(g)
    PROVE  IInv'
<1> DEFINE e == <<g, "guest">>
           m == Head(wire[Peer(e)])
<1>1. g \in open /\ wire[Peer(e)] # <<>>
  BY DEF GuestReceive
<1>2. e \in End /\ e[1] = g /\ ProgramAt(e) = g
  BY Ends
<1>3. /\ types' = [types EXCEPT ![g] = Import(e, m).known]
      /\ names' = [names EXCEPT ![e] = NamesAfter(e, m)]
      /\ UNCHANGED <<joined, filled, calls, connects>>
  BY DEF GuestReceive
<1>4. Import(e, m).ok => /\ shared' = [shared EXCEPT ![e] = SharedAfter(e, m)]
                         /\ wire' = [wire EXCEPT ![Peer(e)] = Tail(@)]
                         /\ UNCHANGED <<open, group, failed>>
  BY DEF GuestReceive
<1>5. Import(e, m).ok
  <2> HIDE DEF e
  <2> QED BY <1>1, <1>2, Imports
<1>6. /\ Knowing(types') /\ Grown(types, types') /\ Named(types', names')
      /\ names' \in [End -> SUBSET Type] /\ shared' \in [End -> SUBSET Type]
      /\ wire' \in [End -> Seq(Message)]
      /\ Lines(types', open, wire', shared')
  <2>1. Received(e, m, types', names', shared', wire')
    BY <1>2, <1>3, <1>4, <1>5 DEF Received
  <2>2. e[1] \in open
    BY <1>1, <1>2
  <2> HIDE DEF e, m
  <2> QED BY <1>1, <1>2, <2>1, <2>2, Receives
<1>7. UNCHANGED <<open, group, failed, joined, filled, calls, connects>>
  BY <1>3, <1>4, <1>5
<1>8. TypeOK'
  BY <1>6, <1>7 DEF IInv, TypeOK, Knowing
<1>9. Members(types', group')
  <2>1. \A x \in Type : group[x] \subseteq Program
    BY DEF IInv, TypeOK, Program
  <2> QED BY <1>6, <1>7, <2>1 DEF IInv, Members, Grown
<1> HIDE DEF e, m
<1> QED BY <1>6, <1>7, <1>8, <1>9 DEF IInv

(* The host answers a guest.                                               *)
LEMMA HostAnswers ==
    ASSUME IInv, NEW g \in Guest, g \in open,
           NEW ws \in [End -> Seq(Message)], NEW ss \in [End -> SUBSET Type],
           Lines(types, open, ws, ss),
           NEW r, [shared |-> ss[<<g, "host">>], sent |-> <<>>]
                      \in Way(types[Host], types[g], ws[<<g, "host">>]) =>
                      r \in Way(types[Host], types[g], ws[<<g, "host">>]),
           NEW vs, NEW rs, Extended(ws, ss, <<g, "host">>, r, vs, rs)
    PROVE  vs \in [End -> Seq(Message)] /\ rs \in [End -> SUBSET Type] /\ Lines(types, open, vs, rs)
<1> DEFINE e == <<g, "host">>
<1>1. e \in End /\ e[1] \in open /\ ProgramAt(e) = Host /\ ProgramAt(Peer(e)) = g
  BY Ends
<1>2. Line(types[Host], types[g], ws[e], ss[e])
  <2>1. Line(types[ProgramAt(e)], types[ProgramAt(Peer(e))], ws[e], ss[e])
    <3> HIDE DEF e
    <3> QED BY <1>1 DEF Lines
  <2> QED BY <1>1, <2>1
<1>3. [shared |-> ss[e], sent |-> <<>>] \in Way(types[Host], types[g], ws[e])
  BY <1>2, WayBegins
<1>4. r \in Way(types[ProgramAt(e)], types[ProgramAt(Peer(e))], ws[e])
  BY <1>1, <1>3
<1> HIDE DEF e
<1>5. Extended(ws, ss, e, r, vs, rs)
  BY DEF e
<1> QED BY <1>1, <1>4, <1>5, LinesExtend

LEMMA HostHandling ==
    ASSUME IInv, NEW g \in Guest, g \in open, NEW m \in Message,
           NEW ws \in [End -> Seq(Message)], NEW ss \in [End -> SUBSET Type],
           NEW ts, Knowing(ts), Grown(types, ts), Lines(ts, open, ws, ss),
           m.kind = "descriptor" => m.type \in ts[Host],
           m.kind # "descriptor" => ts = types,
           Vouched(m) \subseteq types[g],
           HostHandles(g, m, ss, ws)
    PROVE  /\ wire' \in [End -> Seq(Message)] /\ shared' \in [End -> SUBSET Type]
           /\ Lines(ts, open, wire', shared')
           /\ group' \in [Type \cup DescriptorGroup -> SUBSET Guest] /\ Members(ts, group')
           /\ filled' \subseteq Cached
<1> DEFINE e == <<g, "host">>
           s == [shared |-> ss[e], sent |-> <<>>]
           q == ws[e]
           answered(r) == /\ shared' = [ss EXCEPT ![e] = r.shared]
                          /\ wire' = [ws EXCEPT ![e] = @ \o r.sent]
<1>1. /\ group \in [Type \cup DescriptorGroup -> SUBSET Guest] /\ filled \subseteq Cached
      /\ Members(types, group)
  BY DEF IInv, TypeOK
<1>2. q \in Seq(Message)
  BY Ends
<1>3. ASSUME NEW r, s \in Way(types[Host], types[g], q) => r \in Way(types[Host], types[g], q),
             answered(r), ts = types
      PROVE  /\ wire' \in [End -> Seq(Message)] /\ shared' \in [End -> SUBSET Type]
             /\ Lines(ts, open, wire', shared')
  <2>1. Extended(ws, ss, <<g, "host">>, r, wire', shared')
    BY <1>3 DEF Extended
  <2> QED BY <1>3, <2>1, HostAnswers
<1>4. Members(ts, group)
  <2>1. \A x \in Type : group[x] \subseteq Program
    BY <1>1 DEF Program
  <2> QED BY <1>1, <2>1 DEF Members, Grown
<1>5. CASE m.kind = "join" /\ answered(AnswerJoin(s, m.group))
           /\ group' = [group EXCEPT ![m.group] = @ \cup {g}] /\ filled' = filled
  <2>1. s \in Way(types[Host], types[g], q) =>
            AnswerJoin(s, m.group) \in Way(types[Host], types[g], q)
    <3> HIDE DEF s, q
    <3> QED BY <1>2, AnswersJoin
  <2>2. /\ wire' \in [End -> Seq(Message)] /\ shared' \in [End -> SUBSET Type]
        /\ Lines(ts, open, wire', shared')
    <3> HIDE DEF s, q, answered
    <3> QED BY <1>3, <1>5, <2>1
  <2>3. m.group \in Type \cup DescriptorGroup
    BY <1>5, Messages
  <2>4. group' = [group EXCEPT ![m.group] = @ \cup {g}]
    BY <1>5
  <2>5. group' \in [Type \cup DescriptorGroup -> SUBSET Guest]
    BY <1>1, <2>3, <2>4
  <2>6. Members(ts, group')
    <3> SUFFICES ASSUME NEW x \in Type, NEW h, h \in group'[x] PROVE x \in ts[h]
      BY DEF Members
    <3>0. h \in group'[x]
      OBVIOUS
    <3>1. h \in group[x] \/ (x = m.group /\ h = g)
      <4>1. x \in DOMAIN group
        BY <1>1
      <4>2. x # m.group => group'[x] = group[x]
        BY <2>4, <4>1
      <4>3. x = m.group => group'[x] = group[x] \cup {g}
        BY <2>4, <4>1
      <4> QED BY <3>0, <4>2, <4>3
    <3>2. CASE x = m.group /\ h = g
      <4>1. x \in types[g]
        BY <1>5, <3>2 DEF Vouched
      <4> QED BY <1>5, <3>2, <4>1
    <3> QED BY <1>4, <3>1, <3>2 DEF Members
  <2> QED BY <1>1, <1>5, <2>2, <2>5, <2>6
<1>6. CASE m.kind = "leave" /\ answered(s)
           /\ group' = [group EXCEPT ![m.group] = @ \ {g}] /\ filled' = filled
  <2>1. /\ wire' \in [End -> Seq(Message)] /\ shared' \in [End -> SUBSET Type]
        /\ Lines(ts, open, wire', shared')
    <3> HIDE DEF s, q, answered
    <3> QED BY <1>3, <1>6
  <2>2. group' = [group EXCEPT ![m.group] = @ \ {g}]
    BY <1>6
  <2>3. /\ group' \in [Type \cup DescriptorGroup -> SUBSET Guest]
        /\ \A x \in Type : group'[x] \subseteq group[x]
    BY <1>1, <2>2
  <2>4. Members(ts, group')
    BY <1>4, <2>3 DEF Members
  <2> QED BY <1>1, <1>6, <2>1, <2>3, <2>4
<1>7. CASE m.kind = "request" /\ answered(AnswerRequest(s, m.whiteList))
           /\ group' = group /\ filled' = filled
  <2>1. s \in Way(types[Host], types[g], q) =>
            AnswerRequest(s, m.whiteList) \in Way(types[Host], types[g], q)
    <3> HIDE DEF s, q
    <3> QED BY <1>2, AnswersRequest
  <2>2. /\ wire' \in [End -> Seq(Message)] /\ shared' \in [End -> SUBSET Type]
        /\ Lines(ts, open, wire', shared')
    <3> HIDE DEF s, q, answered
    <3> QED BY <1>3, <1>7, <2>1
  <2> QED BY <1>1, <1>4, <1>7, <2>2
<1>8. CASE m.kind = "descriptor" /\ TransmitGroup(ss, ws, Kind[m.type], m)
           /\ group' = group /\ filled' = filled
  <2>1. /\ wire' \in [End -> Seq(Message)] /\ shared' \in [End -> SUBSET Type]
        /\ Lines(ts, open, wire', shared')
    <3>1. m.kind \in {"descriptor", "instance"} /\ m.type \in ts[Host] /\ m.kind # "instance"
      BY <1>8
    <3>2. TransmitGroup(ss, ws, Kind[m.type], m)
      BY <1>8
    <3> HIDE DEF e, s, q, answered
    <3> QED BY <3>1, <3>2, Groups
  <2> QED BY <1>1, <1>4, <1>8, <2>1
<1>9. CASE m.kind = "instance" /\ TransmitGroup(ss, ws, m.type, m)
           /\ group' = group /\ filled' = filled \cup ({m.type} \cap Cached)
  <2>1. m.type \in Type
    BY <1>9, Messages DEF Struct
  <2>2. /\ wire' \in [End -> Seq(Message)] /\ shared' \in [End -> SUBSET Type]
        /\ Lines(ts, open, wire', shared')
    <3>1. m.kind \in {"descriptor", "instance"} /\ m.kind # "descriptor"
      BY <1>9
    <3>2. TransmitGroup(ss, ws, m.type, m)
      BY <1>9
    <3>3. \A h \in group[m.type] \cap open : h \in Guest => m.type \in ts[h]
      BY <1>4, <2>1 DEF Members
    <3> HIDE DEF e, s, q, answered
    <3> QED BY <3>1, <3>2, <3>3, Groups
  <2> QED BY <1>1, <1>4, <1>9, <2>2
<1>10. \/ m.kind = "join" /\ answered(AnswerJoin(s, m.group))
              /\ group' = [group EXCEPT ![m.group] = @ \cup {g}] /\ filled' = filled
       \/ m.kind = "leave" /\ answered(s)
              /\ group' = [group EXCEPT ![m.group] = @ \ {g}] /\ filled' = filled
       \/ m.kind = "request" /\ answered(AnswerRequest(s, m.whiteList))
              /\ group' = group /\ filled' = filled
       \/ m.kind = "descriptor" /\ TransmitGroup(ss, ws, Kind[m.type], m)
              /\ group' = group /\ filled' = filled
       \/ m.kind = "instance" /\ TransmitGroup(ss, ws, m.type, m)
              /\ group' = group /\ filled' = filled \cup ({m.type} \cap Cached)
  BY DEF HostHandles
<1> HIDE DEF e, s, q, answered
<1> QED BY <1>5, <1>6, <1>7, <1>8, <1>9, <1>10

LEMMA HostReceivePreserves ==
    ASSUME IInv, NEW g \in Guest, HostReceive(g)
    PROVE  IInv'
<1> DEFINE e == <<g, "host">>
           m == Head(wire[Peer(e)])
           ss == [shared EXCEPT ![e] = SharedAfter(e, m)]
           ws == [wire EXCEPT ![Peer(e)] = Tail(@)]
<1>1. g \in open /\ wire[Peer(e)] # <<>>
  BY DEF HostReceive
<1>2. e \in End /\ e[1] = g /\ ProgramAt(e) = Host /\ ProgramAt(Peer(e)) = g
  BY Ends
<1>3. /\ types' = [types EXCEPT ![Host] = Import(e, m).known]
      /\ names' = [names EXCEPT ![e] = NamesAfter(e, m)]
      /\ UNCHANGED <<joined, calls, connects>>
  BY DEF HostReceive
<1>4. Import(e, m).ok => HostHandles(g, m, ss, ws) /\ UNCHANGED <<open, failed>>
  BY DEF HostReceive
<1>5. Import(e, m).ok
  <2> HIDE DEF e
  <2> QED BY <1>1, <1>2, Imports
<1>6. Received(e, m, types', names', ss, ws)
  BY <1>2, <1>3 DEF Received
<1> HIDE DEF e, m, ss, ws
<1>7. /\ m \in Message
      /\ Knowing(types') /\ Grown(types, types') /\ Named(types', names')
      /\ names' \in [End -> SUBSET Type] /\ ss \in [End -> SUBSET Type]
      /\ ws \in [End -> Seq(Message)]
      /\ Lines(types', open, ws, ss)
      /\ Vouched(m) \subseteq types[g]
      /\ m.kind = "descriptor" => m.type \in types'[Host]
      /\ m.kind # "descriptor" => types' = types
  BY <1>1, <1>2, <1>6, Receives
<1>8. /\ wire' \in [End -> Seq(Message)] /\ shared' \in [End -> SUBSET Type]
      /\ Lines(types', open, wire', shared')
      /\ group' \in [Type \cup DescriptorGroup -> SUBSET Guest] /\ Members(types', group')
      /\ filled' \subseteq Cached
  <2>1. HostHandles(g, m, ss, ws)
    BY <1>4, <1>5
  <2> QED BY <1>1, <1>7, <2>1, HostHandling
<1>9. UNCHANGED <<open, failed, joined, calls, connects>>
  BY <1>3, <1>4, <1>5
<1>10. TypeOK'
  BY <1>7, <1>8, <1>9 DEF IInv, TypeOK, Knowing
<1> QED BY <1>7, <1>8, <1>9, <1>10 DEF IInv

LEMMA HostPublishPreserves ==
    ASSUME IInv, NEW t \in Type, HostPublish(t)
    PROVE  IInv'
<1>1. /\ t \in types[Host] /\ t \in Struct
      /\ TransmitGroup(shared, wire, t, Instance(t))
      /\ filled' = filled \cup ({t} \cap Cached) /\ calls' = calls + 1
      /\ UNCHANGED <<types, names, open, group, joined, failed, connects>>
  BY DEF HostPublish, Publishable, Call
<1>2. Instance(t) \in Message /\ Instance(t).kind = "instance" /\ Instance(t).type = t
  BY <1>1 DEF Message, Instance
<1>3. /\ Knowing(types) /\ wire \in [End -> Seq(Message)] /\ shared \in [End -> SUBSET Type]
      /\ Lines(types, open, wire, shared) /\ Members(types, group)
  BY DEF IInv, TypeOK
<1>4. /\ wire' \in [End -> Seq(Message)] /\ shared' \in [End -> SUBSET Type]
      /\ Lines(types, open, wire', shared')
  <2>1. \A g \in group[t] \cap open : g \in Guest => Instance(t).type \in types[g]
    BY <1>2, <1>3 DEF Members
  <2>2. Instance(t).kind \in {"descriptor", "instance"} /\ Instance(t).kind # "descriptor"
    BY <1>2
  <2> QED BY <1>1, <1>2, <1>3, <2>1, <2>2, Groups
<1>5. TypeOK'
  BY <1>1, <1>4 DEF IInv, TypeOK
<1> QED BY <1>1, <1>4, <1>5 DEF IInv, Knowing, Named, Members

LEMMA Inductive ==
    ASSUME IInv, [Next]_vars
    PROVE  IInv'
<1>1. CASE Next
  <2>1. ASSUME NEW g \in Guest, Connect(g) PROVE IInv'
    BY <2>1, ConnectPreserves
  <2>2. ASSUME NEW g \in Guest, Disconnect(g) PROVE IInv'
    BY <2>2, DisconnectPreserves
  <2>3. ASSUME NEW g \in Guest, GuestReceive(g) PROVE IInv'
    BY <2>3, GuestReceivePreserves
  <2>4. ASSUME NEW g \in Guest, HostReceive(g) PROVE IInv'
    BY <2>4, HostReceivePreserves
  <2>5. ASSUME NEW g \in Guest, NEW t \in Type, Publish(g, t) PROVE IInv'
    BY <2>5, PublishPreserves
  <2>6. ASSUME NEW g \in Guest, NEW x \in Type \cup DescriptorGroup, Subscribe(g, x) PROVE IInv'
    BY <2>6, SubscribePreserves
  <2>7. ASSUME NEW g \in Guest, NEW x \in Type \cup DescriptorGroup, LeaveGroup(g, x) PROVE IInv'
    BY <2>7, LeaveGroupPreserves
  <2>8. ASSUME NEW g \in Guest, NEW w \in WhiteLists, RequestDescriptors(g, w) PROVE IInv'
    BY <2>8, RequestPreserves
  <2>9. ASSUME NEW p \in Program, NEW t \in Type, Register(p, t) PROVE IInv'
    BY <2>9, RegisterPreserves
  <2>10. ASSUME NEW t \in Type, HostPublish(t) PROVE IInv'
    BY <2>10, HostPublishPreserves
  <2> QED BY <1>1, <2>1, <2>2, <2>3, <2>4, <2>5, <2>6, <2>7, <2>8, <2>9, <2>10 DEF Next
<1>2. CASE UNCHANGED vars
  BY <1>2 DEF vars, IInv, TypeOK, Knowing, Named, Lines, Members
<1> QED BY <1>1, <1>2

LEMMA AlwaysInOrder == Spec => []IInv
<1>1. IInv /\ [Next]_vars => IInv'
  BY Inductive
<1> QED BY <1>1, Initially, PTL DEF Spec

-----------------------------------------------------------------------------
(* What follows *)

(* A registry holds types, a wire transmissions, a group guests, whatever  *)
(* is transmitted and received.                                            *)
THEOREM TypeCorrect == Spec => []TypeOK
<1>1. IInv => TypeOK
  BY DEF IInv
<1> QED BY <1>1, AlwaysInOrder, PTL

(* No channel meets an instance, or a property in a descriptor, of a type  *)
(* that its program does not know, so that neither importDependencies nor  *)
(* deserializeTransmission ends a connection for the want of a type.       *)
THEOREM NothingIsMissing == Spec => []NoMissingType
<1>1. IInv => NoMissingType
  BY DEF IInv, NoMissingType
<1> QED BY <1>1, AlwaysInOrder, PTL

(* What an end counts in m_sharedTypeDescriptors its peer knows, or its    *)
(* descriptor is on the way; and every registry has the types its types    *)
(* use.                                                                    *)
THEOREM SharedTypesAreKnown == Spec => []SharedIsKnown
<1>1. IInv => SharedIsKnown
  <2> SUFFICES ASSUME IInv PROVE SharedIsKnown
    OBVIOUS
  <2>1. ASSUME NEW g \in open, NEW side \in {"guest", "host"},
               NEW t \in shared[<<g, side>>], Kind[t] # "vector"
        PROVE  \/ t \in types[ProgramAt(Peer(<<g, side>>))]
               \/ Descriptor(t) \in Range(wire[<<g, side>>])
    <3> DEFINE e == <<g, side>>
    <3>1. e \in End /\ e[1] \in open
      BY DEF IInv, TypeOK, End
    <3> HIDE DEF e
    <3>2. Line(types[ProgramAt(e)], types[ProgramAt(Peer(e))], wire[e], shared[e])
      BY <3>1 DEF IInv, Lines
    <3>3. t \in shared[e]
      BY DEF e
    <3>4. t \in types[ProgramAt(Peer(e))] \/ In(Descriptor(t), wire[e])
      BY <2>1, <3>2, <3>3 DEF Line, Backed, Element
    <3>5. In(Descriptor(t), wire[e]) => Descriptor(t) \in Range(wire[e])
      <4>1. wire[e] \in Seq(Message)
        BY <3>2 DEF Line
      <4>2. DOMAIN wire[e] = 1..Len(wire[e])
        BY <4>1, LenProperties
      <4> QED BY <4>2 DEF In, Range
    <3> QED BY <3>4, <3>5 DEF e
  <2>2. \A p \in Program : Closed(types[p])
    BY DEF IInv, Knowing
  <2> QED BY <2>1, <2>2 DEF SharedIsKnown
<1> QED BY <1>1, AlwaysInOrder, PTL
=============================================================================
