------------------------- MODULE DistributionProofs -------------------------
(***************************************************************************)
(* Proofs about Distribution: for any guests, connections, keys, values    *)
(* and publications.                                                       *)
(***************************************************************************)
EXTENDS Distribution, FiniteSetTheorems, SequenceTheorems, WellFoundedInduction, TLAPS

-----------------------------------------------------------------------------
(* Induction *)

(* Every set of naturals has a least element.                              *)
LEMMA LeastNatural ==
    ASSUME NEW S \in SUBSET Nat, S # {}
    PROVE  \E m \in S : \A n \in S : m <= n
<1> DEFINE R == OpToRel(<, Nat)
<1>1. IsWellFoundedOn(R, Nat)
  BY NatLessThanWellFounded
<1>2. PICK m \in S : \A n \in S : ~(<<n, m>> \in R)
  <2> HIDE DEF R
  <2> QED
    BY <1>1, WFMin
<1>3. ASSUME NEW n \in S, n < m PROVE <<n, m>> \in R
  BY <1>3 DEF OpToRel
<1>4. ASSUME NEW n \in S PROVE m <= n
  <2> HIDE DEF R
  <2>1. m \in Nat /\ n \in Nat /\ ~(n < m)
    BY <1>2, <1>3
  <2> QED
    BY <2>1
<1> QED
  BY <1>4

(* What holds of 0, and of a number with the one before it, holds of all.  *)
LEMMA Upto ==
    ASSUME NEW K \in Nat, NEW S, 0 \in S, \A n \in 1..K : n - 1 \in S => n \in S
    PROVE  \A n \in 0..K : n \in S
<1> DEFINE Bad == {n \in 0..K : n \notin S}
<1>1. SUFFICES ASSUME Bad # {} PROVE FALSE
  OBVIOUS
<1>2. PICK m \in Bad : \A n \in Bad : m <= n
  <2>1. Bad \in SUBSET Nat
    OBVIOUS
  <2> HIDE DEF Bad
  <2> QED
    BY <1>1, <2>1, LeastNatural
<1>3. m \in 1..K /\ m - 1 \in 0..K
  OBVIOUS
<1>4. m - 1 \notin Bad
  <2>1. m \in Nat /\ ~(m <= m - 1)
    BY <1>3
  <2> HIDE DEF Bad
  <2> QED
    BY <1>2, <2>1
<1> QED
  BY <1>3, <1>4

-----------------------------------------------------------------------------
(* Keys in their order *)

(* A finite set of integers has a greatest member.                         *)
LEMMA Greatest ==
    ASSUME NEW K \in Nat, NEW S \in SUBSET Int, IsFiniteSet(S), Cardinality(S) = K, K # 0
    PROVE  \E x \in S : \A y \in S : y <= x
<1> DEFINE Good == {n \in 0..K : \A T \in SUBSET S : T # {} /\ Cardinality(T) = n =>
                                     \E x \in T : \A y \in T : y <= x}
<1>1. 0 \in Good
  <2>1. ASSUME NEW T \in SUBSET S, Cardinality(T) = 0 PROVE T = {}
    <3>1. IsFiniteSet(T)
      BY FS_Subset
    <3> QED
      BY <2>1, <3>1, FS_EmptySet
  <2>2. 0 \in 0..K
    OBVIOUS
  <2> QED
    BY <2>1, <2>2, Zenon
<1>2. ASSUME NEW n \in 1..K, n - 1 \in Good PROVE n \in Good
  <2> SUFFICES ASSUME NEW T \in SUBSET S, T # {}, Cardinality(T) = n
               PROVE  \E x \in T : \A y \in T : y <= x
    OBVIOUS
  <2>1. PICK x : x \in T
    OBVIOUS
  <2>2. IsFiniteSet(T)
    BY FS_Subset
  <2>3. Cardinality(T \ {x}) = n - 1
    BY <2>1, <2>2, FS_RemoveElement
  <2>4. CASE T \ {x} = {}
    BY <2>1, <2>4
  <2>5. CASE T \ {x} # {}
    <3>1. PICK z \in T \ {x} : \A y \in T \ {x} : y <= z
      BY <1>2, <2>3, <2>5
    <3>2. CASE x <= z
      BY <3>1, <3>2
    <3>3. CASE ~(x <= z)
      <4>1. \A y \in T : y = x \/ y <= z
        BY <3>1
      <4>2. x \in Int /\ z \in Int /\ \A y \in T : y \in Int
        BY <2>1
      <4>3. \A y \in T : y <= x
        BY <3>3, <4>1, <4>2
      <4> QED
        BY <2>1, <4>3
    <3> QED
      BY <3>2, <3>3
  <2> QED
    BY <2>4, <2>5
<1> HIDE DEF Good
<1>3. K \in Good
  <2>1. \A n \in 0..K : n \in Good
    BY <1>1, <1>2, Upto
  <2> QED
    BY <2>1
<1>4. S # {}
  BY FS_EmptySet
<1> QED
  BY <1>3, <1>4 DEF Good

Ordered(s, S) ==
    /\ s \in [1..Cardinality(S) -> S]
    /\ \A i, j \in DOMAIN s : i < j => s[i] < s[j]

(* A finite set of keys can be put in order, without leaving one out.      *)
LEMMA Order ==
    ASSUME NEW K \in Nat, NEW S \in SUBSET Int, IsFiniteSet(S), Cardinality(S) = K
    PROVE  /\ Ordered(InKeyOrder(S), S)
           /\ \A k \in S : \E i \in 1..K : InKeyOrder(S)[i] = k
<1> DEFINE Good == {n \in 0..K : \A T \in SUBSET S : Cardinality(T) = n => \E s : Ordered(s, T)}
<1>1. 0 \in Good
  <2> SUFFICES ASSUME NEW T \in SUBSET S, Cardinality(T) = 0 PROVE \E s : Ordered(s, T)
    OBVIOUS
  <2>1. T = {}
    <3>1. IsFiniteSet(T)
      BY FS_Subset
    <3> QED
      BY <3>1, FS_EmptySet
  <2> DEFINE s == [i \in {} |-> 0]
  <2>2. 1..Cardinality(T) = {}
    OBVIOUS
  <2>3. Ordered(s, T)
    BY <2>1, <2>2 DEF Ordered
  <2> QED
    BY <2>3
<1>2. ASSUME NEW n \in 1..K, n - 1 \in Good PROVE n \in Good
  <2> SUFFICES ASSUME NEW T \in SUBSET S, Cardinality(T) = n PROVE \E s : Ordered(s, T)
    OBVIOUS
  <2>0. IsFiniteSet(T)
    BY FS_Subset
  <2>1. IsFiniteSet(T) /\ n \in Nat /\ n # 0 /\ T \in SUBSET Int
    BY <2>0
  <2>2. PICK x \in T : \A y \in T : y <= x
    BY <2>1, Greatest
  <2>3. Cardinality(T \ {x}) = n - 1
    BY <2>1, FS_RemoveElement
  <2>4. PICK s : Ordered(s, T \ {x})
    BY <1>2, <2>3
  <2>5. /\ s \in [1..n - 1 -> T \ {x}]
        /\ \A i, j \in 1..n - 1 : i < j => s[i] < s[j]
    BY <2>3, <2>4 DEF Ordered
  <2> DEFINE t == [i \in 1..n |-> IF i = n THEN x ELSE s[i]]
  <2>6. \A i \in 1..n : i = n \/ i \in 1..n - 1
    BY <2>1
  <2>7. t \in [1..n -> T]
    BY <2>5, <2>6
  <2>8. ASSUME NEW i \in 1..n, NEW j \in 1..n, i < j PROVE t[i] < t[j]
    <3>1. i # n /\ i \in 1..n - 1
      BY <2>1, <2>8
    <3>2. CASE j = n
      <4>1. s[i] \in T /\ s[i] # x /\ s[i] <= x
        BY <2>2, <2>5, <3>1
      <4>2. s[i] < x
        <5>1. s[i] \in Int /\ x \in Int
          BY <2>1, <4>1
        <5> QED
          BY <4>1, <5>1
      <4>3. t[i] = s[i] /\ t[j] = x
        BY <3>1, <3>2
      <4> QED
        BY <4>2, <4>3
    <3>3. CASE j # n
      BY <2>5, <2>6, <3>1, <3>3, <2>8
    <3> QED
      BY <3>2, <3>3
  <2> HIDE DEF t
  <2>9. Ordered(t, T)
    BY <2>7, <2>8 DEF Ordered
  <2> QED
    BY <2>9
<1> HIDE DEF Good
<1>3. K \in Good
  <2>1. \A n \in 0..K : n \in Good
    BY <1>1, <1>2, Upto
  <2> QED
    BY <2>1
<1>4. \E s : Ordered(s, S)
  BY <1>3 DEF Good
<1> DEFINE f == InKeyOrder(S)
<1>5. Ordered(f, S)
  <2> DEFINE P(s) == s \in [1..Cardinality(S) -> S] /\ \A i, j \in DOMAIN s : i < j => s[i] < s[j]
  <2>1. P(CHOOSE s : P(s))
    <3> HIDE DEF P
    <3>1. \E s : P(s)
      BY <1>4 DEF Ordered, P
    <3> QED
      BY <3>1, Zenon
  <2>2. P(CHOOSE s \in [1..Cardinality(S) -> S] : \A i, j \in DOMAIN s : i < j => s[i] < s[j])
    BY <2>1, Zenon
  <2> QED
    BY <2>2, Zenon DEF InKeyOrder, Ordered
<1> HIDE DEF f
<1>6. IsInjective(f)
  <2>1. f \in [1..K -> S] /\ \A i, j \in 1..K : i < j => f[i] < f[j]
    BY <1>5 DEF Ordered
  <2>2. \A i \in 1..K : f[i] \in Int
    BY <2>1
  <2>3. ASSUME NEW i \in 1..K, NEW j \in 1..K, f[i] = f[j] PROVE i = j
    <3>1. ~(f[i] < f[j]) /\ ~(f[j] < f[i])
      BY <2>2, <2>3
    <3>2. ~(i < j) /\ ~(j < i)
      BY <2>1, <3>1
    <3> QED
      BY <3>2
  <2> QED
    BY <2>1, <2>3 DEF IsInjective
<1>7. f \in Surjection(1..K, S)
  <2>1. f \in Injection(1..K, S)
    BY <1>5, <1>6 DEF Ordered, Injection
  <2>2. Cardinality(1..K) = K
    BY FS_Interval
  <2> QED
    BY <2>1, <2>2, FS_Injection
<1>8. \A k \in S : \E i \in 1..K : f[i] = k
  BY <1>7 DEF Surjection
<1> QED
  BY <1>5, <1>8 DEF f

-----------------------------------------------------------------------------
(* Transmissions applied one after the other *)

Run(f, c, ms, k) == f = [n \in 0..k |-> IF n = 0 THEN c ELSE Apply(f[n - 1], ms[n])]

(* Stages is what its recursion says.                                      *)
LEMMA StagesDef ==
    ASSUME NEW c, NEW ms, Len(ms) \in Nat
    PROVE  /\ DOMAIN Stages(c, ms) = 0..Len(ms)
           /\ Stages(c, ms)[0] = c
           /\ \A n \in 1..Len(ms) : Stages(c, ms)[n] = Apply(Stages(c, ms)[n - 1], ms[n])
<1> DEFINE S == {k \in Nat : \E f : Run(f, c, ms, k)}
<1>1. 0 \in S
  <2> DEFINE f == [n \in 0..0 |-> c]
  <2>1. Run(f, c, ms, 0)
    BY DEF Run
  <2> QED
    BY <2>1
<1>2. ASSUME NEW k \in 1..Len(ms), k - 1 \in S PROVE k \in S
  <2>1. PICK f : Run(f, c, ms, k - 1)
    BY <1>2
  <2>2. /\ DOMAIN f = 0..k - 1
        /\ \A n \in 0..k - 1 : f[n] = IF n = 0 THEN c ELSE Apply(f[n - 1], ms[n])
    BY <2>1 DEF Run
  <2> DEFINE g == [n \in 0..k |-> IF n < k THEN f[n] ELSE Apply(f[k - 1], ms[k])]
  <2>3. k \in Nat /\ k >= 1
    OBVIOUS
  <2>4. ASSUME NEW n \in 0..k PROVE g[n] = IF n = 0 THEN c ELSE Apply(g[n - 1], ms[n])
    <3>1. CASE n = k
      <4>1. g[n] = Apply(f[k - 1], ms[k]) /\ g[n - 1] = f[k - 1] /\ n # 0
        BY <2>3, <3>1
      <4> QED
        BY <3>1, <4>1
    <3>2. CASE n = 0
      BY <2>2, <2>3, <3>2
    <3>3. CASE n # k /\ n # 0
      <4>1. n < k /\ n \in 0..k - 1 /\ n - 1 \in 0..k /\ n - 1 < k
        BY <2>3, <3>3
      <4>2. g[n] = f[n] /\ g[n - 1] = f[n - 1]
        BY <4>1
      <4> QED
        BY <2>2, <3>3, <4>1, <4>2
    <3> QED
      BY <3>1, <3>2, <3>3
  <2>5. g = [n \in 0..k |-> g[n]]
    OBVIOUS
  <2> HIDE DEF g
  <2>6. Run(g, c, ms, k)
    BY <2>4, <2>5 DEF Run
  <2> QED
    BY <2>3, <2>6
<1>3. \E f : Run(f, c, ms, Len(ms))
  <2> HIDE DEF S
  <2>1. \A n \in 0..Len(ms) : n \in S
    BY <1>1, <1>2, Upto
  <2>2. Len(ms) \in 0..Len(ms)
    OBVIOUS
  <2> QED
    BY <2>1, <2>2 DEF S
<1>4. Run(Stages(c, ms), c, ms, Len(ms))
  <2> DEFINE P(f) == Run(f, c, ms, Len(ms))
  <2>1. P(CHOOSE f : P(f))
    <3> HIDE DEF P
    <3>1. \E f : P(f)
      BY <1>3 DEF P
    <3> QED
      BY <3>1, Zenon
  <2> QED
    BY <2>1, Zenon DEF Stages, Run
<1> DEFINE s == Stages(c, ms)
<1>5. s = [n \in 0..Len(ms) |-> IF n = 0 THEN c ELSE Apply(s[n - 1], ms[n])]
  BY <1>4, Zenon DEF Run
<1> HIDE DEF s, S
<1>6. DOMAIN s = 0..Len(ms) /\ \A n \in 0..Len(ms) : s[n] = IF n = 0 THEN c ELSE Apply(s[n - 1], ms[n])
  BY <1>5
<1>7. \A n \in 1..Len(ms) : n \in 0..Len(ms) /\ n # 0
  OBVIOUS
<1>8. 0 \in 0..Len(ms)
  OBVIOUS
<1> QED
  BY <1>6, <1>7, <1>8 DEF s

(* The first transmission can be taken on its own.                         *)
LEMMA StagesTail ==
    ASSUME NEW M, NEW c, NEW ms \in Seq(M), ms # <<>>
    PROVE  /\ Len(Tail(ms)) = Len(ms) - 1 /\ Len(ms) \in Nat \ {0}
           /\ \A n \in 0..Len(ms) - 1 :
                  Stages(Apply(c, Head(ms)), Tail(ms))[n] = Stages(c, ms)[n + 1]
<1> DEFINE K == Len(ms) - 1
           s == Stages(c, ms)
           t == Stages(Apply(c, Head(ms)), Tail(ms))
           S == {n \in 0..K : t[n] = s[n + 1]}
<1>1. /\ Len(ms) \in Nat \ {0} /\ K \in Nat /\ Len(Tail(ms)) = K /\ Head(ms) = ms[1]
      /\ \A n \in 1..K : Tail(ms)[n] = ms[n + 1]
  BY EmptySeq, LenProperties, HeadTailProperties
<1>2. /\ t[0] = Apply(c, ms[1])
      /\ \A n \in 1..K : t[n] = Apply(t[n - 1], Tail(ms)[n])
  <2> DEFINE q == Tail(ms)
             d == Apply(c, Head(ms))
  <2>1. Len(q) = K /\ Len(q) \in Nat /\ d = Apply(c, ms[1])
    BY <1>1
  <2> HIDE DEF q, d
  <2>2. /\ Stages(d, q)[0] = d
        /\ \A n \in 1..Len(q) : Stages(d, q)[n] = Apply(Stages(d, q)[n - 1], q[n])
    BY <2>1, StagesDef
  <2> QED
    BY <2>1, <2>2 DEF q, d
<1>3. /\ s[0] = c
      /\ \A n \in 1..Len(ms) : s[n] = Apply(s[n - 1], ms[n])
  BY <1>1, StagesDef
<1> HIDE DEF s, t
<1>4. 0 \in S
  BY <1>1, <1>2, <1>3
<1>5. ASSUME NEW n \in 1..K, n - 1 \in S PROVE n \in S
  <2>1. n - 1 + 1 = n /\ n + 1 \in 1..Len(ms) /\ n + 1 - 1 = n
    BY <1>1
  <2>2. t[n - 1] = s[n]
    BY <1>5, <2>1
  <2>3. t[n] = Apply(s[n], ms[n + 1])
    BY <1>1, <1>2, <2>2
  <2>4. s[n + 1] = Apply(s[n], ms[n + 1])
    BY <1>3, <2>1
  <2> QED
    BY <2>3, <2>4
<1> HIDE DEF S
<1>6. \A n \in 0..K : n \in S
  BY <1>1, <1>4, <1>5, Upto
<1> QED
  BY <1>1, <1>6 DEF S, s, t

(* Further transmissions go on from where the earlier ones have led to.    *)
LEMMA StagesConcat ==
    ASSUME NEW M, NEW c, NEW ms \in Seq(M), NEW ns \in Seq(M)
    PROVE  /\ Len(ms \o ns) = Len(ms) + Len(ns)
           /\ \A n \in 0..Len(ms) : Stages(c, ms \o ns)[n] = Stages(c, ms)[n]
<1> DEFINE all == ms \o ns
           s == Stages(c, ms)
           u == Stages(c, all)
           S == {n \in 0..Len(ms) : u[n] = s[n]}
<1>1. /\ Len(ms) \in Nat /\ Len(ns) \in Nat /\ Len(all) = Len(ms) + Len(ns)
      /\ \A n \in 1..Len(ms) : all[n] = ms[n]
  OBVIOUS
<1> HIDE DEF all
<1>2. /\ s[0] = c /\ u[0] = c
      /\ \A n \in 1..Len(ms) : s[n] = Apply(s[n - 1], ms[n])
      /\ \A n \in 1..Len(all) : u[n] = Apply(u[n - 1], all[n])
  <2>1. s[0] = c /\ \A n \in 1..Len(ms) : s[n] = Apply(s[n - 1], ms[n])
    BY <1>1, StagesDef
  <2>2. Len(all) \in Nat
    BY <1>1
  <2>3. u[0] = c /\ \A n \in 1..Len(all) : u[n] = Apply(u[n - 1], all[n])
    BY <2>2, StagesDef
  <2> QED
    BY <2>1, <2>3
<1> HIDE DEF s, u
<1>3. 0 \in S
  BY <1>1, <1>2
<1>4. ASSUME NEW n \in 1..Len(ms), n - 1 \in S PROVE n \in S
  <2>1. n \in 1..Len(all)
    BY <1>1
  <2> QED
    BY <1>1, <1>2, <1>4, <2>1
<1>5. \A n \in 0..Len(ms) : n \in S
  <2> HIDE DEF S
  <2> QED
    BY <1>1, <1>3, <1>4, Upto
<1> QED
  BY <1>1, <1>5 DEF S, s, u, all

LEMMA StagesAfter ==
    ASSUME NEW M, NEW c, NEW ms \in Seq(M), NEW ns \in Seq(M), NEW i \in 0..Len(ns)
    PROVE  Stages(c, ms \o ns)[Len(ms) + i] = Stages(ApplyAll(c, ms), ns)[i]
<1> DEFINE all == ms \o ns
           t == Stages(ApplyAll(c, ms), ns)
           u == Stages(c, all)
           T == {n \in 0..Len(ns) : u[Len(ms) + n] = t[n]}
<1>1. /\ Len(ms) \in Nat /\ Len(ns) \in Nat /\ Len(all) = Len(ms) + Len(ns)
      /\ \A n \in 1..Len(ns) : all[Len(ms) + n] = ns[n]
  OBVIOUS
<1>2. u[Len(ms)] = ApplyAll(c, ms)
  <2>1. Len(ms) \in 0..Len(ms)
    BY <1>1
  <2> QED
    BY <2>1, StagesConcat DEF ApplyAll
<1> HIDE DEF all
<1>3. /\ t[0] = ApplyAll(c, ms)
      /\ \A n \in 1..Len(ns) : t[n] = Apply(t[n - 1], ns[n])
      /\ \A n \in 1..Len(all) : u[n] = Apply(u[n - 1], all[n])
  <2> DEFINE d == ApplyAll(c, ms)
  <2> HIDE DEF d
  <2>1. /\ Stages(d, ns)[0] = d
        /\ \A n \in 1..Len(ns) : Stages(d, ns)[n] = Apply(Stages(d, ns)[n - 1], ns[n])
    BY <1>1, StagesDef
  <2>2. Len(all) \in Nat
    BY <1>1
  <2>3. \A n \in 1..Len(all) : u[n] = Apply(u[n - 1], all[n])
    BY <2>2, StagesDef
  <2> QED
    BY <2>1, <2>3 DEF d
<1> HIDE DEF t, u
<1>4. 0 \in T
  <2>1. Len(ms) + 0 = Len(ms) /\ 0 \in 0..Len(ns)
    BY <1>1
  <2> QED
    BY <1>2, <1>3, <2>1
<1>5. ASSUME NEW n \in 1..Len(ns), n - 1 \in T PROVE n \in T
  <2>1. /\ Len(ms) + n \in 1..Len(all) /\ Len(ms) + n - 1 = Len(ms) + (n - 1)
        /\ n \in 0..Len(ns)
    BY <1>1
  <2>2. u[Len(ms) + n] = Apply(t[n - 1], all[Len(ms) + n])
    BY <1>3, <1>5, <2>1
  <2>3. t[n] = Apply(t[n - 1], ns[n])
    BY <1>3
  <2> QED
    BY <1>1, <2>1, <2>2, <2>3
<1>6. \A n \in 0..Len(ns) : n \in T
  <2> HIDE DEF T
  <2> QED
    BY <1>1, <1>4, <1>5, Upto
<1>7. i \in T
  BY <1>6
<1> QED
  BY <1>7 DEF T, t, u, all

-----------------------------------------------------------------------------
(* Transmissions and containers *)

(* What is transmitted is an instance, with nothing but the properties     *)
(* included.                                                               *)
LEMMA WireFacts ==
    ASSUME NEW senders, NEW m \in DataFrom(senders)
    PROVE  /\ Wire(m) \in DataFrom(senders)
           /\ Wire(m).kind = "data" /\ Wire(m).key = m.key /\ Wire(m).remove = m.remove
           /\ Wire(m).sender = m.sender /\ Wire(m).included = m.included
           /\ \A p \in Prop : Wire(m).inst[p] = IF p \in m.included THEN m.inst[p] ELSE Unset
           /\ Whole(Wire(m))
<1> DEFINE i == [p \in Prop |-> IF p \in m.included THEN m.inst[p] ELSE Unset]
<1>1. /\ m.kind = "data" /\ m.inst \in [Prop -> Val \cup {Unset}]
      /\ m \in [kind : {"data"}, key : Key, inst : Instance,
                included : SUBSET Prop, remove : BOOLEAN, sender : senders]
  BY DEF DataFrom, Instance
<1>2. Wire(m) = [m EXCEPT !.inst = i]
  BY <1>1 DEF Wire
<1>3. i \in Instance
  BY <1>1 DEF Instance
<1> HIDE DEF i
<1>4. /\ Wire(m) \in DataFrom(senders)
      /\ Wire(m).kind = "data" /\ Wire(m).key = m.key /\ Wire(m).remove = m.remove
      /\ Wire(m).sender = m.sender /\ Wire(m).included = m.included
      /\ Wire(m).inst = i
  BY <1>1, <1>2, <1>3 DEF DataFrom
<1>5. Whole(Wire(m))
  BY <1>4 DEF Whole, Valid, i
<1> QED
  BY <1>4, <1>5 DEF i

LEMMA DataFacts ==
    ASSUME NEW senders, NEW k \in Key, NEW inst \in Instance, NEW included \in SUBSET Prop,
           NEW remove \in BOOLEAN, NEW s \in senders
    PROVE  /\ Data(k, inst, included, remove, s) \in DataFrom(senders)
           /\ Data(k, inst, included, remove, s).kind = "data"
           /\ Data(k, inst, included, remove, s).key = k
           /\ Data(k, inst, included, remove, s).inst = inst
           /\ Data(k, inst, included, remove, s).included = included
           /\ Data(k, inst, included, remove, s).remove = remove
           /\ Data(k, inst, included, remove, s).sender = s
BY DEF Data, DataFrom

LEMMA BlankFacts == Blank \in Instance /\ Valid(Blank) = {}
BY DEF Blank, Instance, Valid

(* What programs publish.                                                  *)
LEMMA PublicationFacts ==
    ASSUME NEW s, NEW m \in Publications(s)
    PROVE  m \in DataFrom({s})
<1>1. CASE \E k \in Key :
               m = [kind |-> "data", key |-> k, inst |-> Blank, included |-> {},
                    remove |-> TRUE, sender |-> s]
  <2>1. {} \in SUBSET Prop
    OBVIOUS
  <2> QED
    BY <1>1, <2>1, BlankFacts DEF DataFrom
<1>2. CASE \E k \in Key, inst \in Instance, included \in SUBSET Prop :
               m = [kind |-> "data", key |-> k, inst |-> inst, included |-> included,
                    remove |-> FALSE, sender |-> s]
  BY <1>2 DEF DataFrom
<1> QED
  BY <1>1, <1>2 DEF Publications, Data

(* What the host receives is stamped with the connection.                  *)
LEMMA StampFacts ==
    ASSUME NEW c \in Conn, NEW m \in DataFrom({NoConn})
    PROVE  /\ FromPeer(c, m) \in DataFrom({c}) /\ FromPeer(c, m).sender = c
           /\ FromPeer(c, m).kind = "data"
           /\ Whole(m) => Whole(FromPeer(c, m))
<1>1. m \in [kind : {"data"}, key : Key, inst : Instance,
              included : SUBSET Prop, remove : BOOLEAN, sender : {NoConn}]
  BY DEF DataFrom
<1>2. m.kind = "data"
  BY <1>1
<1>3. FromPeer(c, m) = [m EXCEPT !.sender = c]
  BY <1>2 DEF FromPeer
<1> DEFINE d == [m EXCEPT !.sender = c]
<1>4. /\ d \in [kind : {"data"}, key : Key, inst : Instance,
                included : SUBSET Prop, remove : BOOLEAN, sender : {c}]
      /\ d.sender = c /\ d.kind = "data" /\ d.inst = m.inst /\ d.included = m.included
  BY <1>1
<1> HIDE DEF d
<1>5. Whole(m) => Whole(d)
  BY <1>4 DEF Whole
<1> QED
  BY <1>3, <1>4, <1>5 DEF DataFrom, d

LEMMA EmptyFacts == IsContainer(Empty) /\ DOMAIN Empty = {} /\ IsFiniteSet(DOMAIN Empty)
<1>1. DOMAIN Empty = {} /\ Empty \in [{} -> Entry]
  BY DEF Empty
<1> QED
  BY <1>1, FS_EmptySet DEF IsContainer

(* What one transmission makes of a container.                             *)
LEMMA ApplyFacts ==
    ASSUME NEW c, IsContainer(c), NEW m \in DataFrom(Sender)
    PROVE  /\ IsContainer(Apply(c, m))
           /\ m.remove => /\ DOMAIN Apply(c, m) = DOMAIN c \ {m.key}
                          /\ \A k \in DOMAIN c \ {m.key} : Apply(c, m)[k] = c[k]
           /\ ~m.remove => /\ DOMAIN Apply(c, m) = DOMAIN c \cup {m.key}
                           /\ \A k \in DOMAIN c \ {m.key} : Apply(c, m)[k] = c[k]
                           /\ Apply(c, m)[m.key].lastUpdateFrom = m.sender
                           /\ Apply(c, m)[m.key].inst = IF m.key \in DOMAIN c
                                                        THEN Merge(c[m.key].inst, m) ELSE m.inst
<1>1. /\ m.kind = "data" /\ m.key \in Key /\ m.inst \in Instance /\ m.sender \in Sender
      /\ m.remove \in BOOLEAN /\ m.included \in SUBSET Prop
  BY DEF DataFrom
<1>2. DOMAIN c \subseteq Key /\ c \in [DOMAIN c -> Entry]
  BY DEF IsContainer
<1>3. ASSUME m.remove
      PROVE  /\ IsContainer(Apply(c, m))
             /\ DOMAIN Apply(c, m) = DOMAIN c \ {m.key}
             /\ \A k \in DOMAIN c \ {m.key} : Apply(c, m)[k] = c[k]
  <2>1. Apply(c, m) = [k \in DOMAIN c \ {m.key} |-> c[k]]
    BY <1>1, <1>3 DEF Apply, Restrict
  <2> QED
    BY <1>2, <2>1 DEF IsContainer
<1>4. ASSUME ~m.remove
      PROVE  /\ IsContainer(Apply(c, m))
             /\ DOMAIN Apply(c, m) = DOMAIN c \cup {m.key}
             /\ \A k \in DOMAIN c \ {m.key} : Apply(c, m)[k] = c[k]
             /\ Apply(c, m)[m.key].lastUpdateFrom = m.sender
             /\ Apply(c, m)[m.key].inst = IF m.key \in DOMAIN c
                                          THEN Merge(c[m.key].inst, m) ELSE m.inst
  <2> DEFINE e == IF m.key \in DOMAIN c
                  THEN [inst |-> Merge(c[m.key].inst, m), lastUpdateFrom |-> m.sender,
                        createdFrom |-> c[m.key].createdFrom]
                  ELSE [inst |-> m.inst, lastUpdateFrom |-> m.sender, createdFrom |-> m.sender]
  <2>1. m.key \in DOMAIN c => Merge(c[m.key].inst, m) \in Instance /\ c[m.key].createdFrom \in Sender
    <3> SUFFICES ASSUME m.key \in DOMAIN c
                 PROVE  Merge(c[m.key].inst, m) \in Instance /\ c[m.key].createdFrom \in Sender
      OBVIOUS
    <3>1. c[m.key] \in Entry
      BY <1>2
    <3>2. c[m.key].inst \in [Prop -> Val \cup {Unset}] /\ c[m.key].createdFrom \in Sender
      BY <3>1 DEF Entry, Instance
    <3> QED
      BY <1>1, <3>2 DEF Merge, Instance
  <2>2. e \in Entry /\ e.lastUpdateFrom = m.sender
        /\ e.inst = IF m.key \in DOMAIN c THEN Merge(c[m.key].inst, m) ELSE m.inst
    BY <1>1, <2>1 DEF Entry
  <2>3. Apply(c, m) = [k \in DOMAIN c \cup {m.key} |-> IF k # m.key THEN c[k] ELSE e]
    BY <1>1, <1>4 DEF Apply, Insert
  <2> HIDE DEF e
  <2> QED
    BY <1>1, <1>2, <2>2, <2>3 DEF IsContainer
<1> QED
  BY <1>3, <1>4

LEMMA ApplyDomain ==
    ASSUME NEW c, IsContainer(c), NEW m \in DataFrom(Sender)
    PROVE  \/ DOMAIN Apply(c, m) = DOMAIN c \ {m.key}
           \/ DOMAIN Apply(c, m) = DOMAIN c \cup {m.key}
<1>1. /\ m.remove => DOMAIN Apply(c, m) = DOMAIN c \ {m.key}
      /\ ~m.remove => DOMAIN Apply(c, m) = DOMAIN c \cup {m.key}
  BY ApplyFacts, Zenon
<1> QED
  BY <1>1

(* Whatever is applied, a container remains a container, of finitely many  *)
(* instances.                                                              *)
LEMMA StagesType ==
    ASSUME NEW c, IsContainer(c), IsFiniteSet(DOMAIN c), NEW ms \in Seq(DataFrom(Sender))
    PROVE  \A n \in 0..Len(ms) : IsContainer(Stages(c, ms)[n]) /\ IsFiniteSet(DOMAIN Stages(c, ms)[n])
<1> DEFINE s == Stages(c, ms)
           S == {n \in 0..Len(ms) : IsContainer(s[n]) /\ IsFiniteSet(DOMAIN s[n])}
<1>1. Len(ms) \in Nat /\ \A n \in 1..Len(ms) : ms[n] \in DataFrom(Sender)
  OBVIOUS
<1>2. s[0] = c /\ \A n \in 1..Len(ms) : s[n] = Apply(s[n - 1], ms[n])
  BY <1>1, StagesDef
<1> HIDE DEF s
<1>3. 0 \in S
  BY <1>1, <1>2
<1>4. ASSUME NEW n \in 1..Len(ms), n - 1 \in S PROVE n \in S
  <2> DEFINE d == s[n - 1]
  <2>1. IsContainer(d) /\ IsFiniteSet(DOMAIN d) /\ s[n] = Apply(d, ms[n])
    BY <1>2, <1>4
  <2> HIDE DEF d
  <2>2. /\ IsContainer(Apply(d, ms[n]))
        /\ \/ DOMAIN Apply(d, ms[n]) = DOMAIN d \ {ms[n].key}
           \/ DOMAIN Apply(d, ms[n]) = DOMAIN d \cup {ms[n].key}
    BY <1>1, <2>1, ApplyFacts, ApplyDomain
  <2>3. IsFiniteSet(DOMAIN Apply(d, ms[n]))
    BY <2>1, <2>2, FS_AddElement, FS_RemoveElement
  <2>4. n \in 0..Len(ms)
    BY <1>1
  <2> QED
    BY <2>1, <2>2, <2>3, <2>4
<1> HIDE DEF S
<1>5. \A n \in 0..Len(ms) : n \in S
  BY <1>1, <1>3, <1>4, Upto
<1> QED
  BY <1>5 DEF S, s

(* The contents of a container are a version.                              *)
LEMMA ContentsType ==
    ASSUME NEW c, IsContainer(c)
    PROVE  Contents(c) \in Version
<1>1. DOMAIN c \in SUBSET Key /\ \A k \in DOMAIN c : c[k] \in Entry
  BY DEF IsContainer
<1>2. \A k \in DOMAIN c : <<c[k].inst, c[k].lastUpdateFrom>> \in Instance \X Sender
  BY <1>1 DEF Entry
<1>3. Contents(c) \in [DOMAIN c -> Instance \X Sender]
  BY <1>2 DEF Contents
<1> QED
  BY <1>1, <1>3 DEF Version

LEMMA VersionsType ==
    ASSUME NEW c, IsContainer(c), IsFiniteSet(DOMAIN c), NEW ms \in Seq(DataFrom(Sender))
    PROVE  /\ Versions(c, ms) \in Seq(Version)
           /\ Len(Versions(c, ms)) = Len(ms)
           /\ \A n \in 1..Len(ms) : Versions(c, ms)[n] = Contents(Stages(c, ms)[n])
<1>1. Len(ms) \in Nat /\ DOMAIN ms = 1..Len(ms)
  OBVIOUS
<1>2. \A n \in 1..Len(ms) : Contents(Stages(c, ms)[n]) \in Version
  <2>1. \A n \in 1..Len(ms) : n \in 0..Len(ms)
    BY <1>1
  <2> QED
    BY <2>1, StagesType, ContentsType
<1> DEFINE v == Versions(c, ms)
<1>3. v = [n \in 1..Len(ms) |-> Contents(Stages(c, ms)[n])]
  BY <1>1 DEF Versions
<1>4. v \in [1..Len(ms) -> Version]
  BY <1>2, <1>3
<1> HIDE DEF v
<1>5. v \in Seq(Version) /\ Len(v) = Len(ms)
  BY <1>1, <1>4
<1> QED
  BY <1>3, <1>5 DEF v

(* One transmission, and two.                                              *)
LEMMA Single ==
    ASSUME NEW c, NEW m
    PROVE  ApplyAll(c, <<m>>) = Apply(c, m)
<1> DEFINE ms == <<m>>
<1>1. Len(ms) = 1 /\ ms[1] = m /\ 1 \in 1..1 /\ 1 - 1 = 0
  OBVIOUS
<1> HIDE DEF ms
<1>2. Len(ms) \in Nat
  BY <1>1
<1>3. /\ Stages(c, ms)[0] = c
      /\ \A n \in 1..Len(ms) : Stages(c, ms)[n] = Apply(Stages(c, ms)[n - 1], ms[n])
  BY <1>2, StagesDef
<1>4. Stages(c, ms)[1] = Apply(c, m)
  BY <1>1, <1>3
<1>5. ApplyAll(c, ms) = Apply(c, m)
  BY <1>1, <1>4 DEF ApplyAll
<1> QED
  BY <1>5 DEF ms

LEMMA Double ==
    ASSUME NEW c, NEW m, NEW r
    PROVE  ApplyAll(c, <<m, r>>) = Apply(Apply(c, m), r)
<1> DEFINE ms == <<m, r>>
<1>1. Len(ms) = 2 /\ ms[1] = m /\ ms[2] = r /\ 1 \in 1..2 /\ 2 \in 1..2 /\ 1 - 1 = 0 /\ 2 - 1 = 1
  OBVIOUS
<1> HIDE DEF ms
<1>2. Len(ms) \in Nat
  BY <1>1
<1>3. /\ Stages(c, ms)[0] = c
      /\ \A n \in 1..Len(ms) : Stages(c, ms)[n] = Apply(Stages(c, ms)[n - 1], ms[n])
  BY <1>2, StagesDef
<1>4. Stages(c, ms)[1] = Apply(c, m)
  BY <1>1, <1>3
<1>5. Stages(c, ms)[2] = Apply(Apply(c, m), r)
  BY <1>1, <1>3, <1>4
<1>6. ApplyAll(c, ms) = Apply(Apply(c, m), r)
  BY <1>1, <1>5 DEF ApplyAll
<1> QED
  BY <1>6 DEF ms

(* The removals of a set of instances, which leave none of them out.       *)
LEMMA RemovalsFacts ==
    ASSUME NEW S \in SUBSET Key, IsFiniteSet(S)
    PROVE  /\ Removals(S) \in Seq(DataFrom(Sender))
           /\ Len(Removals(S)) = Cardinality(S) /\ Cardinality(S) \in Nat
           /\ \A n \in 1..Cardinality(S) : /\ Removals(S)[n].key \in S
                                           /\ Removals(S)[n].remove
                                           /\ Whole(Removals(S)[n])
           /\ \A k \in S : \E n \in 1..Cardinality(S) : Removals(S)[n].key = k
<1> DEFINE K == Cardinality(S)
           keys == InKeyOrder(S)
           R == Removals(S)
<1>1. K \in Nat
  BY FS_CardinalityType
<1>2. /\ Ordered(keys, S)
      /\ \A k \in S : \E i \in 1..K : keys[i] = k
  <2>1. S \in SUBSET Int
    BY DistributionAssumption
  <2> QED
    BY <1>1, <2>1, Order
<1>3. \A n \in 1..K : keys[n] \in S /\ keys[n] \in Key
  BY <1>2 DEF Ordered
<1>4. HostId \in Sender /\ {} \in SUBSET Prop
  BY DEF Sender
<1>5. R = [n \in 1..K |-> Data(keys[n], Blank, {}, TRUE, HostId)]
  BY DEF Removals
<1> HIDE DEF R, keys
<1>6. \A n \in 1..K : /\ R[n] \in DataFrom(Sender) /\ R[n].key = keys[n] /\ R[n].remove
                      /\ R[n].inst = Blank
  BY <1>3, <1>4, <1>5, BlankFacts DEF Data, DataFrom
<1>7. \A n \in 1..K : Whole(R[n])
  BY <1>6, BlankFacts DEF Whole
<1>8. R \in Seq(DataFrom(Sender)) /\ Len(R) = K
  <2>1. R \in [1..K -> DataFrom(Sender)]
    BY <1>5, <1>6
  <2> HIDE DEF K
  <2> QED
    BY <1>1, <2>1
<1> QED
  BY <1>1, <1>2, <1>3, <1>6, <1>7, <1>8 DEF R

(* They take these instances out of the container, and no others.          *)
LEMMA RemovalsRemove ==
    ASSUME NEW c, IsContainer(c), IsFiniteSet(DOMAIN c), NEW S \in SUBSET Key, IsFiniteSet(S)
    PROVE  /\ DOMAIN ApplyAll(c, Removals(S)) = DOMAIN c \ S
           /\ \A k \in DOMAIN c \ S : ApplyAll(c, Removals(S))[k] = c[k]
<1> DEFINE K == Cardinality(S)
           R == Removals(S)
           s == Stages(c, R)
           Left(n) == /\ DOMAIN s[n] \subseteq DOMAIN c
                      /\ DOMAIN c \ S \subseteq DOMAIN s[n]
                      /\ \A k \in DOMAIN s[n] : s[n][k] = c[k]
                      /\ \A i \in 1..n : R[i].key \notin DOMAIN s[n]
           G == {n \in 0..K : Left(n)}
<1>1. /\ R \in Seq(DataFrom(Sender)) /\ Len(R) = K /\ K \in Nat
      /\ \A n \in 1..K : R[n].key \in S /\ R[n].remove
      /\ \A k \in S : \E n \in 1..K : R[n].key = k
  BY RemovalsFacts
<1>2. s[0] = c /\ \A n \in 1..K : s[n] = Apply(s[n - 1], R[n])
  BY <1>1, StagesDef
<1>3. \A n \in 0..K : IsContainer(s[n])
  BY <1>1, StagesType
<1>4. \A n \in 1..K : R[n] \in DataFrom(Sender)
  BY <1>1
<1> HIDE DEF s, R, K
<1>5. 0 \in G
  BY <1>1, <1>2
<1>6. ASSUME NEW n \in 1..K, n - 1 \in G PROVE n \in G
  <2> DEFINE d == s[n - 1]
             m == R[n]
  <2>1. n - 1 \in 0..K /\ n \in 0..K /\ \A i \in 1..n : i = n \/ i \in 1..n - 1
    BY <1>1
  <2>2. Left(n - 1)
    BY <1>6
  <2>3. IsContainer(d) /\ m \in DataFrom(Sender) /\ m.remove /\ m.key \in S /\ s[n] = Apply(d, m)
    BY <1>1, <1>2, <1>3, <1>4, <2>1
  <2> HIDE DEF d, m
  <2>4. /\ DOMAIN Apply(d, m) = DOMAIN d \ {m.key}
        /\ \A k \in DOMAIN d \ {m.key} : Apply(d, m)[k] = d[k]
    BY <2>3, ApplyFacts
  <2>5. /\ DOMAIN s[n] = DOMAIN d \ {m.key}
        /\ \A k \in DOMAIN d \ {m.key} : s[n][k] = d[k]
    BY <2>3, <2>4
  <2>6. /\ DOMAIN d \subseteq DOMAIN c
        /\ DOMAIN c \ S \subseteq DOMAIN d
        /\ \A k \in DOMAIN d : d[k] = c[k]
        /\ \A i \in 1..n - 1 : R[i].key \notin DOMAIN d
    BY <2>2 DEF d
  <2>7. \A i \in 1..n : R[i].key \notin DOMAIN s[n]
    BY <2>1, <2>5, <2>6 DEF m
  <2> QED
    BY <2>1, <2>3, <2>5, <2>6, <2>7
<1>7. \A n \in 0..K : n \in G
  <2> HIDE DEF G
  <2> QED
    BY <1>1, <1>5, <1>6, Upto
<1>8. K \in 0..K
  BY <1>1
<1>9. Left(K)
  BY <1>7, <1>8
<1>10. DOMAIN s[K] = DOMAIN c \ S /\ \A k \in DOMAIN c \ S : s[K][k] = c[k]
  BY <1>1, <1>9
<1>11. ApplyAll(c, R) = s[K]
  BY <1>1 DEF ApplyAll, s
<1> QED
  BY <1>10, <1>11 DEF R

-----------------------------------------------------------------------------
(* Types *)

Wires(ms) == [n \in DOMAIN ms |-> Wire(ms[n])]

LEMMA WiresFacts ==
    ASSUME NEW ms \in Seq(DataFrom(Sender))
    PROVE  /\ Wires(ms) \in Seq(DataFrom(Sender)) /\ Len(Wires(ms)) = Len(ms)
           /\ \A n \in 1..Len(ms) : Wires(ms)[n] = Wire(ms[n])
<1>1. Len(ms) \in Nat /\ DOMAIN ms = 1..Len(ms) /\ \A n \in 1..Len(ms) : ms[n] \in DataFrom(Sender)
  OBVIOUS
<1>2. Wires(ms) = [n \in 1..Len(ms) |-> Wire(ms[n])]
  BY <1>1 DEF Wires
<1>3. Wires(ms) \in [1..Len(ms) -> DataFrom(Sender)]
  BY <1>1, <1>2, WireFacts
<1>4. Wires(ms) \in Seq(DataFrom(Sender)) /\ Len(Wires(ms)) = Len(ms)
  BY <1>1, <1>3
<1> QED
  BY <1>2, <1>4

(* What guests send has been serialised.                                   *)
Serialised ==
    \A c \in Conn : \A n \in DOMAIN toHost[c] :
        toHost[c][n].kind = "data" => Whole(toHost[c][n])

BaseInv == TypeOK /\ IsFiniteSet(DOMAIN hostC) /\ Serialised

(* What the host holds and sends after some transmissions.                 *)
LEMMA DistributeType ==
    ASSUME BaseInv, NEW ms \in Seq(DataFrom(Sender)), NEW ns \in Seq(DataFrom(Sender)), NEW group,
           hostC' = ApplyAll(hostC, ms), log' = log \o Versions(hostC, ms),
           toGuest' = Broadcast(group, ns)
    PROVE  /\ IsContainer(hostC') /\ IsFiniteSet(DOMAIN hostC')
           /\ log' \in Seq(Version) /\ toGuest' \in [Conn -> Seq(FromHost)]
<1>1. /\ IsContainer(hostC) /\ IsFiniteSet(DOMAIN hostC) /\ log \in Seq(Version)
      /\ toGuest \in [Conn -> Seq(FromHost)]
  BY DEF BaseInv, TypeOK
<1>2. IsContainer(hostC') /\ IsFiniteSet(DOMAIN hostC')
  <2>1. Len(ms) \in 0..Len(ms)
    OBVIOUS
  <2> QED
    BY <1>1, <2>1, StagesType DEF ApplyAll
<1>3. log' \in Seq(Version)
  <2>1. Versions(hostC, ms) \in Seq(Version)
    BY <1>1, VersionsType
  <2> QED
    BY <1>1, <2>1, ConcatProperties
<1>4. \A c \in Conn : toGuest[c] \o Wires(ns) \in Seq(FromHost)
  <2>1. Wires(ns) \in Seq(FromHost)
    BY WiresFacts DEF FromHost
  <2> QED
    BY <1>1, <2>1, ConcatProperties
<1>5. toGuest' = [c \in Conn |-> IF c \in group /\ Live(c) THEN toGuest[c] \o Wires(ns) ELSE toGuest[c]]
  BY DEF Broadcast, Wires
<1> QED
  BY <1>1, <1>2, <1>3, <1>4, <1>5

(* What transmitContainer sends.                                           *)
LEMMA CachedFacts ==
    ASSUME BaseInv
    PROVE  /\ Cached \in Seq(DataFrom(Sender))
           /\ Len(Cached) = Cardinality(DOMAIN hostC) /\ Cardinality(DOMAIN hostC) \in Nat
           /\ \A n \in 1..Cardinality(DOMAIN hostC) :
                 /\ Cached[n].key \in DOMAIN hostC
                 /\ ~Cached[n].remove
                 /\ Cached[n].inst = hostC[Cached[n].key].inst
                 /\ Cached[n].sender = hostC[Cached[n].key].lastUpdateFrom
           /\ \A i, j \in 1..Cardinality(DOMAIN hostC) : Cached[i].key = Cached[j].key => i = j
           /\ \A k \in DOMAIN hostC :
                 \E n \in 1..Cardinality(DOMAIN hostC) : Cached[n].key = k
<1> DEFINE S == DOMAIN hostC
           K == Cardinality(S)
           keys == InKeyOrder(S)
           R == Cached
<1>1. K \in Nat /\ S \in SUBSET Key /\ hostC \in [S -> Entry]
  BY FS_CardinalityType DEF BaseInv, TypeOK, IsContainer
<1>2. /\ Ordered(keys, S)
      /\ \A k \in S : \E i \in 1..K : keys[i] = k
  <2>1. S \in SUBSET Int /\ IsFiniteSet(S)
    BY <1>1, DistributionAssumption DEF BaseInv
  <2> QED
    BY <1>1, <2>1, Order
<1>3. \A n \in 1..K : keys[n] \in S /\ keys[n] \in Key
  BY <1>1, <1>2 DEF Ordered
<1>4. R = [n \in 1..K |-> Data(keys[n], hostC[keys[n]].inst, Valid(hostC[keys[n]].inst), FALSE,
                               hostC[keys[n]].lastUpdateFrom)]
  BY DEF Cached
<1>5. \A k \in S : hostC[k].inst \in Instance /\ hostC[k].lastUpdateFrom \in Sender
  BY <1>1 DEF Entry
<1>6. \A i : Valid(i) \in SUBSET Prop
  BY DEF Valid
<1>7. \A i, j \in 1..K : keys[i] = keys[j] => i = j
  <2> SUFFICES ASSUME NEW i \in 1..K, NEW j \in 1..K, keys[i] = keys[j] PROVE i = j
    OBVIOUS
  <2>1. /\ keys[i] \in Int /\ keys[j] \in Int
    BY <1>3, DistributionAssumption
  <2>2. ~(keys[i] < keys[j]) /\ ~(keys[j] < keys[i])
    BY <2>1
  <2>3. ~(i < j) /\ ~(j < i)
    BY <1>2, <2>2 DEF Ordered
  <2> QED
    BY <2>3
<1> HIDE DEF R, keys, K, S
<1>8. \A n \in 1..K : /\ R[n] \in DataFrom(Sender) /\ R[n].key = keys[n] /\ ~R[n].remove
                      /\ R[n].inst = hostC[keys[n]].inst
                      /\ R[n].sender = hostC[keys[n]].lastUpdateFrom
  BY <1>3, <1>4, <1>5, <1>6 DEF Data, DataFrom
<1>9. R \in Seq(DataFrom(Sender)) /\ Len(R) = K
  <2>1. R \in [1..K -> DataFrom(Sender)]
    BY <1>4, <1>8
  <2> QED
    BY <1>1, <2>1
<1>10. \A n \in 1..K : /\ R[n].key \in S /\ ~R[n].remove
                       /\ R[n].inst = hostC[R[n].key].inst
                       /\ R[n].sender = hostC[R[n].key].lastUpdateFrom
  BY <1>3, <1>8
<1>11. \A i, j \in 1..K : R[i].key = R[j].key => i = j
  BY <1>7, <1>8
<1>12. \A k \in S : \E n \in 1..K : R[n].key = k
  BY <1>2, <1>8
<1> QED
  BY <1>1, <1>9, <1>10, <1>11, <1>12 DEF R, K, S

(* What the host receives next.                                            *)
LEMMA HeadFacts ==
    ASSUME BaseInv, NEW c \in Conn, toHost[c] # <<>>
    PROVE  /\ Tail(toHost[c]) \in Seq(FromGuest)
           /\ Len(toHost[c]) \in Nat \ {0} /\ Len(Tail(toHost[c])) = Len(toHost[c]) - 1
           /\ \A n \in 1..Len(toHost[c]) - 1 : Tail(toHost[c])[n] = toHost[c][n + 1]
           /\ FromPeer(c, Head(toHost[c])).kind = "data" =>
                  /\ FromPeer(c, Head(toHost[c])) \in DataFrom(Sender)
                  /\ FromPeer(c, Head(toHost[c])).sender = c
                  /\ Whole(FromPeer(c, Head(toHost[c])))
           /\ FromPeer(c, Head(toHost[c])).kind = "join" => toHost[c][1] = Join
<1> DEFINE q == toHost[c]
           m == Head(q)
<1>1. q \in Seq(FromGuest) /\ q # <<>>
  BY DEF BaseInv, TypeOK
<1>2. /\ Tail(q) \in Seq(FromGuest) /\ Len(q) \in Nat \ {0} /\ Len(Tail(q)) = Len(q) - 1
      /\ \A n \in 1..Len(q) - 1 : Tail(q)[n] = q[n + 1]
      /\ m = q[1] /\ 1 \in DOMAIN q /\ m \in FromGuest
  <2> HIDE DEF q
  <2>1. Len(q) \in Nat \ {0} /\ DOMAIN q = 1..Len(q)
    BY <1>1, EmptySeq, LenProperties
  <2> QED
    BY <1>1, <2>1, HeadTailProperties
<1>3. m.kind = "data" => Whole(m)
  BY <1>2 DEF BaseInv, Serialised
<1> HIDE DEF q, m
<1>4. CASE m \in DataFrom({NoConn})
  <2>1. /\ FromPeer(c, m) \in DataFrom({c}) /\ FromPeer(c, m).sender = c
        /\ FromPeer(c, m).kind = "data"
        /\ Whole(m) => Whole(FromPeer(c, m))
    BY <1>4, StampFacts
  <2>2. m.kind = "data"
    BY <1>4 DEF DataFrom
  <2>3. FromPeer(c, m) \in DataFrom(Sender)
    <3>1. c \in Sender
      BY DEF Sender
    <3> QED
      BY <2>1, <3>1 DEF DataFrom
  <2> QED
    BY <1>2, <1>3, <2>1, <2>2, <2>3 DEF q, m
<1>5. CASE m = Join \/ m = ClearCache
  <2>1. FromPeer(c, m) = m /\ m.kind # "data" /\ (m.kind = "join" => m = Join)
    BY <1>5 DEF FromPeer, Join, ClearCache
  <2> QED
    BY <1>2, <2>1 DEF q, m
<1> QED
  BY <1>2, <1>4, <1>5 DEF FromGuest

(* The steps in which the container changes, and what they have in common. *)
Writes ==
    \/ \E c \in Conn : HostReceive(c) /\ FromPeer(c, Head(toHost[c])).kind # "join"
    \/ \E c \in Conn : HostReceiveReacting(c) \/ HostClosed(c)
    \/ \E m \in Publications(HostId) : HostPublish(m)

Shape(ms, ns) ==
    /\ ms \in Seq(DataFrom(Sender)) /\ ns \in Seq(DataFrom(Sender)) /\ Len(ms) = Len(ns)
    /\ hostC' = ApplyAll(hostC, ms)
    /\ log' = log \o Versions(hostC, ms)
    /\ toGuest' = Broadcast(member', ns)
    /\ exact' => exact /\ ms = ns /\ \A n \in 1..Len(ms) : Whole(ms[n])
    /\ exact' \in BOOLEAN /\ pubs' \in 0..MaxPub
    /\ UNCHANGED <<cur, joined, guestC, nextConn>>
    /\ \/ /\ UNCHANGED <<open, member>>
          /\ \/ UNCHANGED toHost
             \/ \E c \in Conn : /\ toHost[c] # <<>>
                                /\ toHost' = [toHost EXCEPT ![c] = Tail(@)]
       \/ \E c \in Conn : /\ open' = open \ {c} /\ member' = member \ {c}
                          /\ toHost' = [toHost EXCEPT ![c] = <<>>]

LEMMA WritesShape ==
    ASSUME BaseInv, Writes
    PROVE  \E ms, ns : Shape(ms, ns)
<1>0. /\ pubs \in 0..MaxPub /\ exact \in BOOLEAN /\ MaxPub \in Nat
      /\ DOMAIN hostC \in SUBSET Key /\ IsFiniteSet(DOMAIN hostC)
  BY DistributionAssumption DEF BaseInv, TypeOK, IsContainer
<1>1. ASSUME NEW c \in Conn, HostReceive(c), FromPeer(c, Head(toHost[c])).kind # "join"
      PROVE  \E ms, ns : Shape(ms, ns)
  <2> DEFINE m == FromPeer(c, Head(toHost[c]))
  <2>1. /\ toHost[c] # <<>> /\ toHost' = [toHost EXCEPT ![c] = Tail(@)]
        /\ UNCHANGED <<open, member, cur, joined, guestC, nextConn, pubs, exact>>
        /\ \/ m.kind = "clearCache" /\ Distribute(Removals(DOMAIN hostC), Removals(DOMAIN hostC))
           \/ m.kind = "data" /\ Distribute(<<m>>, <<m>>)
    BY <1>1 DEF HostReceive, HandleClearCache
  <2>2. CASE m.kind = "clearCache" /\ Distribute(Removals(DOMAIN hostC), Removals(DOMAIN hostC))
    <3> DEFINE ms == Removals(DOMAIN hostC)
    <3>1. ms \in Seq(DataFrom(Sender)) /\ \A n \in 1..Len(ms) : Whole(ms[n])
      BY <1>0, RemovalsFacts
    <3>2. Distribute(ms, ms)
      BY <2>2
    <3> HIDE DEF ms, m
    <3>3. Shape(ms, ms)
      BY <1>0, <2>1, <3>1, <3>2 DEF Shape, Distribute
    <3> QED
      BY <3>3
  <2>3. CASE m.kind = "data" /\ Distribute(<<m>>, <<m>>)
    <3>1. m \in DataFrom(Sender) /\ Whole(m)
      BY <2>1, <2>3, HeadFacts
    <3> DEFINE ms == <<m>>
    <3> HIDE DEF m
    <3>2. ms \in Seq(DataFrom(Sender)) /\ \A n \in 1..Len(ms) : Whole(ms[n])
      BY <3>1
    <3>3. Distribute(ms, ms)
      BY <2>3
    <3> HIDE DEF ms
    <3>4. Shape(ms, ms)
      BY <1>0, <2>1, <3>2, <3>3 DEF Shape, Distribute
    <3> QED
      BY <3>4
  <2> QED
    BY <2>1, <2>2, <2>3
<1>2. ASSUME NEW c \in Conn, HostReceiveReacting(c) PROVE \E ms, ns : Shape(ms, ns)
  <2> DEFINE m == FromPeer(c, Head(toHost[c]))
  <2>1. /\ toHost[c] # <<>> /\ toHost' = [toHost EXCEPT ![c] = Tail(@)]
        /\ UNCHANGED <<open, member, cur, joined, guestC, nextConn>>
        /\ pubs < MaxPub /\ pubs' = pubs + 1 /\ exact' = FALSE
        /\ m.kind = "data"
    BY <1>2 DEF HostReceiveReacting
  <2>2. PICK r \in Publications(HostId) : Distribute(<<m, r>>, <<r, m>>)
    BY <1>2 DEF HostReceiveReacting
  <2>3. m \in DataFrom(Sender)
    BY <2>1, HeadFacts
  <2>4. r \in DataFrom(Sender)
    BY PublicationFacts DEF DataFrom, Sender
  <2> DEFINE ms == <<m, r>>
             ns == <<r, m>>
  <2> HIDE DEF m
  <2>5. ms \in Seq(DataFrom(Sender)) /\ ns \in Seq(DataFrom(Sender)) /\ Len(ms) = Len(ns)
    BY <2>3, <2>4
  <2>6. Distribute(ms, ns)
    BY <2>2
  <2>7. pubs' \in 0..MaxPub
    BY <1>0, <2>1
  <2> HIDE DEF ms, ns
  <2>8. Shape(ms, ns)
    BY <2>1, <2>5, <2>6, <2>7 DEF Shape, Distribute
  <2> QED
    BY <2>8
<1>3. ASSUME NEW c \in Conn, HostClosed(c) PROVE \E ms, ns : Shape(ms, ns)
  <2> DEFINE ms == Removals(Doomed(c))
  <2>1. Doomed(c) \in SUBSET DOMAIN hostC
    BY DEF Doomed
  <2>2. Doomed(c) \in SUBSET Key /\ IsFiniteSet(Doomed(c))
    BY <1>0, <2>1, FS_Subset
  <2>3. ms \in Seq(DataFrom(Sender)) /\ \A n \in 1..Len(ms) : Whole(ms[n])
    BY <2>2, RemovalsFacts
  <2>4. /\ open' = open \ {c} /\ member' = member \ {c}
        /\ toHost' = [toHost EXCEPT ![c] = <<>>]
        /\ hostC' = ApplyAll(hostC, ms)
        /\ log' = log \o Versions(hostC, ms)
        /\ toGuest' = Broadcast(member \ {c}, ms)
        /\ UNCHANGED <<cur, joined, guestC, nextConn, pubs, exact>>
    BY <1>3 DEF HostClosed
  <2> HIDE DEF ms
  <2>5. Shape(ms, ms)
    BY <1>0, <2>3, <2>4 DEF Shape
  <2> QED
    BY <2>5
<1>4. ASSUME NEW m \in Publications(HostId), HostPublish(m) PROVE \E ms, ns : Shape(ms, ns)
  <2>1. m \in DataFrom(Sender)
    BY PublicationFacts DEF DataFrom, Sender
  <2>2. /\ pubs < MaxPub /\ pubs' = pubs + 1 /\ exact' = (exact /\ Whole(m))
        /\ Distribute(<<m>>, <<m>>)
        /\ UNCHANGED <<member, open, cur, joined, guestC, toHost, nextConn>>
    BY <1>4 DEF HostPublish
  <2> DEFINE ms == <<m>>
  <2>3. ms \in Seq(DataFrom(Sender)) /\ (Whole(m) => \A n \in 1..Len(ms) : Whole(ms[n]))
    BY <2>1
  <2>4. Distribute(ms, ms)
    BY <2>2
  <2>5. pubs' \in 0..MaxPub
    BY <1>0, <2>2
  <2>6. exact' \in BOOLEAN /\ (exact' => exact /\ Whole(m))
    BY <2>2
  <2> HIDE DEF ms
  <2>7. Shape(ms, ms)
    BY <2>2, <2>3, <2>4, <2>5, <2>6 DEF Shape, Distribute
  <2> QED
    BY <2>7
<1> QED
  BY <1>1, <1>2, <1>3, <1>4 DEF Writes

(* What a guest sends arrives, unless the host has closed the connection.  *)
LEMMA SentFacts ==
    ASSUME BaseInv, NEW c \in Conn, NEW m \in FromGuest, m.kind = "data" => Whole(m),
           toHost' = SentToHost(c, m)
    PROVE  /\ toHost' \in [Conn -> Seq(FromGuest)]
           /\ Serialised'
           /\ \A d \in Conn : toHost'[d] = toHost[d] \/ (d = c /\ c \in open /\ toHost'[d] = Append(toHost[d], m))
<1>1. toHost \in [Conn -> Seq(FromGuest)]
  BY DEF BaseInv, TypeOK
<1>2. \A d \in Conn : toHost'[d] = toHost[d] \/ (d = c /\ c \in open /\ toHost'[d] = Append(toHost[d], m))
  BY <1>1 DEF SentToHost
<1>3. toHost' \in [Conn -> Seq(FromGuest)]
  BY <1>1 DEF SentToHost
<1>4. ASSUME NEW d \in Conn, NEW n \in DOMAIN toHost'[d], toHost'[d][n].kind = "data"
      PROVE  Whole(toHost'[d][n])
  <2>1. CASE toHost'[d] = toHost[d]
    BY <1>4, <2>1 DEF BaseInv, Serialised
  <2>2. CASE toHost'[d] = Append(toHost[d], m)
    <3>1. toHost[d] \in Seq(FromGuest)
      BY <1>1
    <3>2. (n \in DOMAIN toHost[d] /\ toHost'[d][n] = toHost[d][n]) \/ toHost'[d][n] = m
      BY <2>2, <3>1, <1>4
    <3> QED
      BY <1>4, <3>2 DEF BaseInv, Serialised
  <2> QED
    BY <1>2, <2>1, <2>2
<1> QED
  BY <1>2, <1>3, <1>4 DEF Serialised

(* The end of a connection, or the receipt of its first message, leaves    *)
(* what was sent before.                                                   *)
LEMMA TakenFacts ==
    ASSUME BaseInv, NEW c \in Conn,
           \/ toHost' = [toHost EXCEPT ![c] = <<>>]
           \/ toHost[c] # <<>> /\ toHost' = [toHost EXCEPT ![c] = Tail(@)]
    PROVE  toHost' \in [Conn -> Seq(FromGuest)] /\ Serialised'
<1>1. toHost \in [Conn -> Seq(FromGuest)]
  BY DEF BaseInv, TypeOK
<1>2. toHost' \in [Conn -> Seq(FromGuest)]
  <2>1. toHost[c] # <<>> => Tail(toHost[c]) \in Seq(FromGuest)
    BY HeadFacts
  <2>2. <<>> \in Seq(FromGuest)
    OBVIOUS
  <2> QED
    BY <1>1, <2>1, <2>2
<1>3. ASSUME NEW d \in Conn, NEW n \in DOMAIN toHost'[d], toHost'[d][n].kind = "data"
      PROVE  Whole(toHost'[d][n])
  <2>1. CASE toHost'[d] = toHost[d]
    BY <1>3, <2>1 DEF BaseInv, Serialised
  <2>2. CASE toHost'[d] = <<>>
    BY <1>3, <2>2
  <2>3. CASE d = c /\ toHost[c] # <<>> /\ toHost'[d] = Tail(toHost[d])
    <3>1. /\ Tail(toHost[c]) \in Seq(FromGuest)
          /\ Len(toHost[c]) \in Nat \ {0} /\ Len(Tail(toHost[c])) = Len(toHost[c]) - 1
          /\ \A i \in 1..Len(toHost[c]) - 1 : Tail(toHost[c])[i] = toHost[c][i + 1]
      BY <2>3, HeadFacts
    <3>2. n \in 1..Len(toHost[c]) - 1
      BY <1>3, <2>3, <3>1, LenProperties
    <3>3. n + 1 \in 1..Len(toHost[c]) /\ DOMAIN toHost[c] = 1..Len(toHost[c])
      BY <1>1, <3>1, <3>2, LenProperties
    <3> QED
      BY <1>3, <2>3, <3>1, <3>2, <3>3 DEF BaseInv, Serialised
  <2> QED
    BY <1>1, <2>1, <2>2, <2>3
<1> QED
  BY <1>2, <1>3 DEF Serialised

(* What a guest receives next.                                             *)
LEMMA GuestHead ==
    ASSUME BaseInv, NEW c \in Conn, toGuest[c] # <<>>
    PROVE  /\ Tail(toGuest[c]) \in Seq(FromHost) /\ Head(toGuest[c]) = toGuest[c][1]
           /\ Head(toGuest[c]) \in DataFrom(Sender) \cup {CacheInfo}
           /\ Len(toGuest[c]) \in Nat \ {0} /\ Len(Tail(toGuest[c])) = Len(toGuest[c]) - 1
           /\ \A n \in 1..Len(toGuest[c]) - 1 : Tail(toGuest[c])[n] = toGuest[c][n + 1]
<1> DEFINE q == toGuest[c]
<1>1. q \in Seq(FromHost) /\ q # <<>>
  BY DEF BaseInv, TypeOK
<1> HIDE DEF q
<1>2. Len(q) \in Nat \ {0}
  BY <1>1, EmptySeq, LenProperties
<1>3. /\ Tail(q) \in Seq(FromHost) /\ Len(Tail(q)) = Len(q) - 1 /\ Head(q) = q[1]
      /\ \A n \in 1..Len(q) - 1 : Tail(q)[n] = q[n + 1]
  BY <1>1, <1>2, HeadTailProperties
<1>4. Head(q) \in FromHost
  BY <1>1, <1>2, <1>3
<1> QED
  BY <1>2, <1>3, <1>4 DEF q, FromHost

LEMMA BaseInit == Init => BaseInv
<1> SUFFICES ASSUME Init PROVE BaseInv
  OBVIOUS
<1>1. IsContainer(Empty) /\ IsFiniteSet(DOMAIN Empty) /\ Contents(Empty) \in Version
  BY EmptyFacts, ContentsType
<1>2. nextConn \in FirstId..(FirstId + MaxConns) /\ pubs \in 0..MaxPub
  BY DistributionAssumption DEF Init, FirstId
<1>3. toHost \in [Conn -> Seq(FromGuest)] /\ toGuest \in [Conn -> Seq(FromHost)]
  BY DEF Init
<1>4. log \in Seq(Version)
  BY <1>1 DEF Init
<1>5. Serialised
  BY DEF Init, Serialised
<1> QED
  BY <1>1, <1>2, <1>3, <1>4, <1>5 DEF Init, BaseInv, TypeOK

LEMMA BaseStep == BaseInv /\ [Next]_vars => BaseInv'
<1> SUFFICES ASSUME BaseInv, [Next]_vars PROVE BaseInv'
  OBVIOUS
<1>0. /\ IsContainer(hostC) /\ IsFiniteSet(DOMAIN hostC)
      /\ member \subseteq Conn
      /\ open \subseteq Conn
      /\ cur \in [Guest -> Conn \cup {NoConn}]
      /\ joined \in [Guest -> BOOLEAN]
      /\ DOMAIN guestC = Guest /\ \A g \in Guest : IsContainer(guestC[g])
      /\ toHost \in [Conn -> Seq(FromGuest)]
      /\ toGuest \in [Conn -> Seq(FromHost)]
      /\ nextConn \in FirstId..(FirstId + MaxConns)
      /\ pubs \in 0..MaxPub
      /\ log \in Seq(Version)
      /\ exact \in BOOLEAN
      /\ Serialised
      /\ MaxPub \in Nat /\ MaxConns \in Nat
  BY DistributionAssumption DEF BaseInv, TypeOK
<1>1. ASSUME NEW g \in Guest, Open(g) PROVE BaseInv'
  <2>1. nextConn' \in FirstId..(FirstId + MaxConns)
    BY <1>0, <1>1 DEF Open, Conn, FirstId
  <2> QED
    BY <1>0, <1>1, <2>1 DEF Open, BaseInv, TypeOK, Serialised
<1>2. ASSUME NEW g \in Guest, JoinGroup(g) PROVE BaseInv'
  <2>1. cur[g] \in Conn /\ Join \in FromGuest /\ Join.kind # "data"
    BY <1>0, <1>2 DEF JoinGroup, FromGuest, Join
  <2>2. toHost' \in [Conn -> Seq(FromGuest)] /\ Serialised'
    BY <1>2, <2>1, SentFacts DEF JoinGroup
  <2> QED
    BY <1>0, <1>2, <2>2 DEF JoinGroup, BaseInv, TypeOK
<1>3. ASSUME NEW g \in Guest, NEW m \in Publications(NoConn) \cup {ClearCache}, Publish(g, m)
      PROVE  BaseInv'
  <2>1. cur[g] \in Conn
    BY <1>0, <1>3 DEF Publish
  <2>2. Wire(m) \in FromGuest /\ (Wire(m).kind = "data" => Whole(Wire(m)))
    <3>1. CASE m = ClearCache
      BY <3>1 DEF Wire, ClearCache, FromGuest
    <3>2. CASE m \in Publications(NoConn)
      BY <3>2, PublicationFacts, WireFacts DEF FromGuest
    <3> QED
      BY <3>1, <3>2
  <2>3. toHost' = SentToHost(cur[g], Wire(m))
    BY <1>3 DEF Publish
  <2>4. toHost' \in [Conn -> Seq(FromGuest)] /\ Serialised'
    BY <2>1, <2>2, <2>3, SentFacts
  <2>5. pubs' \in 0..MaxPub
    BY <1>0, <1>3 DEF Publish
  <2> QED
    BY <1>0, <1>3, <2>4, <2>5 DEF Publish, BaseInv, TypeOK
<1>4. ASSUME NEW g \in Guest, GuestReceive(g) PROVE BaseInv'
  <2> DEFINE c == cur[g]
             m == Head(toGuest[c])
  <2>1. /\ c \in Conn /\ toGuest[c] # <<>>
        /\ guestC' = [guestC EXCEPT ![g] = Apply(@, m)]
        /\ toGuest' = [toGuest EXCEPT ![c] = Tail(@)]
        /\ UNCHANGED <<hostC, member, open, cur, joined, toHost, nextConn, pubs, log, exact>>
    BY <1>0, <1>4 DEF GuestReceive
  <2>2. Tail(toGuest[c]) \in Seq(FromHost) /\ m \in DataFrom(Sender) \cup {CacheInfo}
    BY <2>1, GuestHead
  <2> HIDE DEF m
  <2>3. IsContainer(Apply(guestC[g], m))
    <3>1. CASE m \in DataFrom(Sender)
      BY <1>0, <3>1, ApplyFacts
    <3>2. CASE m = CacheInfo
      BY <1>0, <3>2 DEF Apply, CacheInfo
    <3> QED
      BY <2>2, <3>1, <3>2
  <2>4. DOMAIN guestC' = Guest /\ \A h \in Guest : IsContainer(guestC'[h])
    <3>1. \A h \in Guest : guestC'[h] = guestC[h] \/ guestC'[h] = Apply(guestC[g], m)
      BY <1>0, <2>1
    <3> QED
      BY <1>0, <2>1, <2>3, <3>1
  <2>5. toGuest' \in [Conn -> Seq(FromHost)]
    BY <1>0, <2>1, <2>2
  <2> QED
    BY <1>0, <2>1, <2>4, <2>5 DEF BaseInv, TypeOK, Serialised
<1>5. ASSUME NEW g \in Guest, GuestClosed(g) PROVE BaseInv'
  <2>1. toGuest' \in [Conn -> Seq(FromHost)]
    <3>1. <<>> \in Seq(FromHost)
      OBVIOUS
    <3> QED
      BY <1>0, <1>5, <3>1 DEF GuestClosed
  <2> QED
    BY <1>0, <1>5, <2>1 DEF GuestClosed, BaseInv, TypeOK, Serialised
<1>6. ASSUME NEW c \in Conn, HostReceive(c), FromPeer(c, Head(toHost[c])).kind = "join"
      PROVE  BaseInv'
  <2>1. /\ toHost[c] # <<>> /\ toHost' = [toHost EXCEPT ![c] = Tail(@)]
        /\ HandleMemberJoin(c)
        /\ UNCHANGED <<open, cur, joined, guestC, nextConn, pubs, exact>>
    BY <1>6 DEF HostReceive
  <2>2. toHost' \in [Conn -> Seq(FromGuest)] /\ Serialised'
    BY <2>1, TakenFacts
  <2>3. toGuest[c] \o Cached \o <<CacheInfo>> \in Seq(FromHost)
    <3>1. Cached \in Seq(FromHost) /\ <<CacheInfo>> \in Seq(FromHost) /\ toGuest[c] \in Seq(FromHost)
      BY <1>0, CachedFacts DEF FromHost
    <3> QED
      BY <3>1, ConcatProperties
  <2>4. toGuest' \in [Conn -> Seq(FromHost)]
    BY <1>0, <2>1, <2>3 DEF HandleMemberJoin
  <2> QED
    BY <1>0, <2>1, <2>2, <2>4 DEF HandleMemberJoin, BaseInv, TypeOK
<1>7. ASSUME Writes PROVE BaseInv'
  <2>1. PICK ms, ns : Shape(ms, ns)
    BY <1>7, WritesShape
  <2>2. /\ IsContainer(hostC') /\ IsFiniteSet(DOMAIN hostC')
        /\ log' \in Seq(Version) /\ toGuest' \in [Conn -> Seq(FromHost)]
    BY <2>1, DistributeType DEF Shape
  <2>3. toHost' \in [Conn -> Seq(FromGuest)] /\ Serialised'
    <3>1. CASE UNCHANGED toHost
      BY <1>0, <3>1 DEF Serialised
    <3>2. CASE \E c \in Conn : \/ toHost' = [toHost EXCEPT ![c] = <<>>]
                               \/ toHost[c] # <<>> /\ toHost' = [toHost EXCEPT ![c] = Tail(@)]
      BY <3>2, TakenFacts
    <3> QED
      BY <2>1, <3>1, <3>2 DEF Shape
  <2>4. member' \subseteq Conn /\ open' \subseteq Conn
    BY <1>0, <2>1 DEF Shape
  <2>5. /\ exact' \in BOOLEAN /\ pubs' \in 0..MaxPub
        /\ UNCHANGED <<cur, joined, guestC, nextConn>>
    BY <2>1 DEF Shape
  <2> QED
    BY <1>0, <2>2, <2>3, <2>4, <2>5 DEF BaseInv, TypeOK
<1>8. CASE UNCHANGED vars
  BY <1>0, <1>8 DEF vars, BaseInv, TypeOK, Serialised
<1> QED
  BY <1>1, <1>2, <1>3, <1>4, <1>5, <1>6, <1>7, <1>8 DEF Next, Writes

(* Type correctness.                                                       *)
THEOREM TypeCorrect == Spec => []TypeOK
<1>1. BaseInv => TypeOK
  BY DEF BaseInv
<1> QED
  BY <1>1, BaseInit, BaseStep, PTL DEF Spec

-----------------------------------------------------------------------------
(* Cleanup *)

OwnersIn(c, X) == \A k \in DOMAIN c : c[k].lastUpdateFrom \in X

LEMMA ApplyOwners ==
    ASSUME NEW c, IsContainer(c), NEW m \in DataFrom(Sender), NEW X, OwnersIn(c, X), m.sender \in X
    PROVE  OwnersIn(Apply(c, m), X)
<1> DEFINE d == Apply(c, m)
<1>1. /\ m.remove => /\ DOMAIN d = DOMAIN c \ {m.key}
                     /\ \A k \in DOMAIN c \ {m.key} : d[k] = c[k]
      /\ ~m.remove => /\ DOMAIN d = DOMAIN c \cup {m.key}
                      /\ \A k \in DOMAIN c \ {m.key} : d[k] = c[k]
                      /\ d[m.key].lastUpdateFrom = m.sender
  BY ApplyFacts
<1> HIDE DEF d
<1>2. \A k \in DOMAIN d : (k \in DOMAIN c \ {m.key} /\ d[k] = c[k])
                        \/ d[k].lastUpdateFrom = m.sender
  BY <1>1
<1>3. OwnersIn(d, X)
  BY <1>2 DEF OwnersIn
<1> QED
  BY <1>3 DEF d

LEMMA RemovalsOwners ==
    ASSUME BaseInv, NEW S \in SUBSET DOMAIN hostC, NEW X,
           \A k \in DOMAIN hostC \ S : hostC[k].lastUpdateFrom \in X
    PROVE  OwnersIn(ApplyAll(hostC, Removals(S)), X)
<1>1. IsContainer(hostC) /\ IsFiniteSet(DOMAIN hostC) /\ S \in SUBSET Key /\ IsFiniteSet(S)
  BY FS_Subset DEF BaseInv, TypeOK, IsContainer
<1> DEFINE d == ApplyAll(hostC, Removals(S))
<1>2. DOMAIN d = DOMAIN hostC \ S /\ \A k \in DOMAIN hostC \ S : d[k] = hostC[k]
  BY <1>1, RemovalsRemove
<1> HIDE DEF d
<1>3. OwnersIn(d, X)
  BY <1>2 DEF OwnersIn
<1> QED
  BY <1>3 DEF d

OwnersInv == BaseInv /\ CleanupComplete

LEMMA OwnersInit == Init => OwnersInv
BY BaseInit, EmptyFacts DEF Init, OwnersInv, CleanupComplete

LEMMA OwnersStep == OwnersInv /\ [Next]_vars => OwnersInv'
<1> SUFFICES ASSUME OwnersInv, [Next]_vars, Cleanup PROVE OwnersIn(hostC', open' \cup {HostId})
  BY BaseStep DEF OwnersInv, CleanupComplete, OwnersIn
<1> DEFINE X == open \cup {HostId}
           X1 == open' \cup {HostId}
<1>0. /\ BaseInv /\ IsContainer(hostC) /\ OwnersIn(hostC, X)
  BY DEF OwnersInv, BaseInv, TypeOK, CleanupComplete, OwnersIn
<1>1. ASSUME UNCHANGED hostC, open \subseteq open' PROVE OwnersIn(hostC', X1)
  BY <1>0, <1>1 DEF OwnersIn
<1>2. ASSUME NEW c \in Conn, HostReceive(c) PROVE OwnersIn(hostC', X1)
  <2> DEFINE m == FromPeer(c, Head(toHost[c]))
  <2>1. /\ c \in open /\ toHost[c] # <<>> /\ UNCHANGED open
        /\ \/ m.kind = "join" /\ HandleMemberJoin(c)
           \/ m.kind = "clearCache" /\ HandleClearCache
           \/ m.kind = "data" /\ Distribute(<<m>>, <<m>>)
    BY <1>2 DEF HostReceive
  <2>2. CASE HandleMemberJoin(c)
    BY <1>1, <2>1, <2>2 DEF HandleMemberJoin
  <2>3. CASE HandleClearCache
    <3>1. hostC' = ApplyAll(hostC, Removals(DOMAIN hostC))
      BY <2>3 DEF HandleClearCache, Distribute
    <3>2. OwnersIn(ApplyAll(hostC, Removals(DOMAIN hostC)), X1)
      BY <1>0, RemovalsOwners
    <3> QED
      BY <3>1, <3>2
  <2>4. CASE m.kind = "data" /\ Distribute(<<m>>, <<m>>)
    <3>1. m \in DataFrom(Sender) /\ m.sender = c
      BY <1>0, <2>1, <2>4, HeadFacts
    <3> HIDE DEF m
    <3>2. hostC' = Apply(hostC, m)
      BY <2>4, Single DEF Distribute
    <3>3. OwnersIn(Apply(hostC, m), X)
      BY <1>0, <2>1, <3>1, ApplyOwners
    <3> QED
      BY <2>1, <3>2, <3>3
  <2> QED
    BY <2>1, <2>2, <2>3, <2>4
<1>3. ASSUME NEW c \in Conn, HostReceiveReacting(c) PROVE OwnersIn(hostC', X1)
  <2> DEFINE m == FromPeer(c, Head(toHost[c]))
  <2>1. c \in open /\ toHost[c] # <<>> /\ UNCHANGED open /\ m.kind = "data"
    BY <1>3 DEF HostReceiveReacting
  <2>2. PICK r \in Publications(HostId) : Distribute(<<m, r>>, <<r, m>>)
    BY <1>3 DEF HostReceiveReacting
  <2>3. m \in DataFrom(Sender) /\ m.sender = c
    BY <1>0, <2>1, HeadFacts
  <2>4. r \in DataFrom({HostId})
    BY PublicationFacts
  <2>5. r \in DataFrom(Sender) /\ r.sender = HostId
    BY <2>4 DEF DataFrom, Sender
  <2> HIDE DEF m
  <2>6. hostC' = Apply(Apply(hostC, m), r)
    BY <2>2, Double DEF Distribute
  <2>7. IsContainer(Apply(hostC, m)) /\ OwnersIn(Apply(hostC, m), X)
    BY <1>0, <2>1, <2>3, ApplyOwners, ApplyFacts
  <2>8. OwnersIn(Apply(Apply(hostC, m), r), X)
    BY <2>5, <2>7, ApplyOwners
  <2> QED
    BY <2>1, <2>6, <2>8
<1>4. ASSUME NEW m \in Publications(HostId), HostPublish(m) PROVE OwnersIn(hostC', X1)
  <2>1. m \in DataFrom({HostId})
    BY PublicationFacts
  <2>2. m \in DataFrom(Sender) /\ m.sender = HostId
    BY <2>1 DEF DataFrom, Sender
  <2>3. hostC' = Apply(hostC, m) /\ UNCHANGED open
    BY <1>4, Single DEF HostPublish, Distribute
  <2>4. OwnersIn(Apply(hostC, m), X)
    BY <1>0, <2>2, ApplyOwners
  <2> QED
    BY <2>3, <2>4
<1>5. ASSUME NEW c \in Conn, HostClosed(c) PROVE OwnersIn(hostC', X1)
  <2>1. hostC' = ApplyAll(hostC, Removals(Doomed(c))) /\ open' = open \ {c}
    BY <1>5 DEF HostClosed
  <2>2. Doomed(c) = {k \in DOMAIN hostC : hostC[k].lastUpdateFrom = c}
    BY DEF Doomed
  <2>3. \A k \in DOMAIN hostC \ Doomed(c) : hostC[k].lastUpdateFrom \in X1
    BY <1>0, <2>1, <2>2 DEF OwnersIn
  <2>4. OwnersIn(ApplyAll(hostC, Removals(Doomed(c))), X1)
    BY <1>0, <2>2, <2>3, RemovalsOwners
  <2> QED
    BY <2>1, <2>4
<1>6. ASSUME NEW g \in Guest,
             \/ Open(g) \/ JoinGroup(g) \/ GuestReceive(g) \/ GuestClosed(g)
             \/ \E m \in Publications(NoConn) \cup {ClearCache} : Publish(g, m)
      PROVE  OwnersIn(hostC', X1)
  BY <1>1, <1>6 DEF Open, JoinGroup, GuestReceive, GuestClosed, Publish
<1>7. CASE UNCHANGED vars
  BY <1>1, <1>7 DEF vars
<1> QED
  BY <1>2, <1>3, <1>4, <1>5, <1>6, <1>7 DEF Next

(* An instance of a cleanup type is never left behind by the connection    *)
(* that last updated it, however many connections and publications there   *)
(* are: the sender is the host's own doing, not the guest's.               *)
THEOREM Cleaned == Spec => []CleanupComplete
<1>1. OwnersInv => CleanupComplete
  BY DEF OwnersInv
<1> QED
  BY <1>1, OwnersInit, OwnersStep, PTL DEF Spec

-----------------------------------------------------------------------------
(* Views *)

LEMMA ContentsEqual ==
    ASSUME NEW a, IsContainer(a), NEW b, IsContainer(b)
    PROVE  Contents(a) = Contents(b) <=>
               /\ DOMAIN a = DOMAIN b
               /\ \A k \in DOMAIN a : /\ a[k].inst = b[k].inst
                                      /\ a[k].lastUpdateFrom = b[k].lastUpdateFrom
<1>1. /\ DOMAIN Contents(a) = DOMAIN a /\ DOMAIN Contents(b) = DOMAIN b
      /\ \A k \in DOMAIN a : Contents(a)[k] = <<a[k].inst, a[k].lastUpdateFrom>>
      /\ \A k \in DOMAIN b : Contents(b)[k] = <<b[k].inst, b[k].lastUpdateFrom>>
  BY DEF Contents
<1>2. ASSUME Contents(a) = Contents(b)
      PROVE  /\ DOMAIN a = DOMAIN b
             /\ \A k \in DOMAIN a : /\ a[k].inst = b[k].inst
                                    /\ a[k].lastUpdateFrom = b[k].lastUpdateFrom
  <2>1. DOMAIN a = DOMAIN b
    BY <1>1, <1>2
  <2>2. \A k \in DOMAIN a : <<a[k].inst, a[k].lastUpdateFrom>> = <<b[k].inst, b[k].lastUpdateFrom>>
    BY <1>1, <1>2, <2>1
  <2> QED
    BY <2>1, <2>2
<1>3. ASSUME DOMAIN a = DOMAIN b,
             \A k \in DOMAIN a : /\ a[k].inst = b[k].inst
                                 /\ a[k].lastUpdateFrom = b[k].lastUpdateFrom
      PROVE  Contents(a) = Contents(b)
  BY <1>3 DEF Contents
<1> QED
  BY <1>2, <1>3

(* The two halves of ApplyFacts.                                           *)
LEMMA ApplyRemoved ==
    ASSUME NEW c, IsContainer(c), NEW m \in DataFrom(Sender), m.remove
    PROVE  /\ DOMAIN Apply(c, m) = DOMAIN c \ {m.key}
           /\ \A k \in DOMAIN c \ {m.key} : Apply(c, m)[k] = c[k]
BY ApplyFacts

LEMMA ApplyInserted ==
    ASSUME NEW c, IsContainer(c), NEW m \in DataFrom(Sender), ~m.remove
    PROVE  /\ DOMAIN Apply(c, m) = DOMAIN c \cup {m.key}
           /\ \A k \in DOMAIN c \ {m.key} : Apply(c, m)[k] = c[k]
           /\ Apply(c, m)[m.key].lastUpdateFrom = m.sender
           /\ Apply(c, m)[m.key].inst = IF m.key \in DOMAIN c
                                        THEN Merge(c[m.key].inst, m) ELSE m.inst
BY ApplyFacts

(* A guest that holds what the host holds does so after the next           *)
(* transmission, if that is one of a whole instance.                       *)
LEMMA ApplySame ==
    ASSUME NEW a, IsContainer(a), NEW b, IsContainer(b), Contents(a) = Contents(b),
           NEW m \in DataFrom(Sender), Whole(m)
    PROVE  Contents(Apply(a, Wire(m))) = Contents(Apply(b, m))
<1> DEFINE w == Wire(m)
           a1 == Apply(a, w)
           b1 == Apply(b, m)
<1>1. /\ w \in DataFrom(Sender) /\ w.key = m.key /\ w.remove = m.remove /\ w.sender = m.sender
      /\ w.included = m.included
      /\ \A p \in Prop : w.inst[p] = IF p \in m.included THEN m.inst[p] ELSE Unset
  BY WireFacts
<1>2. /\ m.inst \in [Prop -> Val \cup {Unset}] /\ m.included \in SUBSET Prop
      /\ w.inst \in [Prop -> Val \cup {Unset}]
  BY <1>1 DEF DataFrom, Instance
<1>3. w.inst = m.inst
  <2>1. \A p \in Prop : p \notin m.included => m.inst[p] = Unset
    BY DEF Whole, Valid
  <2> QED
    BY <1>1, <1>2, <2>1
<1>4. /\ DOMAIN a = DOMAIN b
      /\ \A k \in DOMAIN a : /\ a[k].inst = b[k].inst
                             /\ a[k].lastUpdateFrom = b[k].lastUpdateFrom
  BY ContentsEqual
<1> HIDE DEF w
<1>8. w \in DataFrom(Sender) /\ w.key = m.key /\ w.sender = m.sender
  BY <1>1
<1>5. IsContainer(a1) /\ IsContainer(b1)
  BY <1>1, ApplyFacts
<1>6. CASE m.remove
  <2>1. /\ DOMAIN a1 = DOMAIN a \ {m.key} /\ DOMAIN b1 = DOMAIN b \ {m.key}
        /\ \A k \in DOMAIN a \ {m.key} : a1[k] = a[k]
        /\ \A k \in DOMAIN b \ {m.key} : b1[k] = b[k]
    <3>1. w.remove
      BY <1>1, <1>6
    <3>2. /\ DOMAIN a1 = DOMAIN a \ {w.key}
          /\ \A k \in DOMAIN a \ {w.key} : a1[k] = a[k]
      BY <1>8, <3>1, ApplyRemoved
    <3>3. /\ DOMAIN b1 = DOMAIN b \ {m.key}
          /\ \A k \in DOMAIN b \ {m.key} : b1[k] = b[k]
      BY <1>6, ApplyRemoved
    <3> HIDE DEF a1, b1
    <3> QED
      BY <1>8, <3>2, <3>3
  <2> HIDE DEF a1, b1
  <2>2. /\ DOMAIN a1 = DOMAIN b1
        /\ \A k \in DOMAIN a1 : /\ a1[k].inst = b1[k].inst
                                /\ a1[k].lastUpdateFrom = b1[k].lastUpdateFrom
    BY <1>4, <2>1
  <2>3. Contents(a1) = Contents(b1)
    BY <1>5, <2>2, ContentsEqual
  <2> QED
    BY <2>3 DEF a1, b1, w
<1>7. CASE ~m.remove
  <2>0. /\ DOMAIN a1 = DOMAIN a \cup {w.key}
        /\ \A k \in DOMAIN a \ {w.key} : a1[k] = a[k]
        /\ a1[w.key].lastUpdateFrom = w.sender
        /\ a1[w.key].inst = IF w.key \in DOMAIN a THEN Merge(a[w.key].inst, w) ELSE w.inst
    <3>1. ~w.remove
      BY <1>1, <1>7
    <3> HIDE DEF a1
    <3>2. /\ DOMAIN Apply(a, w) = DOMAIN a \cup {w.key}
          /\ \A k \in DOMAIN a \ {w.key} : Apply(a, w)[k] = a[k]
          /\ Apply(a, w)[w.key].lastUpdateFrom = w.sender
          /\ Apply(a, w)[w.key].inst = IF w.key \in DOMAIN a
                                       THEN Merge(a[w.key].inst, w) ELSE w.inst
      <4>1. PICK x \in DataFrom(Sender) : x = w
        BY <1>8
      <4>2. ~x.remove
        BY <3>1, <4>1
      <4>3. /\ DOMAIN Apply(a, x) = DOMAIN a \cup {x.key}
            /\ \A k \in DOMAIN a \ {x.key} : Apply(a, x)[k] = a[k]
            /\ Apply(a, x)[x.key].lastUpdateFrom = x.sender
            /\ Apply(a, x)[x.key].inst = IF x.key \in DOMAIN a
                                         THEN Merge(a[x.key].inst, x) ELSE x.inst
        BY <4>2, ApplyInserted
      <4> QED
        BY <4>1, <4>3
    <3> QED
      BY <3>2 DEF a1
  <2>9. /\ DOMAIN b1 = DOMAIN b \cup {m.key}
        /\ \A k \in DOMAIN b \ {m.key} : b1[k] = b[k]
        /\ b1[m.key].lastUpdateFrom = m.sender
        /\ b1[m.key].inst = IF m.key \in DOMAIN b THEN Merge(b[m.key].inst, m) ELSE m.inst
    BY <1>7, ApplyInserted
  <2> HIDE DEF a1, b1
  <2>1. /\ DOMAIN a1 = DOMAIN a \cup {m.key} /\ DOMAIN b1 = DOMAIN b \cup {m.key}
        /\ \A k \in DOMAIN a \ {m.key} : a1[k] = a[k]
        /\ \A k \in DOMAIN b \ {m.key} : b1[k] = b[k]
        /\ a1[m.key].lastUpdateFrom = m.sender /\ b1[m.key].lastUpdateFrom = m.sender
    BY <1>8, <2>0, <2>9
  <2>2. /\ a1[m.key].inst = IF m.key \in DOMAIN a THEN Merge(a[m.key].inst, w) ELSE w.inst
        /\ b1[m.key].inst = IF m.key \in DOMAIN b THEN Merge(b[m.key].inst, m) ELSE m.inst
    BY <1>8, <2>0, <2>9
  <2>3. m.key \in DOMAIN a => Merge(a[m.key].inst, w) = Merge(b[m.key].inst, m)
    BY <1>1, <1>3, <1>4 DEF Merge
  <2>4. a1[m.key].inst = b1[m.key].inst
    BY <1>3, <1>4, <2>2, <2>3
  <2>5. /\ DOMAIN a1 = DOMAIN b1
        /\ \A k \in DOMAIN a1 : /\ a1[k].inst = b1[k].inst
                                /\ a1[k].lastUpdateFrom = b1[k].lastUpdateFrom
    BY <1>4, <2>1, <2>4
  <2>6. Contents(a1) = Contents(b1)
    BY <1>5, <2>5, ContentsEqual
  <2> QED
    BY <2>6 DEF a1, b1, w
<1> QED
  BY <1>6, <1>7

LEMMA StagesSame ==
    ASSUME NEW a, IsContainer(a), NEW b, IsContainer(b), IsFiniteSet(DOMAIN b),
           Contents(a) = Contents(b),
           NEW ms \in Seq(DataFrom(Sender)), \A n \in 1..Len(ms) : Whole(ms[n])
    PROVE  \A n \in 0..Len(ms) : Contents(Stages(a, Wires(ms))[n]) = Contents(Stages(b, ms)[n])
<1> DEFINE ws == Wires(ms)
           s == Stages(a, ws)
           t == Stages(b, ms)
           G == {n \in 0..Len(ms) : IsContainer(s[n]) /\ Contents(s[n]) = Contents(t[n])}
<1>1. /\ Len(ms) \in Nat /\ Len(ws) = Len(ms)
      /\ \A n \in 1..Len(ms) : ms[n] \in DataFrom(Sender) /\ ws[n] = Wire(ms[n])
  BY WiresFacts
<1>2. /\ s[0] = a
      /\ \A n \in 1..Len(ms) : s[n] = Apply(s[n - 1], ws[n])
  <2> HIDE DEF ws
  <2>1. Len(ws) \in Nat
    BY <1>1
  <2>2. /\ Stages(a, ws)[0] = a
        /\ \A n \in 1..Len(ws) : Stages(a, ws)[n] = Apply(Stages(a, ws)[n - 1], ws[n])
    BY <2>1, StagesDef
  <2> QED
    BY <1>1, <2>2
<1>3. /\ t[0] = b
      /\ \A n \in 1..Len(ms) : t[n] = Apply(t[n - 1], ms[n])
      /\ \A n \in 0..Len(ms) : IsContainer(t[n])
  BY <1>1, StagesDef, StagesType
<1> HIDE DEF s, t, ws
<1>4. 0 \in G
  BY <1>1, <1>2, <1>3
<1>5. ASSUME NEW n \in 1..Len(ms), n - 1 \in G PROVE n \in G
  <2> DEFINE m == ms[n]
             a0 == s[n - 1]
             b0 == t[n - 1]
  <2>1. /\ m \in DataFrom(Sender) /\ Whole(m) /\ n \in 0..Len(ms) /\ n - 1 \in 0..Len(ms)
        /\ IsContainer(a0) /\ IsContainer(b0) /\ Contents(a0) = Contents(b0)
        /\ s[n] = Apply(a0, Wire(m)) /\ t[n] = Apply(b0, m)
    BY <1>1, <1>2, <1>3, <1>5
  <2> HIDE DEF m, a0, b0
  <2>2. Contents(Apply(a0, Wire(m))) = Contents(Apply(b0, m))
    BY <2>1, ApplySame
  <2>3. IsContainer(Apply(a0, Wire(m)))
    BY <2>1, WireFacts, ApplyFacts
  <2> QED
    BY <2>1, <2>2, <2>3
<1> HIDE DEF G
<1>6. \A n \in 0..Len(ms) : n \in G
  BY <1>1, <1>4, <1>5, Upto
<1> QED
  BY <1>6 DEF G, s, t, ws

(* What is transmitted to a new member fills its container.                *)
LEMMA CachedFills ==
    ASSUME BaseInv
    PROVE  Contents(ApplyAll(Empty, Cached)) = Contents(hostC)
<1> DEFINE R == Cached
           K == Cardinality(DOMAIN hostC)
           s == Stages(Empty, R)
           Filled(n) == /\ IsContainer(s[n])
                        /\ DOMAIN s[n] = {R[i].key : i \in 1..n}
                        /\ \A k \in DOMAIN s[n] : /\ s[n][k].inst = hostC[k].inst
                                                  /\ s[n][k].lastUpdateFrom = hostC[k].lastUpdateFrom
           G == {n \in 0..K : Filled(n)}
<1>1. /\ R \in Seq(DataFrom(Sender)) /\ Len(R) = K /\ K \in Nat
      /\ \A n \in 1..K : /\ R[n].key \in DOMAIN hostC
                         /\ ~R[n].remove
                         /\ R[n].inst = hostC[R[n].key].inst
                         /\ R[n].sender = hostC[R[n].key].lastUpdateFrom
      /\ \A i, j \in 1..K : R[i].key = R[j].key => i = j
      /\ \A k \in DOMAIN hostC : \E n \in 1..K : R[n].key = k
  BY CachedFacts
<1>2. \A n \in 1..K : R[n] \in DataFrom(Sender)
  <2> HIDE DEF R, K
  <2> QED
    BY <1>1
<1>3. s[0] = Empty /\ \A n \in 1..K : s[n] = Apply(s[n - 1], R[n])
  <2> HIDE DEF R, K
  <2>1. Len(R) \in Nat
    BY <1>1
  <2>2. /\ Stages(Empty, R)[0] = Empty
        /\ \A n \in 1..Len(R) : Stages(Empty, R)[n] = Apply(Stages(Empty, R)[n - 1], R[n])
    BY <2>1, StagesDef
  <2> QED
    BY <1>1, <2>2
<1> HIDE DEF s, R, K
<1>4. 0 \in G
  BY <1>1, <1>3, EmptyFacts
<1>5. ASSUME NEW n \in 1..K, n - 1 \in G PROVE n \in G
  <2> DEFINE m == R[n]
             d == s[n - 1]
  <2>1. n \in 0..K /\ n - 1 \in 0..K /\ \A i \in 1..n : i = n \/ i \in 1..n - 1
    BY <1>1
  <2>2. /\ IsContainer(d) /\ DOMAIN d = {R[i].key : i \in 1..n - 1}
        /\ \A k \in DOMAIN d : /\ d[k].inst = hostC[k].inst
                               /\ d[k].lastUpdateFrom = hostC[k].lastUpdateFrom
    BY <1>5
  <2>3. /\ m \in DataFrom(Sender) /\ ~m.remove /\ m.inst = hostC[m.key].inst
        /\ m.sender = hostC[m.key].lastUpdateFrom /\ s[n] = Apply(d, m)
    BY <1>1, <1>2, <1>3
  <2>4. m.key \notin DOMAIN d
    <3>1. \A i \in 1..n - 1 : i \in 1..K /\ i # n
      BY <1>1
    <3>2. \A i \in 1..n - 1 : R[i].key # R[n].key
      BY <1>1, <3>1
    <3> QED
      BY <2>2, <3>2
  <2> HIDE DEF d, m
  <2>5. /\ IsContainer(s[n])
        /\ DOMAIN s[n] = DOMAIN d \cup {m.key}
        /\ \A k \in DOMAIN d \ {m.key} : s[n][k] = d[k]
        /\ s[n][m.key].lastUpdateFrom = m.sender /\ s[n][m.key].inst = m.inst
    <3>1. IsContainer(Apply(d, m))
      BY <2>2, <2>3, ApplyFacts
    <3>2. /\ DOMAIN Apply(d, m) = DOMAIN d \cup {m.key}
          /\ \A k \in DOMAIN d \ {m.key} : Apply(d, m)[k] = d[k]
          /\ Apply(d, m)[m.key].lastUpdateFrom = m.sender
          /\ Apply(d, m)[m.key].inst = IF m.key \in DOMAIN d
                                       THEN Merge(d[m.key].inst, m) ELSE m.inst
      BY <2>2, <2>3, ApplyInserted
    <3> QED
      BY <2>3, <2>4, <3>1, <3>2
  <2>6. DOMAIN s[n] = {R[i].key : i \in 1..n}
    <3>1. {R[i].key : i \in 1..n} = {R[i].key : i \in 1..n - 1} \cup {R[n].key}
      <4>1. n \in 1..n /\ \A i \in 1..n - 1 : i \in 1..n
        BY <1>1
      <4> QED
        BY <2>1, <4>1
    <3> QED
      BY <2>2, <2>5, <3>1 DEF m
  <2>7. \A k \in DOMAIN s[n] : /\ s[n][k].inst = hostC[k].inst
                               /\ s[n][k].lastUpdateFrom = hostC[k].lastUpdateFrom
    BY <2>2, <2>3, <2>5
  <2> QED
    BY <2>1, <2>5, <2>6, <2>7
<1>6. Filled(K)
  <2>1. \A n \in 0..K : n \in G
    <3> HIDE DEF G
    <3> QED
      BY <1>1, <1>4, <1>5, Upto
  <2>2. K \in 0..K
    BY <1>1
  <2> QED
    BY <2>1, <2>2
<1>7. DOMAIN s[K] = DOMAIN hostC
  <2>1. {R[i].key : i \in 1..K} \subseteq DOMAIN hostC
    BY <1>1
  <2>2. DOMAIN hostC \subseteq {R[i].key : i \in 1..K}
    <3> SUFFICES ASSUME NEW k \in DOMAIN hostC PROVE k \in {R[i].key : i \in 1..K}
      OBVIOUS
    <3>1. PICK n \in 1..K : R[n].key = k
      BY <1>1
    <3> QED
      BY <3>1
  <2> QED
    BY <1>6, <2>1, <2>2
<1>8. Contents(s[K]) = Contents(hostC)
  <2>1. IsContainer(hostC)
    BY DEF BaseInv, TypeOK
  <2> QED
    BY <1>6, <1>7, <2>1, ContentsEqual
<1>9. ApplyAll(Empty, R) = s[K]
  BY <1>1 DEF ApplyAll, s
<1> QED
  BY <1>8, <1>9 DEF R

(* What a member has not received yet: the last u transmissions are about  *)
(* what has happened to the host's container since it joined, and before   *)
(* them comes the end of the cache, or nothing.                            *)
Following(q, u) ==
    /\ u \in 0..Len(q)
    /\ \A n \in 1..Len(q) : q[n] = CacheInfo <=> n = Len(q) - u

(* Going through them the container c takes the last u + 1 versions of l.  *)
Shows(q, c, l, u) ==
    \A n \in 0..u : Contents(Stages(c, q)[Len(q) - u + n]) = l[Len(l) - u + n]

LEMMA FollowReceive ==
    ASSUME NEW q \in Seq(FromHost), q # <<>>, NEW c, NEW l \in Seq(Version),
           NEW u, Following(q, u), u < Len(l)
    PROVE  /\ Following(Tail(q), IF u = Len(q) THEN u - 1 ELSE u)
           /\ Shows(q, c, l, u) =>
                  Shows(Tail(q), Apply(c, Head(q)), l, IF u = Len(q) THEN u - 1 ELSE u)
<1> DEFINE v == IF u = Len(q) THEN u - 1 ELSE u
           t == Tail(q)
           s == Stages(c, q)
           r == Stages(Apply(c, Head(q)), t)
<1>1. /\ Len(q) \in Nat \ {0} /\ t \in Seq(FromHost) /\ Len(t) = Len(q) - 1
      /\ \A n \in 1..Len(q) - 1 : t[n] = q[n + 1]
  BY EmptySeq, LenProperties, HeadTailProperties
<1>2. \A n \in 0..Len(q) - 1 : r[n] = s[n + 1]
  BY StagesTail
<1>3. /\ u \in 0..Len(q)
      /\ \A n \in 1..Len(q) : q[n] = CacheInfo <=> n = Len(q) - u
  BY DEF Following
<1> HIDE DEF t, s, r
<1>4. /\ v \in 0..Len(t) /\ v <= u /\ Len(l) \in Nat
      /\ u = Len(q) => v = u - 1 /\ v = Len(t)
      /\ u # Len(q) => v = u
  BY <1>1, <1>3
<1> HIDE DEF v
<1>5. Following(t, v)
  <2>1. ASSUME NEW n \in 1..Len(t) PROVE t[n] = CacheInfo <=> n = Len(t) - v
    <3>0. n \in 1..Len(q) - 1 /\ n + 1 \in 1..Len(q)
      BY <1>1
    <3>1. t[n] = q[n + 1] /\ (q[n + 1] = CacheInfo <=> n + 1 = Len(q) - u)
      BY <1>1, <1>3, <3>0
    <3>2. CASE u # Len(q)
      <4>1. n + 1 = Len(q) - u <=> n = Len(t) - v
        BY <1>1, <1>3, <1>4, <3>0, <3>2
      <4> QED
        BY <3>1, <4>1
    <3>3. CASE u = Len(q)
      <4>1. Len(q) - u = 0 /\ n + 1 # 0 /\ Len(t) - v = 0 /\ n # 0
        BY <1>1, <1>4, <3>0, <3>3
      <4> QED
        BY <3>1, <4>1
    <3> QED
      BY <3>2, <3>3
  <2> QED
    BY <1>4, <2>1 DEF Following
<1>6. ASSUME Shows(q, c, l, u) PROVE Shows(t, Apply(c, Head(q)), l, v)
  <2>0. \A n \in 0..u : Contents(s[Len(q) - u + n]) = l[Len(l) - u + n]
    BY <1>6 DEF Shows, s
  <2>1. ASSUME NEW n \in 0..v PROVE Contents(r[Len(t) - v + n]) = l[Len(l) - v + n]
    <3>1. Len(t) - v + n \in 0..Len(q) - 1
      BY <1>1, <1>4
    <3>2. r[Len(t) - v + n] = s[Len(t) - v + n + 1]
      BY <1>2, <3>1
    <3>3. CASE u = Len(q)
      <4>1. /\ n + 1 \in 0..u /\ Len(q) - u + (n + 1) = Len(t) - v + n + 1
            /\ Len(l) - u + (n + 1) = Len(l) - v + n
        <5> DEFINE K == Len(q)
                   L == Len(l)
                   T == Len(t)
        <5>1. K \in Nat \ {0} /\ L \in Nat /\ u = K /\ v = K - 1 /\ T = K - 1 /\ n \in 0..v
          BY <1>1, <1>4, <3>3
        <5> HIDE DEF K, L, T
        <5>2. n + 1 \in 0..u /\ K - u + (n + 1) = T - v + n + 1 /\ L - u + (n + 1) = L - v + n
          BY <5>1
        <5> QED
          BY <5>2 DEF K, L, T
      <4>2. Contents(s[Len(q) - u + (n + 1)]) = l[Len(l) - u + (n + 1)]
        BY <2>0, <4>1
      <4> QED
        BY <3>2, <4>1, <4>2
    <3>4. CASE u # Len(q)
      <4>1. /\ n \in 0..u /\ Len(q) - u + n = Len(t) - v + n + 1
            /\ Len(l) - u + n = Len(l) - v + n
        BY <1>1, <1>3, <1>4, <3>4
      <4>2. Contents(s[Len(q) - u + n]) = l[Len(l) - u + n]
        BY <2>0, <4>1
      <4> QED
        BY <3>2, <4>1, <4>2
    <3> QED
      BY <3>3, <3>4
  <2> QED
    BY <2>1 DEF Shows, r
<1> QED
  BY <1>5, <1>6 DEF t, v

(* A guest's container remains one, whatever it receives.                  *)
LEMMA ReceivedType ==
    ASSUME NEW c, IsContainer(c), NEW q \in Seq(FromHost)
    PROVE  \A n \in 0..Len(q) : IsContainer(Stages(c, q)[n])
<1> DEFINE s == Stages(c, q)
           S == {n \in 0..Len(q) : IsContainer(s[n])}
<1>1. Len(q) \in Nat /\ \A n \in 1..Len(q) : q[n] \in DataFrom(Sender) \cup {CacheInfo}
  BY DEF FromHost
<1>2. s[0] = c /\ \A n \in 1..Len(q) : s[n] = Apply(s[n - 1], q[n])
  BY <1>1, StagesDef
<1> HIDE DEF s
<1>3. 0 \in S
  BY <1>1, <1>2
<1>4. ASSUME NEW n \in 1..Len(q), n - 1 \in S PROVE n \in S
  <2> DEFINE d == s[n - 1]
             m == q[n]
  <2>1. IsContainer(d) /\ s[n] = Apply(d, m) /\ n \in 0..Len(q) /\ m \in DataFrom(Sender) \cup {CacheInfo}
    BY <1>1, <1>2, <1>4
  <2> HIDE DEF d, m
  <2>2. IsContainer(Apply(d, m))
    <3>1. CASE m \in DataFrom(Sender)
      BY <2>1, <3>1, ApplyFacts
    <3>2. CASE m = CacheInfo
      BY <2>1, <3>2 DEF Apply, CacheInfo
    <3> QED
      BY <2>1, <3>1, <3>2
  <2> QED
    BY <2>1, <2>2
<1> HIDE DEF S
<1>5. \A n \in 0..Len(q) : n \in S
  BY <1>1, <1>3, <1>4, Upto
<1> QED
  BY <1>5 DEF S, s

(* StagesConcat for what guests receive.                                   *)
LEMMA ReceivedConcat ==
    ASSUME NEW c, NEW q \in Seq(FromHost), NEW r \in Seq(FromHost)
    PROVE  /\ Len(q \o r) = Len(q) + Len(r)
           /\ \A n \in 0..Len(q) : Stages(c, q \o r)[n] = Stages(c, q)[n]
           /\ \A n \in 0..Len(r) :
                  Stages(c, q \o r)[Len(q) + n] = Stages(ApplyAll(c, q), r)[n]
<1>1. Len(q \o r) = Len(q) + Len(r)
  BY ConcatProperties
<1>2. ASSUME NEW n \in 0..Len(q) PROVE Stages(c, q \o r)[n] = Stages(c, q)[n]
  BY StagesConcat
<1>3. ASSUME NEW n \in 0..Len(r)
      PROVE  Stages(c, q \o r)[Len(q) + n] = Stages(ApplyAll(c, q), r)[n]
  BY StagesAfter
<1> QED
  BY <1>1, <1>2, <1>3

(* A transmission to the group extends both what a member has to receive   *)
(* and the versions of the host's container.                               *)
LEMMA FollowAppend ==
    ASSUME NEW q \in Seq(FromHost), NEW ns \in Seq(DataFrom(Sender)), NEW u, Following(q, u)
    PROVE  Following(q \o Wires(ns), u + Len(ns))
<1> DEFINE ws == Wires(ns)
           all == q \o ws
<1>1. /\ ws \in Seq(FromHost) /\ Len(ws) = Len(ns) /\ Len(ns) \in Nat
      /\ \A n \in 1..Len(ns) : ws[n] \in DataFrom(Sender)
  BY WiresFacts DEF FromHost
<1>2. \A n \in 1..Len(ns) : ws[n] # CacheInfo
  BY <1>1 DEF DataFrom, CacheInfo
<1> HIDE DEF ws
<1>3. /\ Len(q) \in Nat /\ Len(all) = Len(q) + Len(ns)
      /\ \A n \in 1..Len(q) + Len(ns) : all[n] = IF n <= Len(q) THEN q[n] ELSE ws[n - Len(q)]
  <2>1. /\ Len(all) = Len(q) + Len(ws)
        /\ \A n \in 1..Len(q) + Len(ws) : all[n] = IF n <= Len(q) THEN q[n] ELSE ws[n - Len(q)]
    BY <1>1, ConcatProperties
  <2> HIDE DEF all
  <2> QED
    BY <1>1, <2>1, LenProperties
<1>4. /\ u \in 0..Len(q)
      /\ \A n \in 1..Len(q) : q[n] = CacheInfo <=> n = Len(q) - u
  BY DEF Following
<1> HIDE DEF all
<1>5. u + Len(ns) \in 0..Len(all)
  BY <1>1, <1>3, <1>4
<1>6. ASSUME NEW n \in 1..Len(all)
      PROVE  all[n] = CacheInfo <=> n = Len(all) - (u + Len(ns))
  <2>1. n \in 1..Len(q) + Len(ns) /\ Len(all) - (u + Len(ns)) = Len(q) - u
    BY <1>1, <1>3, <1>4
  <2>2. CASE n <= Len(q)
    <3>1. n \in 1..Len(q) /\ all[n] = q[n]
      BY <1>1, <1>3, <2>1, <2>2
    <3> QED
      BY <1>4, <2>1, <3>1
  <2>3. CASE ~(n <= Len(q))
    <3>1. n - Len(q) \in 1..Len(ns) /\ all[n] = ws[n - Len(q)]
      BY <1>1, <1>3, <2>1, <2>3
    <3>2. n # Len(q) - u
      <4> DEFINE K == Len(q)
      <4>1. K \in Nat /\ u \in 0..K /\ n \in Int /\ ~(n <= K)
        BY <1>3, <1>4, <2>3
      <4> HIDE DEF K
      <4>2. n # K - u
        BY <4>1
      <4> QED
        BY <4>2 DEF K
    <3> QED
      BY <1>2, <2>1, <3>1, <3>2
  <2> QED
    BY <2>2, <2>3
<1>7. Following(all, u + Len(ns))
  BY <1>5, <1>6 DEF Following
<1> QED
  BY <1>7 DEF all, ws

LEMMA ShowsAppend ==
    ASSUME NEW q \in Seq(FromHost), NEW u \in 0..Len(q), NEW c, IsContainer(c),
           NEW h, IsContainer(h), IsFiniteSet(DOMAIN h),
           NEW ms \in Seq(DataFrom(Sender)), \A n \in 1..Len(ms) : Whole(ms[n]),
           NEW l \in Seq(Version), u < Len(l), l[Len(l)] = Contents(h),
           Shows(q, c, l, u)
    PROVE  Shows(q \o Wires(ms), c, l \o Versions(h, ms), u + Len(ms))
<1> DEFINE ws == Wires(ms)
           vs == Versions(h, ms)
           all == q \o ws
           ll == l \o vs
           Q == Len(q)
           L == Len(l)
           K == Len(ms)
           s == Stages(c, q)
           t == Stages(c, all)
           r == Stages(ApplyAll(c, q), ws)
<1>1. /\ ws \in Seq(FromHost) /\ Len(ws) = K
      /\ vs \in Seq(Version) /\ Len(vs) = K
      /\ \A n \in 1..K : vs[n] = Contents(Stages(h, ms)[n])
  BY WiresFacts, VersionsType DEF FromHost
<1> HIDE DEF ws
<1>2. /\ Len(all) = Q + K
      /\ \A n \in 0..Q : t[n] = s[n]
      /\ \A n \in 0..K : t[Q + n] = r[n]
  <2>1. /\ Len(q \o ws) = Len(q) + Len(ws)
        /\ \A n \in 0..Len(q) : Stages(c, q \o ws)[n] = Stages(c, q)[n]
        /\ \A n \in 0..Len(ws) : Stages(c, q \o ws)[Len(q) + n] = Stages(ApplyAll(c, q), ws)[n]
    <3> HIDE DEF s, t, r, all, Q, K
    <3>1. q \in Seq(FromHost) /\ ws \in Seq(FromHost)
      BY <1>1
    <3> QED
      BY ONLY <3>1, ReceivedConcat
  <2> QED
    BY <1>1, <2>1
<1> HIDE DEF vs
<1>3. /\ Len(ll) = L + K
      /\ \A n \in 1..L + K : ll[n] = IF n <= L THEN l[n] ELSE vs[n - L]
  <2>1. /\ Len(l \o vs) = Len(l) + Len(vs)
        /\ \A n \in 1..Len(l) + Len(vs) : (l \o vs)[n] = IF n <= Len(l) THEN l[n] ELSE vs[n - Len(l)]
    <3> HIDE DEF ll, L, K
    <3> QED
      BY <1>1, ConcatProperties
  <2> HIDE DEF K
  <2> QED
    BY <1>1, <2>1
<1>4. Q \in Nat /\ L \in Nat /\ K \in Nat /\ u \in 0..Q /\ u < L /\ u \in Nat
  OBVIOUS
<1>5. \A n \in 0..u : Contents(s[Q - u + n]) = l[L - u + n]
  BY DEF Shows
<1>6. IsContainer(ApplyAll(c, q)) /\ Contents(ApplyAll(c, q)) = Contents(h)
  <2>1. Q \in 0..Q /\ u \in 0..u /\ Q - u + u = Q /\ L - u + u = L
    BY <1>4
  <2>2. ApplyAll(c, q) = s[Q]
    BY DEF ApplyAll
  <2>3. IsContainer(s[Q])
    BY <2>1, ReceivedType
  <2>4. Contents(s[Q]) = l[L]
    <3> HIDE DEF s, Q, L
    <3> QED
      BY <1>5, <2>1
  <2> QED
    BY <2>2, <2>3, <2>4
<1>7. \A n \in 0..K : Contents(r[n]) = Contents(Stages(h, ms)[n])
  BY <1>6, StagesSame DEF ws
<1> HIDE DEF all, ll, Q, L, K, s, t, r
<1>8. ASSUME NEW n \in 0..u + K PROVE Contents(t[Q + K - (u + K) + n]) = ll[L + K - (u + K) + n]
  <2>1. CASE n <= u
    <3>1. /\ n \in 0..u /\ Q + K - (u + K) + n = Q - u + n /\ Q - u + n \in 0..Q
          /\ L + K - (u + K) + n = L - u + n /\ L - u + n \in 1..L + K /\ L - u + n <= L
      BY <1>4, <2>1
    <3> QED
      BY <1>2, <1>3, <1>5, <3>1
  <2>2. CASE ~(n <= u)
    <3> DEFINE k == n - u
    <3>1. /\ k \in 1..K /\ k \in 0..K /\ Q + K - (u + K) + n = Q + k
          /\ L + K - (u + K) + n = L + k /\ L + k \in 1..L + K /\ ~(L + k <= L) /\ L + k - L = k
      BY <1>4, <2>2
    <3> HIDE DEF k
    <3>2. t[Q + k] = r[k]
      BY <1>2, <3>1
    <3>5. ll[L + k] = vs[k]
      <4>1. PICK i \in 1..L + K : i = L + k
        BY <3>1
      <4>2. ll[i] = IF i <= L THEN l[i] ELSE vs[i - L]
        BY <1>3
      <4>3. ~(i <= L) /\ i - L = k
        BY <1>4, <3>1, <4>1
      <4> QED
        BY <4>1, <4>2, <4>3
    <3>3. Contents(r[k]) = Contents(Stages(h, ms)[k])
      BY <1>7, <3>1
    <3>4. vs[k] = Contents(Stages(h, ms)[k])
      BY <1>1, <3>1
    <3> QED
      BY <3>1, <3>2, <3>3, <3>4, <3>5
  <2> QED
    BY <2>1, <2>2
<1>9. Shows(all, c, ll, u + K)
  <2>1. \A n \in 0..u + K : Contents(t[Len(all) - (u + K) + n]) = ll[Len(ll) - (u + K) + n]
    <3>1. Len(all) = Q + K /\ Len(ll) = L + K
      BY <1>2, <1>3
    <3> SUFFICES ASSUME NEW n \in 0..u + K
                 PROVE  Contents(t[Len(all) - (u + K) + n]) = ll[Len(ll) - (u + K) + n]
      OBVIOUS
    <3>2. Contents(t[Q + K - (u + K) + n]) = ll[L + K - (u + K) + n]
      BY <1>8
    <3>3. /\ Len(all) - (u + K) + n = Q + K - (u + K) + n
          /\ Len(ll) - (u + K) + n = L + K - (u + K) + n
      BY <1>4, <3>1
    <3> QED
      BY <3>2, <3>3, Zenon
  <2> QED
    BY <2>1 DEF Shows, t
<1> QED
  BY <1>9 DEF all, ws, ll, vs, K

(* A new member is sent the cache and its end.                             *)
LEMMA FollowJoin ==
    ASSUME BaseInv, log # <<>>, log[Len(log)] = Contents(hostC)
    PROVE  /\ Following(<<>> \o Cached \o <<CacheInfo>>, 0)
           /\ Shows(<<>> \o Cached \o <<CacheInfo>>, Empty, log, 0)
<1> DEFINE R == Cached
           e == <<CacheInfo>>
           all == R \o e
           K == Len(R)
           L == Len(log)
<1>1. R \in Seq(DataFrom(Sender)) /\ R \in Seq(FromHost) /\ e \in Seq(FromHost)
  BY CachedFacts DEF FromHost
<1>2. Len(e) = 1 /\ e[1] = CacheInfo
  OBVIOUS
<1> HIDE DEF R, e
<1>3. /\ K \in Nat /\ Len(all) = K + 1 /\ <<>> \o R \o e = all
      /\ \A n \in 1..K + 1 : all[n] = IF n <= K THEN R[n] ELSE e[n - K]
  <2>1. /\ Len(all) = Len(R) + Len(e)
        /\ \A n \in 1..Len(R) + Len(e) : all[n] = IF n <= Len(R) THEN R[n] ELSE e[n - Len(R)]
    BY <1>1, ConcatProperties
  <2>2. <<>> \o R = R
    BY <1>1, ConcatEmptySeq
  <2>3. K \in Nat
    BY <1>1, LenProperties
  <2>4. <<>> \o R \o e = all
    BY <2>2
  <2> HIDE DEF all
  <2> QED
    BY <1>2, <2>1, <2>3, <2>4
<1>4. \A n \in 1..K : R[n] # CacheInfo
  BY <1>1 DEF DataFrom, CacheInfo
<1>5. /\ all[K + 1] = CacheInfo
      /\ \A n \in 1..K : all[n] # CacheInfo
  <2>1. K + 1 \in 1..K + 1 /\ ~(K + 1 <= K) /\ K + 1 - K = 1
    BY <1>3
  <2>2. \A n \in 1..K : n \in 1..K + 1 /\ n <= K
    BY <1>3
  <2> HIDE DEF K, all
  <2>3. all[K + 1] = e[K + 1 - K]
    BY <1>3, <2>1
  <2>4. all[K + 1] = CacheInfo
    BY <1>2, <2>1, <2>3
  <2>5. ASSUME NEW n \in 1..K PROVE all[n] # CacheInfo
    <3>1. all[n] = R[n]
      BY <1>3, <2>2
    <3> QED
      BY <1>4, <3>1
  <2> QED
    BY <2>4, <2>5
<1>6. Following(all, 0)
  <2> HIDE DEF K, all
  <2>1. 0 \in 0..K + 1 /\ K + 1 - 0 = K + 1 /\ \A n \in 1..K + 1 : n \in 1..K \/ n = K + 1
    BY <1>3
  <2>2. \A n \in 1..K : n # K + 1
    BY <1>3
  <2>3. \A n \in 1..K + 1 : all[n] = CacheInfo <=> n = K + 1
    BY <1>5, <2>1, <2>2
  <2> QED
    BY <1>3, <2>1, <2>3 DEF Following
<1>7. Shows(all, Empty, log, 0)
  <2> DEFINE s == Stages(Empty, all)
             d == ApplyAll(Empty, R)
             r == Stages(d, e)
  <2>1. s[K + 1] = r[1]
    <3>1. \A n \in 0..Len(e) : Stages(Empty, R \o e)[Len(R) + n] = Stages(ApplyAll(Empty, R), e)[n]
      <4> HIDE DEF s, d, r, K, all
      <4>1. R \in Seq(FromHost) /\ e \in Seq(FromHost)
        BY <1>1
      <4> QED
        BY ONLY <4>1, ReceivedConcat
    <3>2. 1 \in 0..Len(e)
      BY <1>2
    <3> QED
      BY <3>1, <3>2
  <2>2. r[1] = d
    <3> HIDE DEF d
    <3>1. Len(e) \in Nat /\ 1 \in 1..Len(e) /\ 1 - 1 = 0
      BY <1>2
    <3>2. r[0] = d /\ r[1] = Apply(r[0], e[1])
      BY <3>1, StagesDef
    <3>3. Apply(d, CacheInfo) = d
      BY DEF Apply, CacheInfo
    <3> QED
      BY <1>2, <3>2, <3>3
  <2>3. Contents(d) = Contents(hostC)
    BY CachedFills DEF R
  <2>4. L \in Nat
    BY LenProperties DEF BaseInv, TypeOK
  <2> HIDE DEF d, r
  <2>5. Contents(s[K + 1]) = log[L]
    BY <2>1, <2>2, <2>3
  <2> HIDE DEF s
  <2>6. ASSUME NEW n \in 0..0 PROVE Contents(s[Len(all) - 0 + n]) = log[L - 0 + n]
    <3>1. Len(all) - 0 + n = K + 1 /\ L - 0 + n = L
      BY <1>3, <2>4
    <3> QED
      BY <2>5, <3>1
  <2> QED
    BY <2>6 DEF Shows, s
<1>8. <<>> \o Cached \o <<CacheInfo>> = all
  BY <1>3 DEF R, e
<1> QED
  BY <1>6, <1>7, <1>8

-----------------------------------------------------------------------------
(* Members *)

HasJoin(q) == \E i \in 1..Len(q) : q[i] = Join
OneJoin(q) == \A i, j \in 1..Len(q) : q[i] = Join /\ q[j] = Join => i = j

(* Nothing is under way over a connection that has not been opened yet,    *)
(* nor is it a member.                                                     *)
Numbered ==
    /\ \A c \in member : c < nextConn
    /\ \A g \in Guest : cur[g] < nextConn
    /\ \A c \in Conn : c >= nextConn => toHost[c] = <<>> /\ toGuest[c] = <<>>

(* Guests do not share connections.                                        *)
Separate == \A g, h \in Guest : cur[g] = cur[h] /\ cur[g] # NoConn => g = h

(* A guest joins at most once, and until the host has got to know of it    *)
(* the guest has nothing, and nothing is under way to it.                  *)
Fresh(g) ==
    /\ ~joined[g] => guestC[g] = Empty
    /\ cur[g] # NoConn =>
          /\ OneJoin(toHost[cur[g]])
          /\ ~joined[g] => ~HasJoin(toHost[cur[g]])
          /\ ~joined[g] \/ HasJoin(toHost[cur[g]]) =>
                 guestC[g] = Empty /\ toGuest[cur[g]] = <<>> /\ cur[g] \notin member

LineInv == BaseInv /\ Numbered /\ Separate /\ \A g \in Guest : Fresh(g)

(* Joins in what remains of a queue, and in a longer one.                  *)
LEMMA JoinTail ==
    ASSUME NEW q \in Seq(FromGuest), q # <<>>
    PROVE  /\ HasJoin(Tail(q)) => HasJoin(q)
           /\ OneJoin(q) => OneJoin(Tail(q))
           /\ OneJoin(q) /\ q[1] = Join => ~HasJoin(Tail(q))
<1> DEFINE t == Tail(q)
<1>1. /\ Len(q) \in Nat \ {0} /\ Len(t) = Len(q) - 1
      /\ \A n \in 1..Len(q) - 1 : t[n] = q[n + 1]
  BY EmptySeq, LenProperties, HeadTailProperties
<1> HIDE DEF t
<1>2. /\ 1 \in 1..Len(q)
      /\ \A n \in 1..Len(t) : n + 1 \in 1..Len(q) /\ t[n] = q[n + 1] /\ n + 1 # 1
  BY <1>1
<1>3. HasJoin(t) => HasJoin(q)
  BY <1>2 DEF HasJoin
<1>4. OneJoin(q) => OneJoin(t)
  <2> SUFFICES ASSUME OneJoin(q), NEW i \in 1..Len(t), NEW j \in 1..Len(t), t[i] = Join, t[j] = Join
               PROVE  i = j
    BY DEF OneJoin
  <2>1. i + 1 = j + 1
    BY <1>2 DEF OneJoin
  <2> QED
    BY <1>1, <2>1
<1>5. OneJoin(q) /\ q[1] = Join => ~HasJoin(t)
  <2> SUFFICES ASSUME OneJoin(q), q[1] = Join, NEW i \in 1..Len(t), t[i] = Join PROVE FALSE
    BY DEF HasJoin
  <2>1. 1 = i + 1
    BY <1>2 DEF OneJoin
  <2> QED
    BY <1>2, <2>1
<1> QED
  BY <1>3, <1>4, <1>5 DEF t

LEMMA JoinAppend ==
    ASSUME NEW q \in Seq(FromGuest), NEW m \in FromGuest
    PROVE  /\ m # Join => /\ HasJoin(Append(q, m)) => HasJoin(q)
                          /\ OneJoin(q) => OneJoin(Append(q, m))
           /\ ~HasJoin(q) => OneJoin(Append(q, m))
<1> DEFINE a == Append(q, m)
<1>1. /\ Len(q) \in Nat /\ Len(a) = Len(q) + 1 /\ a[Len(q) + 1] = m
      /\ \A n \in 1..Len(q) : a[n] = q[n]
  <2> DEFINE K == Len(q)
  <2>1. K \in Nat /\ Len(a) = K + 1
    BY AppendProperties, LenProperties
  <2>2. \A n \in 1..K + 1 : a[n] = IF n <= K THEN q[n] ELSE m
    BY AppendProperties
  <2> HIDE DEF a, K
  <2>3. a[K + 1] = m /\ \A n \in 1..K : a[n] = q[n]
    BY <2>1, <2>2
  <2> QED
    BY <2>1, <2>3 DEF K
<1> HIDE DEF a
<1>2. \A n \in 1..Len(a) : \/ n \in 1..Len(q) /\ a[n] = q[n]
                           \/ n = Len(q) + 1 /\ a[n] = m
  <2>1. \A n \in 1..Len(a) : n \in 1..Len(q) \/ n = Len(q) + 1
    <3> DEFINE K == Len(q)
    <3>1. K \in Nat /\ Len(a) = K + 1
      BY <1>1
    <3> HIDE DEF K
    <3>2. \A n \in 1..K + 1 : n \in 1..K \/ n = K + 1
      BY <3>1
    <3> QED
      BY <3>1, <3>2 DEF K
  <2>2. a[Len(q) + 1] = m /\ \A n \in 1..Len(q) : a[n] = q[n]
    BY <1>1
  <2> QED
    BY ONLY <2>1, <2>2, Zenon
<1>3. m # Join /\ HasJoin(a) => HasJoin(q)
  BY <1>2 DEF HasJoin
<1>4. m # Join /\ OneJoin(q) => OneJoin(a)
  BY <1>2 DEF OneJoin
<1>5. ~HasJoin(q) => OneJoin(a)
  BY <1>2 DEF HasJoin, OneJoin
<1> QED
  BY <1>3, <1>4, <1>5 DEF a

LEMMA NoJoin == ~HasJoin(<<>>) /\ OneJoin(<<>>)
BY DEF HasJoin, OneJoin

LEMMA LineInit == Init => LineInv
<1> SUFFICES ASSUME Init PROVE LineInv
  OBVIOUS
<1>1. BaseInv
  BY BaseInit
<1>2. Numbered
  BY DEF Init, Numbered, NoConn, FirstId
<1>3. Separate /\ \A g \in Guest : Fresh(g)
  BY DEF Init, Separate, Fresh, NoConn
<1> QED
  BY <1>1, <1>2, <1>3 DEF LineInv

(* A guest to which a step does nothing but shorten what it has sent, or   *)
(* extend it with something other than joining, and take it out of the     *)
(* group.                                                                  *)
LEMMA FreshKept ==
    ASSUME NEW g \in Guest, Fresh(g), cur'[g] = cur[g], joined'[g] = joined[g],
           guestC'[g] = guestC[g],
           cur[g] # NoConn =>
              /\ OneJoin(toHost[cur[g]]) => OneJoin(toHost'[cur[g]])
              /\ HasJoin(toHost'[cur[g]]) => HasJoin(toHost[cur[g]])
              /\ cur[g] \in member' => cur[g] \in member
              /\ cur[g] \notin member => toGuest'[cur[g]] = toGuest[cur[g]]
    PROVE  Fresh(g)'
<1>1. ~joined'[g] => guestC'[g] = Empty
  BY DEF Fresh
<1>2. ASSUME cur'[g] # NoConn
      PROVE  /\ OneJoin(toHost'[cur'[g]])
             /\ ~joined'[g] => ~HasJoin(toHost'[cur'[g]])
             /\ ~joined'[g] \/ HasJoin(toHost'[cur'[g]]) =>
                    guestC'[g] = Empty /\ toGuest'[cur'[g]] = <<>> /\ cur'[g] \notin member'
  BY <1>2, Zenon DEF Fresh
<1> QED
  BY <1>1, <1>2 DEF Fresh

LEMMA LineWrites ==
    ASSUME LineInv, NEW ms, NEW ns, Shape(ms, ns)
    PROVE  Numbered' /\ Separate' /\ \A g \in Guest : Fresh(g)'
<1>0. /\ toHost \in [Conn -> Seq(FromGuest)] /\ cur \in [Guest -> Conn \cup {NoConn}]
      /\ toGuest \in [Conn -> Seq(FromHost)] /\ member \subseteq Conn
      /\ Numbered /\ Separate /\ BaseInv
  BY DEF LineInv, BaseInv, TypeOK
<1>1. /\ UNCHANGED <<cur, joined, guestC, nextConn>>
      /\ toGuest' = Broadcast(member', ns) /\ member' \subseteq member
  BY DEF Shape
<1>2. \A c \in Conn : c \notin member' => toGuest'[c] = toGuest[c]
  BY <1>1 DEF Broadcast
<1>3. ASSUME NEW c \in Conn
      PROVE  /\ toHost[c] = <<>> => toHost'[c] = <<>>
             /\ OneJoin(toHost[c]) => OneJoin(toHost'[c])
             /\ HasJoin(toHost'[c]) => HasJoin(toHost[c])
  <2>1. toHost'[c] = toHost[c] \/ toHost'[c] = <<>> \/ (toHost[c] # <<>> /\ toHost'[c] = Tail(toHost[c]))
    BY <1>0 DEF Shape
  <2>2. toHost[c] \in Seq(FromGuest)
    BY <1>0
  <2> QED
    BY <2>1, <2>2, JoinTail, NoJoin
<1>4. Numbered'
  <2>1. \A c \in Conn : c >= nextConn => c \notin member'
    <3>1. \A c \in member' : c < nextConn /\ c \in Conn
      BY <1>0, <1>1 DEF Numbered
    <3>2. nextConn \in Int /\ \A c \in Conn : c \in Int
      BY DistributionAssumption DEF BaseInv, TypeOK, Conn, FirstId, LineInv
    <3> QED
      BY <3>1, <3>2
  <2> QED
    BY <1>0, <1>1, <1>2, <1>3, <2>1 DEF Numbered
<1>5. Separate'
  BY <1>0, <1>1 DEF Separate
<1>6. ASSUME NEW g \in Guest PROVE Fresh(g)'
  <2>1. Fresh(g)
    BY DEF LineInv
  <2>2. cur[g] # NoConn => cur[g] \in Conn
    BY <1>0
  <2> QED
    BY <1>1, <1>2, <1>3, <2>1, <2>2, FreshKept
<1> QED
  BY <1>4, <1>5, <1>6

LEMMA LineStep == LineInv /\ [Next]_vars => LineInv'
<1> SUFFICES ASSUME LineInv, [Next]_vars PROVE Numbered' /\ Separate' /\ \A g \in Guest : Fresh(g)'
  BY BaseStep DEF LineInv
<1>0. /\ BaseInv /\ Numbered /\ Separate /\ \A g \in Guest : Fresh(g)
      /\ toHost \in [Conn -> Seq(FromGuest)] /\ cur \in [Guest -> Conn \cup {NoConn}]
      /\ toGuest \in [Conn -> Seq(FromHost)] /\ member \subseteq Conn /\ joined \in [Guest -> BOOLEAN]
      /\ nextConn \in Int /\ (\A c \in Conn : c \in Int /\ c # NoConn) /\ NoConn \in Int
      /\ DOMAIN guestC = Guest
  BY DistributionAssumption DEF LineInv, BaseInv, TypeOK, Conn, FirstId, NoConn
<1>1. ASSUME NEW g \in Guest, Open(g) PROVE Numbered' /\ Separate' /\ \A h \in Guest : Fresh(h)'
  <2>1. /\ cur[g] = NoConn /\ nextConn \in Conn /\ cur' = [cur EXCEPT ![g] = nextConn]
        /\ nextConn' = nextConn + 1
        /\ UNCHANGED <<member, joined, guestC, toHost, toGuest>>
    BY <1>1 DEF Open
  <2>2. toHost[nextConn] = <<>> /\ toGuest[nextConn] = <<>> /\ nextConn \notin member
    BY <1>0, <2>1 DEF Numbered
  <2>3. \A h \in Guest : cur'[h] = IF h = g THEN nextConn ELSE cur[h]
    BY <1>0, <2>1
  <2>4. Numbered'
    <3>1. \A c \in member : c < nextConn'
      <4>1. \A c \in member : c \in Int /\ c < nextConn
        BY <1>0 DEF Numbered
      <4> QED
        BY <1>0, <2>1, <4>1
    <3>2. \A h \in Guest : cur'[h] < nextConn'
      <4>1. \A h \in Guest : cur[h] \in Int /\ cur[h] < nextConn
        BY <1>0 DEF Numbered
      <4> QED
        BY <1>0, <2>1, <2>3, <4>1
    <3>3. \A c \in Conn : c >= nextConn' => c >= nextConn
      BY <1>0, <2>1
    <3> QED
      BY <1>0, <2>1, <3>1, <3>2, <3>3 DEF Numbered
  <2>5. Separate'
    <3>1. \A h \in Guest : cur[h] # nextConn
      BY <1>0 DEF Numbered
    <3> QED
      BY <1>0, <2>3, <3>1 DEF Separate
  <2>6. ASSUME NEW h \in Guest PROVE Fresh(h)'
    <3>1. Fresh(h)
      BY <1>0
    <3>2. CASE h = g
      BY <2>1, <2>2, <2>3, <3>1, <3>2, NoJoin DEF Fresh
    <3>3. CASE h # g
      BY <2>1, <2>3, <3>1, <3>3, FreshKept
    <3> QED
      BY <3>2, <3>3
  <2> QED
    BY <2>4, <2>5, <2>6
<1>2. ASSUME NEW g \in Guest, JoinGroup(g) PROVE Numbered' /\ Separate' /\ \A h \in Guest : Fresh(h)'
  <2> DEFINE c == cur[g]
  <2>1. /\ c \in Conn /\ ~joined[g] /\ toHost' = SentToHost(c, Join)
        /\ joined' = [joined EXCEPT ![g] = TRUE]
        /\ UNCHANGED <<hostC, member, open, cur, guestC, toGuest, nextConn>>
    BY <1>0, <1>2 DEF JoinGroup
  <2>2. Join \in FromGuest /\ Join.kind # "data"
    BY DEF Join, FromGuest
  <2>3. \A d \in Conn : toHost'[d] = toHost[d] \/ (d = c /\ toHost'[d] = Append(toHost[d], Join))
    <3> HIDE DEF c
    <3> QED
      BY <1>0, <2>1, <2>2, SentFacts
  <2>4. Numbered'
    <3>1. c < nextConn
      BY <1>0 DEF Numbered
    <3>2. \A d \in Conn : d >= nextConn => d # c
      BY <1>0, <2>1, <3>1
    <3> QED
      BY <1>0, <2>1, <2>3, <3>2 DEF Numbered
  <2>5. Separate'
    BY <1>0, <2>1 DEF Separate
  <2>6. ASSUME NEW h \in Guest PROVE Fresh(h)'
    <3>1. Fresh(h)
      BY <1>0
    <3>2. CASE h = g
      <4>1. /\ guestC[g] = Empty /\ toGuest[c] = <<>> /\ c \notin member
            /\ OneJoin(toHost[c]) /\ ~HasJoin(toHost[c])
        BY <1>0, <2>1 DEF Fresh
      <4>2. OneJoin(toHost'[c])
        <5> HIDE DEF c
        <5>1. toHost[c] \in Seq(FromGuest)
          BY <1>0, <2>1
        <5>2. OneJoin(Append(toHost[c], Join))
          BY <2>2, <4>1, <5>1, JoinAppend
        <5> QED
          BY <2>1, <2>3, <4>1, <5>2
      <4>3. joined'[g]
        BY <1>0, <2>1
      <4> QED
        BY <2>1, <3>2, <4>1, <4>2, <4>3 DEF Fresh
    <3>3. CASE h # g
      <4>1. joined'[h] = joined[h]
        BY <1>0, <2>1, <3>3
      <4>2. cur[h] # NoConn => cur[h] # c /\ toHost'[cur[h]] = toHost[cur[h]]
        BY <1>0, <2>1, <2>3, <3>3 DEF Separate
      <4> QED
        BY <2>1, <3>1, <4>1, <4>2, FreshKept
    <3> QED
      BY <3>2, <3>3
  <2> QED
    BY <2>4, <2>5, <2>6
<1>3. ASSUME NEW g \in Guest, NEW m \in Publications(NoConn) \cup {ClearCache}, Publish(g, m)
      PROVE  Numbered' /\ Separate' /\ \A h \in Guest : Fresh(h)'
  <2> DEFINE c == cur[g]
  <2>1. /\ c \in Conn /\ toHost' = SentToHost(c, Wire(m))
        /\ UNCHANGED <<hostC, member, open, cur, joined, guestC, toGuest, nextConn>>
    BY <1>0, <1>3 DEF Publish
  <2>2. /\ Wire(m) \in FromGuest /\ (Wire(m).kind = "data" => Whole(Wire(m)))
        /\ Wire(m) # Join
    <3>1. CASE m = ClearCache
      BY <3>1 DEF Wire, ClearCache, FromGuest, Join
    <3>2. CASE m \in Publications(NoConn)
      <4>1. /\ Wire(m) \in DataFrom({NoConn}) /\ Wire(m).kind = "data" /\ Whole(Wire(m))
        BY <3>2, PublicationFacts, WireFacts
      <4>2. Wire(m) # Join
        BY <4>1 DEF Join
      <4> QED
        BY <4>1, <4>2 DEF FromGuest
    <3> QED
      BY <3>1, <3>2
  <2>3. \A d \in Conn : toHost'[d] = toHost[d] \/ (d = c /\ toHost'[d] = Append(toHost[d], Wire(m)))
    <3> HIDE DEF c
    <3> QED
      BY <1>0, <2>1, <2>2, SentFacts
  <2>4. Numbered'
    <3>1. c < nextConn
      BY <1>0 DEF Numbered
    <3>2. \A d \in Conn : d >= nextConn => d # c
      BY <1>0, <2>1, <3>1
    <3> QED
      BY <1>0, <2>1, <2>3, <3>2 DEF Numbered
  <2>5. Separate'
    BY <1>0, <2>1 DEF Separate
  <2>6. ASSUME NEW h \in Guest PROVE Fresh(h)'
    <3>1. Fresh(h)
      BY <1>0
    <3>2. \A d \in Conn : /\ OneJoin(toHost[d]) => OneJoin(toHost'[d])
                          /\ HasJoin(toHost'[d]) => HasJoin(toHost[d])
      <4> SUFFICES ASSUME NEW d \in Conn
                   PROVE  /\ OneJoin(toHost[d]) => OneJoin(toHost'[d])
                          /\ HasJoin(toHost'[d]) => HasJoin(toHost[d])
        OBVIOUS
      <4> DEFINE w == Wire(m)
      <4>1. toHost[d] \in Seq(FromGuest) /\ w \in FromGuest /\ w # Join
        BY <1>0, <2>2
      <4> HIDE DEF w
      <4>2. /\ HasJoin(Append(toHost[d], w)) => HasJoin(toHost[d])
            /\ OneJoin(toHost[d]) => OneJoin(Append(toHost[d], w))
        BY <4>1, JoinAppend
      <4>3. toHost'[d] = toHost[d] \/ toHost'[d] = Append(toHost[d], w)
        BY <2>3 DEF w
      <4> QED
        BY <4>2, <4>3
    <3>3. cur[h] # NoConn => cur[h] \in Conn
      BY <1>0
    <3> QED
      BY <2>1, <3>1, <3>2, <3>3, FreshKept
  <2> QED
    BY <2>4, <2>5, <2>6
<1>4. ASSUME NEW g \in Guest, GuestReceive(g) PROVE Numbered' /\ Separate' /\ \A h \in Guest : Fresh(h)'
  <2> DEFINE c == cur[g]
  <2>1. /\ c \in Conn /\ toGuest[c] # <<>>
        /\ guestC' = [guestC EXCEPT ![g] = Apply(@, Head(toGuest[c]))]
        /\ toGuest' = [toGuest EXCEPT ![c] = Tail(@)]
        /\ UNCHANGED <<member, cur, joined, toHost, nextConn>>
    BY <1>0, <1>4 DEF GuestReceive
  <2>2. \A d \in Conn : d # c => toGuest'[d] = toGuest[d]
    BY <1>0, <2>1
  <2>3. Numbered'
    <3>1. \A d \in Conn : d >= nextConn => d # c
      BY <1>0, <2>1 DEF Numbered
    <3> QED
      BY <1>0, <2>1, <2>2, <3>1 DEF Numbered
  <2>4. Separate'
    BY <1>0, <2>1 DEF Separate
  <2>5. ASSUME NEW h \in Guest PROVE Fresh(h)'
    <3>1. Fresh(h)
      BY <1>0
    <3>2. CASE h = g
      <4>1. joined[g] /\ ~HasJoin(toHost[c]) /\ OneJoin(toHost[c])
        BY <1>0, <2>1 DEF Fresh
      <4> QED
        BY <2>1, <3>2, <4>1 DEF Fresh
    <3>3. CASE h # g
      <4>1. guestC'[h] = guestC[h]
        BY <1>0, <2>1, <3>3
      <4>2. cur[h] # NoConn => toGuest'[cur[h]] = toGuest[cur[h]]
        BY <1>0, <2>1, <2>2, <3>3 DEF Separate
      <4> QED
        BY <2>1, <3>1, <4>1, <4>2, FreshKept
    <3> QED
      BY <3>2, <3>3
  <2> QED
    BY <2>3, <2>4, <2>5
<1>5. ASSUME NEW g \in Guest, GuestClosed(g) PROVE Numbered' /\ Separate' /\ \A h \in Guest : Fresh(h)'
  <2> DEFINE c == cur[g]
  <2>1. /\ c \in Conn
        /\ toGuest' = [toGuest EXCEPT ![c] = <<>>]
        /\ cur' = [cur EXCEPT ![g] = NoConn]
        /\ UNCHANGED <<member, joined, guestC, toHost, nextConn>>
    BY <1>0, <1>5 DEF GuestClosed
  <2>2. /\ \A d \in Conn : toGuest'[d] = IF d = c THEN <<>> ELSE toGuest[d]
        /\ \A h \in Guest : cur'[h] = IF h = g THEN NoConn ELSE cur[h]
    BY <1>0, <2>1
  <2>3. Numbered'
    <3>1. NoConn < nextConn
      BY <1>0 DEF Numbered, LineInv, BaseInv, TypeOK, FirstId, NoConn
    <3> QED
      BY <1>0, <2>1, <2>2, <3>1 DEF Numbered
  <2>4. Separate'
    BY <1>0, <2>2 DEF Separate
  <2>5. ASSUME NEW h \in Guest PROVE Fresh(h)'
    <3>1. Fresh(h)
      BY <1>0
    <3>2. CASE h = g
      BY <2>1, <2>2, <3>1, <3>2 DEF Fresh
    <3>3. CASE h # g
      <4>1. cur'[h] = cur[h]
        BY <2>2, <3>3
      <4>2. cur[h] # NoConn => toGuest'[cur[h]] = toGuest[cur[h]]
        BY <1>0, <2>1, <2>2, <3>3 DEF Separate
      <4> QED
        BY <2>1, <3>1, <4>1, <4>2, FreshKept
    <3> QED
      BY <3>2, <3>3
  <2> QED
    BY <2>3, <2>4, <2>5
<1>6. ASSUME NEW c \in Conn, HostReceive(c), FromPeer(c, Head(toHost[c])).kind = "join"
      PROVE  Numbered' /\ Separate' /\ \A h \in Guest : Fresh(h)'
  <2>1. /\ toHost[c] # <<>> /\ toHost' = [toHost EXCEPT ![c] = Tail(@)]
        /\ HandleMemberJoin(c)
        /\ UNCHANGED <<open, cur, joined, guestC, nextConn>>
    BY <1>6 DEF HostReceive
  <2>2. /\ toHost[c] \in Seq(FromGuest) /\ toHost[c][1] = Join
        /\ Len(toHost[c]) \in Nat \ {0}
    BY <1>0, <1>6, <2>1, HeadFacts
  <2>3. /\ member' = member \cup {c}
        /\ \A d \in Conn : d # c => toGuest'[d] = toGuest[d] /\ toHost'[d] = toHost[d]
        /\ toHost'[c] = Tail(toHost[c])
    BY <1>0, <2>1 DEF HandleMemberJoin
  <2>4. c < nextConn
    BY <1>0, <2>1 DEF Numbered
  <2>5. Numbered'
    <3>1. \A d \in Conn : d >= nextConn => d # c
      BY <1>0, <2>4
    <3> QED
      BY <1>0, <2>1, <2>3, <2>4, <3>1 DEF Numbered
  <2>6. Separate'
    BY <1>0, <2>1 DEF Separate
  <2>7. ASSUME NEW h \in Guest PROVE Fresh(h)'
    <3>1. Fresh(h)
      BY <1>0
    <3>2. CASE cur[h] = c
      <4>1. HasJoin(toHost[c])
        BY <2>2 DEF HasJoin
      <4>2. joined[h] /\ OneJoin(toHost[c])
        BY <1>0, <3>1, <3>2, <4>1 DEF Fresh
      <4>3. OneJoin(toHost'[c]) /\ ~HasJoin(toHost'[c])
        BY <2>1, <2>2, <2>3, <4>2, JoinTail
      <4> QED
        BY <2>1, <3>2, <4>2, <4>3 DEF Fresh
    <3>3. CASE cur[h] # c
      <4>1. cur[h] # NoConn => cur[h] \in Conn
        BY <1>0
      <4> QED
        BY <2>1, <2>3, <3>1, <3>3, <4>1, FreshKept
    <3> QED
      BY <3>2, <3>3
  <2> QED
    BY <2>5, <2>6, <2>7
<1>7. CASE Writes
  <2>1. PICK ms, ns : Shape(ms, ns)
    BY <1>0, <1>7, WritesShape
  <2> QED
    BY <2>1, LineWrites
<1>8. CASE UNCHANGED vars
  BY <1>0, <1>8 DEF vars, Numbered, Separate, Fresh
<1> QED
  BY <1>1, <1>2, <1>3, <1>4, <1>5, <1>6, <1>7, <1>8 DEF Next, Writes

(* The host's container is at its last version.                            *)
Current == log # <<>> /\ log[Len(log)] = Contents(hostC)

(* A member that receives what is under way goes through the versions up   *)
(* to the last one.                                                        *)
Fed(g) ==
    cur[g] \in member =>
        \E u : /\ Following(toGuest[cur[g]], u) /\ u < Len(log)
               /\ exact => Shows(toGuest[cur[g]], guestC[g], log, u)

ViewInv == LineInv /\ Current /\ \A g \in Guest : Fed(g)

LEMMA LogGrows ==
    ASSUME BaseInv, NEW ms, NEW ns, Shape(ms, ns)
    PROVE  /\ Len(log) \in Nat /\ Len(ms) \in Nat /\ Len(log') = Len(log) + Len(ms)
           /\ \A n \in 1..Len(log) : log'[n] = log[n]
           /\ \A n \in 1..Len(ms) : log'[Len(log) + n] = Contents(Stages(hostC, ms)[n])
           /\ Len(ms) = 0 => log' = log
<1> DEFINE vs == Versions(hostC, ms)
           L == Len(log)
           K == Len(ms)
<1>1. /\ ms \in Seq(DataFrom(Sender)) /\ log' = log \o vs /\ log \in Seq(Version)
      /\ IsContainer(hostC) /\ IsFiniteSet(DOMAIN hostC)
  BY DEF Shape, BaseInv, TypeOK
<1>2. /\ vs \in Seq(Version) /\ Len(vs) = K /\ K \in Nat /\ L \in Nat
      /\ \A n \in 1..K : vs[n] = Contents(Stages(hostC, ms)[n])
  BY <1>1, VersionsType, LenProperties
<1> HIDE DEF vs
<1>3. /\ Len(log \o vs) = Len(log) + Len(vs)
      /\ \A n \in 1..Len(log) + Len(vs) :
             (log \o vs)[n] = IF n <= Len(log) THEN log[n] ELSE vs[n - Len(log)]
  <2> HIDE DEF L, K
  <2> QED
    BY <1>1, <1>2, ConcatProperties
<1>4. /\ Len(log') = L + K
      /\ \A n \in 1..L + K : log'[n] = IF n <= L THEN log[n] ELSE vs[n - L]
  BY <1>1, <1>2, <1>3
<1> HIDE DEF L, K
<1>5. ASSUME NEW n \in 1..L PROVE log'[n] = log[n]
  <2>1. n \in 1..L + K /\ n <= L
    BY <1>2
  <2> QED
    BY <1>4, <2>1
<1>6. ASSUME NEW n \in 1..K PROVE log'[L + n] = Contents(Stages(hostC, ms)[n])
  <2>1. PICK i \in 1..L + K : i = L + n
    BY <1>2
  <2>2. ~(i <= L) /\ i - L = n
    BY <1>2, <2>1
  <2>3. log'[i] = vs[n]
    <3>1. log'[i] = IF i <= L THEN log[i] ELSE vs[i - L]
      BY <1>4
    <3> QED
      BY <2>2, <3>1
  <2> QED
    BY <1>2, <2>1, <2>3
<1>7. K = 0 => log' = log
  <2> SUFFICES ASSUME K = 0 PROVE log' = log
    OBVIOUS
  <2>1. vs = <<>>
    BY <1>2, EmptySeq
  <2> QED
    BY <1>1, <2>1, ConcatEmptySeq
<1> QED
  BY <1>2, <1>4, <1>5, <1>6, <1>7 DEF L, K

LEMMA CurrentWrites ==
    ASSUME BaseInv, Current, NEW ms, NEW ns, Shape(ms, ns)
    PROVE  Current'
<1> DEFINE L == Len(log)
           K == Len(ms)
           s == Stages(hostC, ms)
<1>1. /\ L \in Nat /\ K \in Nat /\ Len(log') = L + K
      /\ \A n \in 1..K : log'[L + n] = Contents(s[n])
      /\ K = 0 => log' = log
  BY LogGrows
<1>2. hostC' = s[K] /\ s[0] = hostC
  BY <1>1, StagesDef DEF Shape, ApplyAll
<1>3. L # 0 /\ log \in Seq(Version) /\ log' \in Seq(Version)
  BY EmptySeq, DistributeType DEF Current, BaseInv, TypeOK, Shape
<1> HIDE DEF L, K, s
<1>4. log' # <<>>
  <2>1. Len(log') # 0
    BY <1>1, <1>3
  <2> QED
    BY <2>1
<1>5. CASE K = 0
  BY <1>1, <1>2, <1>5 DEF Current
<1>6. CASE K # 0
  <2>1. K \in 1..K
    BY <1>1, <1>6
  <2> QED
    BY <1>1, <1>2, <1>4, <2>1 DEF Current
<1> QED
  BY <1>5, <1>6

LEMMA FedWrites ==
    ASSUME ViewInv, NEW ms, NEW ns, Shape(ms, ns), NEW g \in Guest
    PROVE  Fed(g)'
<1> SUFFICES ASSUME cur[g] \in member'
             PROVE  \E u : /\ Following(toGuest'[cur[g]], u) /\ u < Len(log')
                           /\ exact' => Shows(toGuest'[cur[g]], guestC[g], log', u)
  BY DEF Fed, Shape
<1> DEFINE c == cur[g]
           q == toGuest[c]
           h == guestC[g]
<1>1. /\ ms \in Seq(DataFrom(Sender)) /\ ns \in Seq(DataFrom(Sender)) /\ Len(ms) = Len(ns)
      /\ log' = log \o Versions(hostC, ms)
      /\ toGuest' = Broadcast(member', ns) /\ member' \subseteq member
      /\ exact' => exact /\ ms = ns /\ \A n \in 1..Len(ms) : Whole(ms[n])
  BY DEF Shape
<1>2. /\ member \subseteq Conn /\ toGuest \in [Conn -> Seq(FromHost)]
      /\ IsContainer(h) /\ IsContainer(hostC) /\ IsFiniteSet(DOMAIN hostC)
      /\ log \in Seq(Version) /\ BaseInv /\ Current
  BY DEF ViewInv, LineInv, BaseInv, TypeOK
<1>3. c \in Conn /\ c \in member /\ Live(c) /\ q \in Seq(FromHost)
  BY <1>1, <1>2 DEF Live
<1>4. toGuest'[c] = q \o Wires(ns)
  BY <1>1, <1>3 DEF Broadcast, Wires
<1>5. PICK u : /\ Following(q, u) /\ u < Len(log)
               /\ exact => Shows(q, h, log, u)
  BY <1>3 DEF ViewInv, Fed
<1> HIDE DEF c, q, h
<1>6. u \in 0..Len(q) /\ Len(q) \in Nat /\ u \in Nat
  <2>1. u \in 0..Len(q) /\ Len(q) \in Nat
    BY <1>3, <1>5, LenProperties DEF Following
  <2> QED
    BY <2>1
<1> DEFINE v == u + Len(ns)
<1>7. Following(toGuest'[c], v)
  BY <1>1, <1>3, <1>4, <1>5, FollowAppend
<1>8. v < Len(log')
  <2>1. Len(log) \in Nat /\ Len(ms) \in Nat /\ Len(log') = Len(log) + Len(ms)
    BY <1>2, LogGrows
  <2> QED
    BY <1>1, <1>5, <1>6, <2>1
<1>9. ASSUME exact' PROVE Shows(toGuest'[c], h, log', v)
  <2>1. exact /\ ms = ns /\ \A n \in 1..Len(ms) : Whole(ms[n])
    BY <1>1, <1>9
  <2>2. Shows(q, h, log, u) /\ log[Len(log)] = Contents(hostC)
    BY <1>2, <1>5, <2>1 DEF Current
  <2>3. Shows(q \o Wires(ms), h, log \o Versions(hostC, ms), u + Len(ms))
    BY <1>1, <1>2, <1>3, <1>5, <1>6, <2>1, <2>2, ShowsAppend
  <2> QED
    BY <1>1, <1>4, <2>1, <2>3
<1> HIDE DEF v
<1> QED
  BY <1>7, <1>8, <1>9 DEF c, h

(* A guest to which a step does nothing, or that it takes out of the group.*)
LEMMA FedKept ==
    ASSUME NEW g \in Guest, Fed(g), UNCHANGED <<log, exact>>, cur'[g] = cur[g],
           guestC'[g] = guestC[g], cur[g] \in member' => cur[g] \in member,
           cur[g] \in member => toGuest'[cur[g]] = toGuest[cur[g]]
    PROVE  Fed(g)'
<1> SUFFICES ASSUME cur[g] \in member'
             PROVE  \E u : /\ Following(toGuest'[cur[g]], u) /\ u < Len(log)
                           /\ exact => Shows(toGuest'[cur[g]], guestC[g], log, u)
  BY DEF Fed
<1>1. PICK u : /\ Following(toGuest[cur[g]], u) /\ u < Len(log)
               /\ exact => Shows(toGuest[cur[g]], guestC[g], log, u)
  BY DEF Fed
<1> QED
  BY <1>1

LEMMA ViewInit == Init => ViewInv
<1> SUFFICES ASSUME Init PROVE ViewInv
  OBVIOUS
<1>1. LineInv
  BY LineInit
<1>2. Current
  <2> DEFINE v == Contents(Empty)
  <2>1. log = <<v>> /\ hostC = Empty
    BY DEF Init
  <2> HIDE DEF v
  <2>2. log # <<>> /\ log[Len(log)] = v
    BY <2>1
  <2> QED
    BY <2>1, <2>2 DEF Current, v
<1>3. \A g \in Guest : Fed(g)
  BY DEF Init, Fed
<1> QED
  BY <1>1, <1>2, <1>3 DEF ViewInv

LEMMA ViewStep == ViewInv /\ [Next]_vars => ViewInv'
<1> SUFFICES ASSUME ViewInv, [Next]_vars PROVE Current' /\ \A g \in Guest : Fed(g)'
  BY LineStep DEF ViewInv
<1>0. /\ LineInv /\ BaseInv /\ Current /\ \A g \in Guest : Fed(g)
      /\ Numbered /\ Separate /\ \A g \in Guest : Fresh(g)
      /\ cur \in [Guest -> Conn \cup {NoConn}] /\ NoConn \notin Conn
      /\ toGuest \in [Conn -> Seq(FromHost)] /\ member \subseteq Conn
      /\ DOMAIN guestC = Guest /\ log \in Seq(Version)
  <2>1. /\ LineInv /\ BaseInv /\ Current /\ \A g \in Guest : Fed(g)
        /\ Numbered /\ Separate /\ \A g \in Guest : Fresh(g)
    BY DEF ViewInv, LineInv
  <2>2. NoConn \notin Conn
    BY DistributionAssumption DEF Conn, FirstId, NoConn
  <2> QED
    BY <2>1, <2>2 DEF BaseInv, TypeOK
<1>1. ASSUME NEW g \in Guest, Open(g) PROVE Current' /\ \A h \in Guest : Fed(h)'
  <2>1. /\ nextConn \in Conn /\ cur' = [cur EXCEPT ![g] = nextConn]
        /\ UNCHANGED <<hostC, member, guestC, toGuest, log, exact>>
    BY <1>1 DEF Open
  <2>2. ASSUME NEW h \in Guest PROVE Fed(h)'
    <3>1. CASE h = g
      <4>1. nextConn \notin member
        <5>1. nextConn \in Int
          BY DEF ViewInv, LineInv, BaseInv, TypeOK, FirstId
        <5> QED
          BY <1>0, <5>1 DEF Numbered
      <4>2. cur'[h] \notin member'
        BY <1>0, <2>1, <3>1, <4>1
      <4> QED
        BY <4>2 DEF Fed
    <3>2. CASE h # g
      <4>1. cur'[h] = cur[h]
        BY <1>0, <2>1, <3>2
      <4> QED
        BY <1>0, <2>1, <4>1, FedKept
    <3> QED
      BY <3>1, <3>2
  <2>3. Current'
    BY <1>0, <2>1 DEF Current
  <2> QED
    BY <2>2, <2>3
<1>2. ASSUME NEW g \in Guest,
             JoinGroup(g) \/ \E m \in Publications(NoConn) \cup {ClearCache} : Publish(g, m)
      PROVE  Current' /\ \A h \in Guest : Fed(h)'
  <2>1. UNCHANGED <<hostC, member, cur, guestC, toGuest, log, exact>>
    BY <1>2 DEF JoinGroup, Publish
  <2>2. Current'
    BY <1>0, <2>1 DEF Current
  <2> QED
    BY <1>0, <2>1, <2>2, FedKept
<1>3. ASSUME NEW g \in Guest, GuestReceive(g) PROVE Current' /\ \A h \in Guest : Fed(h)'
  <2> DEFINE c == cur[g]
             q == toGuest[c]
  <2>1. /\ c \in Conn /\ q # <<>> /\ q \in Seq(FromHost)
        /\ guestC' = [guestC EXCEPT ![g] = Apply(@, Head(q))]
        /\ toGuest' = [toGuest EXCEPT ![c] = Tail(@)]
        /\ UNCHANGED <<hostC, member, cur, log, exact>>
    BY <1>0, <1>3 DEF GuestReceive
  <2>2. ASSUME NEW h \in Guest PROVE Fed(h)'
    <3>1. CASE h = g
      <4> SUFFICES ASSUME c \in member
                   PROVE  \E u : /\ Following(toGuest'[c], u) /\ u < Len(log)
                                 /\ exact => Shows(toGuest'[c], guestC'[g], log, u)
        BY <2>1, <3>1 DEF Fed
      <4>1. PICK u : /\ Following(q, u) /\ u < Len(log)
                     /\ exact => Shows(q, guestC[g], log, u)
        BY <1>0 DEF Fed
      <4>2. toGuest'[c] = Tail(q) /\ guestC'[g] = Apply(guestC[g], Head(q))
        BY <1>0, <2>1
      <4> HIDE DEF c, q
      <4> DEFINE v == IF u = Len(q) THEN u - 1 ELSE u
      <4>3. /\ Following(Tail(q), v)
            /\ Shows(q, guestC[g], log, u) => Shows(Tail(q), Apply(guestC[g], Head(q)), log, v)
        BY <1>0, <2>1, <4>1, FollowReceive
      <4>4. v < Len(log)
        <5>1. u \in 0..Len(q) /\ Len(q) \in Nat /\ Len(log) \in Nat
          BY <1>0, <2>1, <4>1, LenProperties DEF Following
        <5> QED
          BY <4>1, <5>1
      <4> HIDE DEF v
      <4> QED
        BY <4>1, <4>2, <4>3, <4>4
    <3>2. CASE h # g
      <4>1. guestC'[h] = guestC[h]
        BY <1>0, <2>1, <3>2
      <4>2. cur[h] \in member => toGuest'[cur[h]] = toGuest[cur[h]]
        BY <1>0, <2>1, <3>2 DEF Separate
      <4> QED
        BY <1>0, <2>1, <4>1, <4>2, FedKept
    <3> QED
      BY <3>1, <3>2
  <2>3. Current'
    BY <1>0, <2>1 DEF Current
  <2> QED
    BY <2>2, <2>3
<1>4. ASSUME NEW g \in Guest, GuestClosed(g) PROVE Current' /\ \A h \in Guest : Fed(h)'
  <2> DEFINE c == cur[g]
  <2>1. /\ c \in Conn
        /\ toGuest' = [toGuest EXCEPT ![c] = <<>>]
        /\ cur' = [cur EXCEPT ![g] = NoConn]
        /\ UNCHANGED <<hostC, member, guestC, log, exact>>
    BY <1>0, <1>4 DEF GuestClosed
  <2>2. ASSUME NEW h \in Guest PROVE Fed(h)'
    <3>1. CASE h = g
      <4>1. cur'[h] \notin member'
        BY <1>0, <2>1, <3>1
      <4> QED
        BY <4>1 DEF Fed
    <3>2. CASE h # g
      <4>1. cur'[h] = cur[h]
        BY <1>0, <2>1, <3>2
      <4>2. cur[h] \in member => toGuest'[cur[h]] = toGuest[cur[h]]
        BY <1>0, <2>1, <3>2 DEF Separate
      <4> QED
        BY <1>0, <2>1, <4>1, <4>2, FedKept
    <3> QED
      BY <3>1, <3>2
  <2>3. Current'
    BY <1>0, <2>1 DEF Current
  <2> QED
    BY <2>2, <2>3
<1>5. ASSUME NEW c \in Conn, HostReceive(c), FromPeer(c, Head(toHost[c])).kind = "join"
      PROVE  Current' /\ \A h \in Guest : Fed(h)'
  <2>1. /\ toHost[c] # <<>> /\ HandleMemberJoin(c)
        /\ UNCHANGED <<cur, joined, guestC, exact>>
    BY <1>5 DEF HostReceive
  <2>2. /\ UNCHANGED <<hostC, log>> /\ member' = member \cup {c}
        /\ \A d \in Conn : d # c => toGuest'[d] = toGuest[d]
        /\ Live(c) => toGuest'[c] = toGuest[c] \o Cached \o <<CacheInfo>>
    BY <1>0, <2>1 DEF HandleMemberJoin
  <2>3. HasJoin(toHost[c])
    <3>1. toHost[c][1] = Join /\ Len(toHost[c]) \in Nat \ {0}
      BY <1>0, <1>5, <2>1, HeadFacts
    <3> QED
      BY <3>1 DEF HasJoin
  <2>4. ASSUME NEW h \in Guest PROVE Fed(h)'
    <3>1. CASE cur[h] = c
      <4>1. guestC[h] = Empty /\ toGuest[c] = <<>>
        BY <1>0, <2>3, <3>1 DEF Fresh
      <4>2. toGuest'[c] = <<>> \o Cached \o <<CacheInfo>>
        BY <2>2, <3>1, <4>1 DEF Live
      <4>3. Following(toGuest'[c], 0) /\ Shows(toGuest'[c], Empty, log, 0)
        BY <1>0, <4>2, FollowJoin DEF Current
      <4>4. 0 < Len(log)
        <5>1. Len(log) \in Nat /\ Len(log) # 0
          BY <1>0, EmptySeq, LenProperties DEF Current
        <5> QED
          BY <5>1
      <4> QED
        <5> SUFFICES ASSUME cur'[h] \in member'
                     PROVE  \E u : /\ Following(toGuest'[c], u) /\ u < Len(log)
                                   /\ exact => Shows(toGuest'[c], guestC[h], log, u)
          BY <2>1, <2>2, <3>1 DEF Fed
        <5>1. Shows(toGuest'[c], guestC[h], log, 0)
          BY <4>1, <4>3
        <5> QED
          BY <4>3, <4>4, <5>1
    <3>2. CASE cur[h] # c
      <4>1. cur[h] \in member => toGuest'[cur[h]] = toGuest[cur[h]]
        BY <1>0, <2>2, <3>2
      <4> QED
        BY <1>0, <2>1, <2>2, <3>2, <4>1, FedKept
    <3> QED
      BY <3>1, <3>2
  <2>5. Current'
    BY <1>0, <2>2 DEF Current
  <2> QED
    BY <2>4, <2>5
<1>6. CASE Writes
  <2>1. PICK ms, ns : Shape(ms, ns)
    BY <1>0, <1>6, WritesShape
  <2> QED
    BY <1>0, <2>1, CurrentWrites, FedWrites
<1>7. CASE UNCHANGED vars
  <2>1. UNCHANGED <<hostC, member, cur, guestC, toGuest, log, exact>>
    BY <1>7 DEF vars
  <2>2. Current'
    BY <1>0, <2>1 DEF Current
  <2> QED
    BY <1>0, <2>1, <2>2, FedKept
<1> QED
  BY <1>1, <1>2, <1>3, <1>4, <1>5, <1>6, <1>7 DEF Next, Writes

(* Where a member stands with the queue q.                                 *)
Stand(l, q) == IF CacheInfo \notin Range(q) THEN Len(l) - Len(q) ELSE 0

LEMMA Standing ==
    ASSUME NEW l, NEW q \in Seq(FromHost), NEW u, Following(q, u)
    PROVE  Stand(l, q) = IF u = Len(q) THEN Len(l) - u ELSE 0
<1>1. /\ Len(q) \in Nat /\ DOMAIN q = 1..Len(q) /\ u \in 0..Len(q)
      /\ \A n \in 1..Len(q) : q[n] = CacheInfo <=> n = Len(q) - u
  BY LenProperties DEF Following
<1>2. Range(q) = {q[n] : n \in 1..Len(q)}
  BY <1>1 DEF Range
<1>3. ASSUME u # Len(q) PROVE CacheInfo \in Range(q)
  <2> DEFINE K == Len(q)
  <2>1. K \in Nat /\ u \in 0..K /\ u # K
    BY <1>1, <1>3
  <2> HIDE DEF K
  <2>2. PICK n \in 1..K : n = K - u
    BY <2>1
  <2>3. q[n] = CacheInfo
    BY <1>1, <2>2 DEF K
  <2> QED
    BY <1>2, <2>3 DEF K
<1>4. ASSUME u = Len(q) PROVE CacheInfo \notin Range(q)
  <2>1. \A n \in 1..Len(q) : n # Len(q) - u
    BY <1>1, <1>4
  <2> QED
    BY <1>1, <1>2, <2>1
<1> QED
  BY <1>3, <1>4 DEF Stand

LEMMA Position ==
    \A g \in Guest : pos[g] = IF cur[g] \in member THEN Stand(log, toGuest[cur[g]]) ELSE 0
BY DEF pos, Stand

(* A guest that has caught up with the cache holds, value by value and     *)
(* sender by sender, one of the versions of the host's container.          *)
THEOREM View == Spec => []ViewIsVersion
<1>1. ViewInv => ViewIsVersion
  <2> SUFFICES ASSUME ViewInv, exact, NEW g \in Guest, pos[g] # 0
               PROVE  Contents(guestC[g]) = log[pos[g]]
    BY DEF ViewIsVersion
  <2> DEFINE q == toGuest[cur[g]]
  <2>1. /\ toGuest \in [Conn -> Seq(FromHost)] /\ member \subseteq Conn /\ log \in Seq(Version)
    BY DEF ViewInv, LineInv, BaseInv, TypeOK
  <2>2. cur[g] \in member
    BY Position
  <2>3. q \in Seq(FromHost)
    BY <2>1, <2>2
  <2>4. PICK u : Following(q, u) /\ u < Len(log) /\ Shows(q, guestC[g], log, u)
    BY <2>2 DEF ViewInv, Fed
  <2>5. u = Len(q) /\ pos[g] = Len(log) - u
    <3>1. pos[g] = Stand(log, q)
      BY <2>2, Position
    <3>2. Stand(log, q) = IF u = Len(q) THEN Len(log) - u ELSE 0
      BY <2>3, <2>4, Standing
    <3> QED
      BY <3>1, <3>2
  <2> HIDE DEF q
  <2>6. Len(q) \in Nat /\ Len(log) \in Nat /\ Stages(guestC[g], q)[0] = guestC[g]
    BY <2>1, <2>3, StagesDef, LenProperties
  <2>7. 0 \in 0..u /\ Len(q) - u + 0 = 0 /\ Len(log) - u + 0 = pos[g]
    BY <2>5, <2>6
  <2>8. Contents(Stages(guestC[g], q)[Len(q) - u + 0]) = log[Len(log) - u + 0]
    BY <2>4, <2>7 DEF Shows
  <2> QED
    BY <2>6, <2>7, <2>8
<1> QED
  BY <1>1, ViewInit, ViewStep, PTL DEF Spec

-----------------------------------------------------------------------------
(* The replicated container *)

(* A step that adds versions leaves every guest where it was, or takes it  *)
(* out of the group.                                                       *)
LEMMA WriteSteps ==
    ASSUME ViewInv, ViewInv', NEW ms, NEW ns, Shape(ms, ns)
    PROVE  [Abstract!Next]_(Abstract!vars)
<1>0. /\ toGuest \in [Conn -> Seq(FromHost)] /\ member \subseteq Conn /\ log \in Seq(Version)
      /\ toGuest' \in [Conn -> Seq(FromHost)] /\ member' \subseteq Conn /\ log' \in Seq(Version)
      /\ cur' \in [Guest -> Conn \cup {NoConn}]
      /\ BaseInv /\ Separate /\ \A g \in Guest : Fed(g)
  BY DEF ViewInv, LineInv, BaseInv, TypeOK
<1>1. /\ ns \in Seq(DataFrom(Sender)) /\ ms \in Seq(DataFrom(Sender)) /\ Len(ms) = Len(ns)
      /\ toGuest' = Broadcast(member', ns) /\ member' \subseteq member
      /\ UNCHANGED <<cur, guestC>>
      /\ member' = member \/ \E c \in Conn : member' = member \ {c}
  BY DEF Shape
<1>2. /\ Len(log) \in Nat /\ Len(ms) \in Nat /\ Len(log') = Len(log) + Len(ms)
      /\ \A n \in 1..Len(log) : log'[n] = log[n]
      /\ Len(ms) = 0 => log' = log
  BY <1>0, LogGrows
<1>7. \A g \in Guest :
          /\ pos[g] = IF cur[g] \in member THEN Stand(log, toGuest[cur[g]]) ELSE 0
          /\ pos'[g] = IF cur[g] \in member' THEN Stand(log', toGuest'[cur[g]]) ELSE 0
  BY <1>1 DEF pos, Stand
<1>3. ASSUME NEW g \in Guest PROVE pos'[g] = IF cur[g] \in member' THEN pos[g] ELSE 0
  <2>1. CASE cur[g] \in member'
    <3> DEFINE q == toGuest[cur[g]]
               p == toGuest'[cur[g]]
    <3>1. cur[g] \in member /\ cur[g] \in Conn /\ Live(cur[g])
      BY <1>0, <1>1, <2>1 DEF Live
    <3>2. p = q \o Wires(ns)
      BY <1>1, <2>1, <3>1 DEF Broadcast, Wires
    <3>3. PICK u : Following(q, u) /\ u < Len(log)
      BY <1>0, <3>1 DEF Fed
    <3>4. q \in Seq(FromHost)
      BY <1>0, <3>1
    <3>5. pos[g] = IF u = Len(q) THEN Len(log) - u ELSE 0
      BY <1>7, <3>1, <3>3, <3>4, Standing
    <3> HIDE DEF q
    <3>6. Following(p, u + Len(ns))
      BY <1>1, <3>2, <3>3, <3>4, FollowAppend
    <3>7. Len(p) = Len(q) + Len(ns) /\ Len(q) \in Nat /\ u \in 0..Len(q)
      <4>1. Wires(ns) \in Seq(FromHost) /\ Len(Wires(ns)) = Len(ns)
        BY <1>1, WiresFacts DEF FromHost
      <4> HIDE DEF p
      <4>2. Len(q \o Wires(ns)) = Len(q) + Len(Wires(ns))
        BY <3>4, <4>1, ConcatProperties
      <4> QED
        BY <3>2, <3>3, <3>4, <4>1, <4>2, LenProperties DEF Following
    <3>8. pos'[g] = IF u + Len(ns) = Len(p) THEN Len(log') - (u + Len(ns)) ELSE 0
      <4>1. p \in Seq(FromHost) /\ pos'[g] = Stand(log', p)
        BY <1>0, <1>7, <2>1, <3>1
      <4> QED
        BY <3>6, <4>1, Standing
    <3> HIDE DEF p
    <3>9. pos'[g] = pos[g]
      <4> DEFINE K == Len(q)
                 N == Len(ns)
                 L == Len(log)
      <4>1. /\ K \in Nat /\ N \in Nat /\ L \in Nat /\ u \in 0..K
            /\ Len(p) = K + N /\ Len(log') = L + N
        BY <1>1, <1>2, <3>7
      <4>2. /\ pos[g] = IF u = K THEN L - u ELSE 0
            /\ pos'[g] = IF u + N = Len(p) THEN Len(log') - (u + N) ELSE 0
        BY <3>5, <3>8
      <4> HIDE DEF K, N, L
      <4>3. CASE u = K
        <5>1. u + N = Len(p) /\ Len(log') - (u + N) = L - u
          BY <4>1, <4>3
        <5> QED
          BY <4>2, <4>3, <5>1
      <4>4. CASE u # K
        <5>1. u + N # Len(p)
          BY <4>1, <4>4
        <5> QED
          BY <4>2, <4>4, <5>1
      <4> QED
        BY <4>3, <4>4
    <3> QED
      BY <2>1, <3>9
  <2>2. CASE cur[g] \notin member'
    BY <1>7, <2>2
  <2> QED
    BY <2>1, <2>2
<1>4. DOMAIN pos = Guest /\ DOMAIN pos' = Guest /\ pos' = [g \in Guest |-> pos'[g]]
      /\ pos = [g \in Guest |-> pos[g]]
  BY DEF pos
<1>5. CASE Len(ms) # 0
  <2>1. Abstract!IsStrictPrefix(log, log')
    <3>1. Len(log) <= Len(log') /\ log # log'
      BY <1>2, <1>5
    <3>2. SubSeq(log, 1, Len(log)) = SubSeq(log', 1, Len(log))
      <4>1. /\ \A n \in 1..Len(log) : log[n] \in Version /\ log'[n] \in Version
            /\ Len(log) \in Int /\ 1 \in Int
        BY <1>0, <1>2
      <4> DEFINE a == SubSeq(log, 1, Len(log))
                 b == SubSeq(log', 1, Len(log))
                 K == Len(log)
      <4>2. /\ a \in Seq(Version) /\ Len(a) = (IF 1 <= K THEN K - 1 + 1 ELSE 0)
            /\ \A n \in 1..K - 1 + 1 : a[n] = log[1 + n - 1]
        BY <4>1, SubSeqProperties
      <4>3. /\ b \in Seq(Version) /\ Len(b) = (IF 1 <= K THEN K - 1 + 1 ELSE 0)
            /\ \A n \in 1..K - 1 + 1 : b[n] = log'[1 + n - 1]
        BY <4>1, SubSeqProperties
      <4>4. \A n \in 1..K : log'[n] = log[n]
        BY <1>2
      <4>5. K \in Nat
        BY <1>2
      <4> HIDE DEF a, b, K
      <4>6. /\ Len(a) = K /\ Len(b) = K
            /\ \A n \in 1..K : n \in 1..K - 1 + 1 /\ 1 + n - 1 = n
        BY <4>2, <4>3, <4>5
      <4>7. \A n \in 1..K : a[n] = b[n]
        BY <4>2, <4>3, <4>4, <4>6
      <4>8. a = b
        BY <4>2, <4>3, <4>6, <4>7, SeqEqual
      <4> QED
        BY <4>8 DEF a, b, K
    <3> QED
      BY <3>1, <3>2 DEF Abstract!IsStrictPrefix, Abstract!IsPrefix
  <2>2. \A g \in Guest : pos'[g] \in {pos[g], 0}
    BY <1>3
  <2> QED
    <3>1. Abstract!Write
      BY <1>4, <2>1, <2>2 DEF Abstract!Write
    <3> QED
      BY <3>1 DEF Abstract!Next
<1>6. CASE Len(ms) = 0
  <2>1. log' = log
    BY <1>2, <1>6
  <2>2. CASE \A g \in Guest : pos'[g] = pos[g]
    <3>1. pos' = pos
      BY <1>4, <2>2
    <3> QED
      BY <2>1, <3>1 DEF Abstract!vars
  <2>3. CASE \E g \in Guest : pos'[g] # pos[g]
    <3>1. PICK g \in Guest : pos'[g] # pos[g]
      BY <2>3
    <3>2. pos'[g] = 0 /\ cur[g] \notin member' /\ cur[g] \in member
      BY <1>3, <1>7, <3>1
    <3>3. \A h \in Guest \ {g} : cur[h] \in member => cur[h] \in member'
      <4>1. cur[g] # NoConn
        BY <1>0, <3>2 DEF Conn, FirstId, NoConn
      <4> QED
        BY <1>0, <1>1, <3>2, <4>1 DEF Separate
    <3>4. \A h \in Guest \ {g} : pos'[h] = pos[h]
      BY <1>3, <1>7, <3>3
    <3>5. pos' = [pos EXCEPT ![g] = 0]
      BY <1>4, <3>2, <3>4
    <3> QED
      <4>1. Abstract!Lose(g)
        BY <2>1, <3>5 DEF Abstract!Lose
      <4> QED
        BY <4>1 DEF Abstract!Next
  <2> QED
    BY <2>2, <2>3
<1> QED
  BY <1>5, <1>6

(* Every other step takes the guests on by one version, synchronises them  *)
(* with the host, loses one, or leaves them where they are.                *)
LEMMA RefineStep ==
    ASSUME ViewInv, ViewInv', [Next]_vars
    PROVE  [Abstract!Next]_(Abstract!vars)
<1>0. /\ toGuest \in [Conn -> Seq(FromHost)] /\ member \subseteq Conn /\ log \in Seq(Version)
      /\ cur \in [Guest -> Conn \cup {NoConn}] /\ NoConn \notin member /\ NoConn \notin Conn
      /\ Numbered /\ Separate /\ BaseInv /\ Len(log) \in Nat
      /\ \A g \in Guest : Fed(g) /\ Fresh(g)
  <2>1. Numbered /\ Separate /\ BaseInv /\ \A g \in Guest : Fed(g) /\ Fresh(g)
    BY DEF ViewInv, LineInv
  <2>2. NoConn \notin Conn
    BY DistributionAssumption DEF Conn, FirstId, NoConn
  <2>3. /\ toGuest \in [Conn -> Seq(FromHost)] /\ member \subseteq Conn /\ log \in Seq(Version)
        /\ cur \in [Guest -> Conn \cup {NoConn}]
    BY <2>1 DEF BaseInv, TypeOK
  <2> QED
    BY <2>1, <2>2, <2>3, LenProperties
<1>1. /\ pos = [g \in Guest |-> pos[g]] /\ pos' = [g \in Guest |-> pos'[g]]
      /\ \A g \in Guest :
            /\ pos[g] = IF cur[g] \in member THEN Stand(log, toGuest[cur[g]]) ELSE 0
            /\ pos'[g] = IF cur'[g] \in member' THEN Stand(log', toGuest'[cur'[g]]) ELSE 0
  BY DEF pos, Stand
<1>2. ASSUME UNCHANGED log, \A g \in Guest : pos'[g] = pos[g]
      PROVE  [Abstract!Next]_(Abstract!vars)
  <2>1. pos' = pos
    BY <1>1, <1>2
  <2> QED
    BY <1>2, <2>1 DEF Abstract!vars
<1>3. ASSUME UNCHANGED log, NEW g \in Guest, pos'[g] = 0,
             \A h \in Guest \ {g} : pos'[h] = pos[h]
      PROVE  [Abstract!Next]_(Abstract!vars)
  <2>1. pos' = [pos EXCEPT ![g] = 0]
    BY <1>1, <1>3
  <2>2. Abstract!Lose(g)
    BY <1>3, <2>1 DEF Abstract!Lose
  <2> QED
    BY <2>2 DEF Abstract!Next
<1>4. ASSUME NEW g \in Guest, Open(g) PROVE [Abstract!Next]_(Abstract!vars)
  <2>1. /\ cur[g] = NoConn /\ nextConn \in Conn /\ cur' = [cur EXCEPT ![g] = nextConn]
        /\ UNCHANGED <<member, toGuest, log>>
    BY <1>4 DEF Open
  <2>2. nextConn \notin member
    <3>1. nextConn \in Int
      BY DEF ViewInv, LineInv, BaseInv, TypeOK, FirstId
    <3> QED
      BY <1>0, <3>1 DEF Numbered
  <2>3. \A h \in Guest : cur'[h] = IF h = g THEN nextConn ELSE cur[h]
    BY <1>0, <2>1
  <2>4. \A h \in Guest : pos'[h] = pos[h]
    BY <1>0, <1>1, <2>1, <2>2, <2>3
  <2> QED
    BY <1>2, <2>1, <2>4
<1>5. ASSUME NEW g \in Guest,
             JoinGroup(g) \/ \E m \in Publications(NoConn) \cup {ClearCache} : Publish(g, m)
      PROVE  [Abstract!Next]_(Abstract!vars)
  <2>1. UNCHANGED <<member, cur, toGuest, log>>
    BY <1>5 DEF JoinGroup, Publish
  <2> QED
    BY <1>1, <1>2, <2>1
<1>6. ASSUME NEW g \in Guest, GuestReceive(g) PROVE [Abstract!Next]_(Abstract!vars)
  <2> DEFINE c == cur[g]
             q == toGuest[c]
  <2>1. /\ c \in Conn /\ q # <<>> /\ q \in Seq(FromHost)
        /\ toGuest' = [toGuest EXCEPT ![c] = Tail(@)]
        /\ UNCHANGED <<member, cur, log>>
    BY <1>0, <1>6 DEF GuestReceive
  <2>2. \A h \in Guest \ {g} : pos'[h] = pos[h]
    <3>1. \A h \in Guest \ {g} : cur[h] \in member => toGuest'[cur[h]] = toGuest[cur[h]]
      BY <1>0, <2>1 DEF Separate
    <3> QED
      BY <1>1, <2>1, <3>1
  <2>3. CASE c \notin member
    BY <1>1, <1>2, <2>1, <2>2, <2>3
  <2>4. CASE c \in member
    <3>1. PICK u : Following(q, u) /\ u < Len(log)
      BY <1>0, <2>4 DEF Fed
    <3>2. toGuest'[c] = Tail(q) /\ pos[g] = Stand(log, q) /\ pos'[g] = Stand(log, Tail(q))
      BY <1>0, <1>1, <2>1, <2>4
    <3> HIDE DEF c, q
    <3>3. /\ Len(q) \in Nat \ {0} /\ Tail(q) \in Seq(FromHost) /\ Len(Tail(q)) = Len(q) - 1
          /\ u \in 0..Len(q)
      BY <2>1, <3>1, EmptySeq, LenProperties, HeadTailProperties DEF Following
    <3> DEFINE v == IF u = Len(q) THEN u - 1 ELSE u
    <3>4. Following(Tail(q), v)
      BY <1>0, <2>1, <3>1, FollowReceive
    <3> HIDE DEF v
    <3>5. /\ pos[g] = IF u = Len(q) THEN Len(log) - u ELSE 0
          /\ pos'[g] = IF v = Len(q) - 1 THEN Len(log) - v ELSE 0
      <4>1. Stand(log, q) = IF u = Len(q) THEN Len(log) - u ELSE 0
        BY <2>1, <3>1, Standing
      <4>2. Stand(log, Tail(q)) = IF v = Len(Tail(q)) THEN Len(log) - v ELSE 0
        BY <3>3, <3>4, Standing
      <4>3. Len(Tail(q)) = Len(q) - 1
        BY <3>3
      <4> QED
        BY <3>2, <4>1, <4>2, <4>3
    <3> DEFINE K == Len(q)
               L == Len(log)
    <3>6. K \in Nat \ {0} /\ L \in Nat /\ u \in 0..K /\ u < L
      BY <1>0, <3>1, <3>3
    <3> HIDE DEF K, L
    <3>7. CASE u = K
      <4>1. v = K - 1 /\ pos[g] = L - u /\ pos'[g] = L - v
        BY <3>5, <3>7 DEF v, K, L
      <4>2. pos[g] \in 1..L - 1 /\ pos'[g] = pos[g] + 1
        BY <3>6, <3>7, <4>1
      <4>3. pos' = [pos EXCEPT ![g] = @ + 1]
        BY <1>1, <2>2, <4>2
      <4>4. Abstract!Advance(g)
        BY <2>1, <4>2, <4>3 DEF Abstract!Advance, L
      <4> QED
        BY <4>4 DEF Abstract!Next
    <3>8. CASE u # K /\ u = K - 1
      <4>1. pos[g] = 0 /\ pos'[g] = L - u
        BY <3>5, <3>8 DEF v, K, L
      <4>2. L - u \in 1..L
        BY <3>6
      <4>3. pos' = [pos EXCEPT ![g] = L - u]
        BY <1>1, <2>2, <4>1
      <4>4. Abstract!Synchronise(g)
        BY <2>1, <4>1, <4>2, <4>3 DEF Abstract!Synchronise, L
      <4> QED
        BY <4>4 DEF Abstract!Next
    <3>9. CASE u # K /\ u # K - 1
      <4>1. pos[g] = 0 /\ pos'[g] = 0
        BY <3>5, <3>9 DEF v, K, L
      <4> QED
        BY <1>2, <2>1, <2>2, <4>1
    <3> QED
      BY <3>7, <3>8, <3>9
  <2> QED
    BY <2>3, <2>4
<1>7. ASSUME NEW g \in Guest, GuestClosed(g) PROVE [Abstract!Next]_(Abstract!vars)
  <2> DEFINE c == cur[g]
  <2>1. /\ c \in Conn
        /\ toGuest' = [toGuest EXCEPT ![c] = <<>>]
        /\ cur' = [cur EXCEPT ![g] = NoConn]
        /\ UNCHANGED <<member, log>>
    BY <1>0, <1>7 DEF GuestClosed
  <2>2. \A h \in Guest : cur'[h] = IF h = g THEN NoConn ELSE cur[h]
    BY <1>0, <2>1
  <2>3. pos'[g] = 0
    BY <1>0, <1>1, <2>1, <2>2
  <2>4. \A h \in Guest \ {g} : pos'[h] = pos[h]
    <3>1. \A h \in Guest \ {g} : cur[h] \in member => toGuest'[cur[h]] = toGuest[cur[h]]
      BY <1>0, <2>1 DEF Separate
    <3> QED
      BY <1>1, <2>1, <2>2, <3>1
  <2> QED
    BY <1>3, <2>1, <2>3, <2>4
<1>8. ASSUME NEW c \in Conn, HostReceive(c), FromPeer(c, Head(toHost[c])).kind = "join"
      PROVE  [Abstract!Next]_(Abstract!vars)
  <2>1. toHost[c] # <<>> /\ HandleMemberJoin(c) /\ UNCHANGED cur
    BY <1>8 DEF HostReceive
  <2>2. /\ UNCHANGED log /\ member' = member \cup {c}
        /\ \A d \in Conn : d # c => toGuest'[d] = toGuest[d]
        /\ Live(c) => toGuest'[c] = toGuest[c] \o Cached \o <<CacheInfo>>
    BY <1>0, <2>1 DEF HandleMemberJoin
  <2>3. HasJoin(toHost[c])
    <3>1. toHost[c][1] = Join /\ Len(toHost[c]) \in Nat \ {0}
      BY <1>0, <1>8, <2>1, HeadFacts
    <3> QED
      BY <3>1 DEF HasJoin
  <2>4. ASSUME NEW h \in Guest PROVE pos'[h] = pos[h]
    <3>1. CASE cur[h] = c
      <4>1. toGuest[c] = <<>> /\ c \notin member
        BY <1>0, <2>3, <3>1 DEF Fresh
      <4> DEFINE p == <<>> \o Cached \o <<CacheInfo>>
      <4>2. toGuest'[c] = p
        BY <2>2, <3>1, <4>1 DEF Live
      <4>3. Following(p, 0)
        BY <1>0, FollowJoin DEF ViewInv, Current
      <4>4. p \in Seq(FromHost) /\ Len(p) # 0
        <5>1. /\ <<>> \in Seq(FromHost) /\ Cached \in Seq(FromHost) /\ <<CacheInfo>> \in Seq(FromHost)
          BY <1>0, CachedFacts DEF FromHost
        <5> DEFINE r == <<>> \o Cached
                   e == <<CacheInfo>>
        <5>2. r \in Seq(FromHost)
          BY <5>1, ConcatProperties
        <5>3. Len(e) = 1 /\ e \in Seq(FromHost)
          BY <5>1
        <5> HIDE DEF r, e
        <5>4. r \o e \in Seq(FromHost) /\ Len(r \o e) = Len(r) + Len(e) /\ Len(r) \in Nat
          BY <5>2, <5>3, ConcatProperties, LenProperties
        <5>5. Len(r \o e) # 0
          BY <5>3, <5>4
        <5> QED
          BY <5>4, <5>5 DEF r, e
      <4> HIDE DEF p
      <4>5. Stand(log, p) = 0
        BY <4>3, <4>4, Standing
      <4> QED
        BY <1>1, <2>1, <2>2, <3>1, <4>1, <4>2, <4>5
    <3>2. CASE cur[h] # c
      <4>1. cur[h] \in member => toGuest'[cur[h]] = toGuest[cur[h]]
        BY <1>0, <2>2, <3>2
      <4> QED
        BY <1>1, <2>1, <2>2, <3>2, <4>1
    <3> QED
      BY <3>1, <3>2
  <2> QED
    BY <1>2, <2>2, <2>4
<1>9. CASE Writes
  <2>1. PICK ms, ns : Shape(ms, ns)
    BY <1>0, <1>9, WritesShape
  <2> QED
    BY <2>1, WriteSteps
<1>10. CASE UNCHANGED vars
  <2>1. UNCHANGED <<member, cur, toGuest, log>>
    BY <1>10 DEF vars
  <2> QED
    BY <1>1, <1>2, <2>1
<1> QED
  BY <1>4, <1>5, <1>6, <1>7, <1>8, <1>9, <1>10 DEF Next, Writes

(* The host and its guests implement the abstract replication of a         *)
(* container: a member goes through the host's versions one by one.        *)
THEOREM Implementation == Spec => Refines
<1>1. Init => Abstract!Init
  <2> SUFFICES ASSUME Init PROVE Abstract!Init
    OBVIOUS
  <2> DEFINE v == Contents(Empty)
  <2>1. log = <<v>> /\ member = {}
    BY DEF Init
  <2> HIDE DEF v
  <2>2. Len(log) = 1
    BY <2>1
  <2>3. pos = [g \in Guest |-> 0]
    BY <2>1 DEF pos
  <2> QED
    BY <2>2, <2>3 DEF Abstract!Init
<1>2. ViewInv /\ ViewInv' /\ [Next]_vars => [Abstract!Next]_(Abstract!vars)
  BY RefineStep
<1> QED
  BY <1>1, <1>2, ViewInit, ViewStep, PTL DEF Spec, Refines, Abstract!Spec
=============================================================================
