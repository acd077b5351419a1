---------------------------- MODULE DaemonProofs ----------------------------
(***************************************************************************)
(* Proofs about AuthManager and Daemon: for any rules, guests, instances,  *)
(* connections and publications.                                           *)
(***************************************************************************)
EXTENDS Daemon, FiniteSetTheorems, SequenceTheorems, WellFoundedInduction, TLAPS

-----------------------------------------------------------------------------
(* Numbers and sequences *)

(* The least member of a set of positions.                                 *)
LEMMA Least ==
    ASSUME NEW S \in SUBSET Nat, S # {}
    PROVE  Min(S) \in S /\ \A n \in S : Min(S) <= n
<1> DEFINE R == OpToRel(<, Nat)
<1>1. IsWellFoundedOn(R, Nat)
  BY NatLessThanWellFounded
<1>2. PICK m \in S : \A n \in S : ~(<<n, m>> \in R)
  <2> HIDE DEF R
  <2> QED
    BY <1>1, WFMin
<1>3. ASSUME NEW n \in S, n < m PROVE <<n, m>> \in R
  BY <1>3 DEF OpToRel
<1>4. ASSUME NEW n \in S PROVE m <= n
  <2> HIDE DEF R
  <2>1. m \in Nat /\ n \in Nat /\ ~(n < m)
    BY <1>2, <1>3
  <2> QED
    BY <2>1
<1> QED
  BY <1>4 DEF Min

(* A set of positions that has with each also those before it.             *)
LEMMA Initial ==
    ASSUME NEW L \in Nat, NEW D \in SUBSET (1..L),
           \A i \in D, j \in 1..L : j < i => j \in D
    PROVE  Cardinality(D) \in 0..L /\ D = 1..Cardinality(D)
<1>1. PICK n \in 0..L : D = 1..n
  <2>1. CASE D = 1..L
    BY <2>1
  <2>2. CASE D # 1..L
    <3> DEFINE Out == (1..L) \ D
    <3>1. Out \in SUBSET Nat /\ Out # {}
      <4>1. \A i \in D : i \in 1..L
        OBVIOUS
      <4>2. \E i \in 1..L : i \notin D
        BY <2>2, <4>1
      <4> QED
        BY <4>2
    <3> HIDE DEF Out
    <3>2. PICK m \in Out : \A k \in Out : m <= k
      BY <3>1, Least
    <3>3. m \in 1..L /\ m \notin D
      BY <3>2 DEF Out
    <3>4. ASSUME NEW i \in 1..L PROVE i \in D <=> i < m
      <4>1. i < m => i \in D
        BY <3>2, <3>3, <3>4 DEF Out
      <4>2. i \in D => i < m
        BY <3>3, <3>4
      <4> QED
        BY <4>1, <4>2
    <3>5. D = 1..(m - 1) /\ m - 1 \in 0..L
      <4>1. m - 1 \in 0..L /\ m \in Nat
        BY <3>3
      <4>2. ASSUME NEW i PROVE i \in D <=> i \in 1..(m - 1)
        <5>1. i \in D => i \in 1..L
          OBVIOUS
        <5>2. i \in 1..(m - 1) => i \in 1..L /\ i < m
          BY <3>3
        <5>3. i \in 1..L /\ i < m => i \in 1..(m - 1)
          BY <3>3
        <5> QED
          BY <3>4, <5>1, <5>2, <5>3
      <4> QED
        BY <4>1, <4>2
    <3> QED
      BY <3>5
  <2> QED
    BY <2>1, <2>2
<1> QED
  BY <1>1, FS_Interval

(* What an element put into a sequence, or taken out of it, leaves where.  *)
LEMMA Inserted ==
    ASSUME NEW S, NEW s \in Seq(S), NEW p \in 1..(Len(s) + 1), NEW e \in S
    PROVE  /\ InsertAt(s, p, e) \in Seq(S)
           /\ Len(InsertAt(s, p, e)) = Len(s) + 1
           /\ \A i \in 1..(Len(s) + 1) : InsertAt(s, p, e)[i] =
                  IF i < p THEN s[i] ELSE IF i = p THEN e ELSE s[i - 1]
<1> DEFINE a == SubSeq(s, 1, p - 1)
           b == SubSeq(s, p, Len(s))
<1>0. Len(s) \in Nat /\ p \in 1..(Len(s) + 1)
  OBVIOUS
<1>1. a \in Seq(S) /\ Len(a) = p - 1 /\ \A i \in 1..(p - 1) : a[i] = s[i]
  <2>1. \A i \in 1..(p - 1) : s[i] \in S
    OBVIOUS
  <2> QED
    BY <2>1, SubSeqProperties
<1>2. b \in Seq(S) /\ Len(b) = Len(s) - p + 1 /\ \A i \in 1..(Len(s) - p + 1) : b[i] = s[p + i - 1]
  <2>1. \A i \in p..Len(s) : s[i] \in S
    OBVIOUS
  <2> QED
    BY <2>1, SubSeqProperties
<1>3. <<e>> \in Seq(S) /\ Len(<<e>>) = 1 /\ <<e>>[1] = e
  OBVIOUS
<1>4. InsertAt(s, p, e) = (a \o <<e>>) \o b
  BY DEF InsertAt
<1> HIDE DEF a, b
<1>5. /\ a \o <<e>> \in Seq(S) /\ Len(a \o <<e>>) = p
      /\ \A i \in 1..p : (a \o <<e>>)[i] = IF i < p THEN s[i] ELSE e
  <2>1. /\ a \o <<e>> \in Seq(S) /\ Len(a \o <<e>>) = Len(a) + 1
        /\ \A i \in 1..(Len(a) + 1) :
               (a \o <<e>>)[i] = IF i <= Len(a) THEN a[i] ELSE <<e>>[i - Len(a)]
    BY <1>1, <1>3, ConcatProperties
  <2> QED
    BY <1>1, <2>1
<1> DEFINE c == a \o <<e>>
<1> HIDE DEF c
<1>6. /\ c \o b \in Seq(S) /\ Len(c \o b) = Len(s) + 1
      /\ \A i \in 1..(Len(s) + 1) : (c \o b)[i] = IF i <= p THEN c[i] ELSE b[i - p]
  <2>1. /\ c \o b \in Seq(S) /\ Len(c \o b) = Len(c) + Len(b)
        /\ \A i \in 1..(Len(c) + Len(b)) :
               (c \o b)[i] = IF i <= Len(c) THEN c[i] ELSE b[i - Len(c)]
    <3>1. c \in Seq(S) /\ b \in Seq(S)
      BY <1>2, <1>5 DEF c
    <3> QED
      BY <3>1, ConcatProperties
  <2>2. Len(c) = p /\ Len(c) + Len(b) = Len(s) + 1
    <3>1. Len(c) = p /\ Len(b) = Len(s) - p + 1
      BY <1>2, <1>5 DEF c
    <3> QED
      BY <1>0, <3>1
  <2> QED
    BY <2>1, <2>2
<1>7. ASSUME NEW i \in 1..(Len(s) + 1)
      PROVE  (c \o b)[i] = IF i < p THEN s[i] ELSE IF i = p THEN e ELSE s[i - 1]
  <2>1. CASE i <= p
    BY <1>5, <1>6, <2>1 DEF c
  <2>2. CASE i > p
    <3>1. i - p \in 1..(Len(s) - p + 1) /\ p + (i - p) - 1 = i - 1
      BY <2>2
    <3> QED
      BY <1>2, <1>6, <2>2, <3>1
  <2>3. i <= p \/ i > p
    BY <1>0
  <2> QED
    BY <2>1, <2>2, <2>3
<1> QED
  BY <1>4, <1>6, <1>7 DEF c

LEMMA Removed ==
    ASSUME NEW S, NEW s \in Seq(S), NEW p \in 1..Len(s)
    PROVE  /\ RemoveAt(s, p) \in Seq(S)
           /\ Len(RemoveAt(s, p)) = Len(s) - 1
           /\ \A i \in 1..(Len(s) - 1) :
                  RemoveAt(s, p)[i] = IF i < p THEN s[i] ELSE s[i + 1]
<1> DEFINE a == SubSeq(s, 1, p - 1)
           b == SubSeq(s, p + 1, Len(s))
<1>0. Len(s) \in Nat /\ p \in 1..Len(s)
  OBVIOUS
<1>1. a \in Seq(S) /\ Len(a) = p - 1 /\ \A i \in 1..(p - 1) : a[i] = s[i]
  <2>1. \A i \in 1..(p - 1) : s[i] \in S
    OBVIOUS
  <2> QED
    BY <2>1, SubSeqProperties
<1>2. b \in Seq(S) /\ Len(b) = Len(s) - p /\ \A i \in 1..(Len(s) - p) : b[i] = s[p + i]
  <2>1. \A i \in (p + 1)..Len(s) : s[i] \in S
    OBVIOUS
  <2>2. /\ b \in Seq(S)
        /\ Len(b) = IF p + 1 <= Len(s) THEN Len(s) - (p + 1) + 1 ELSE 0
        /\ \A i \in 1..(Len(s) - (p + 1) + 1) : b[i] = s[(p + 1) + i - 1]
    BY <2>1, SubSeqProperties
  <2>3. Len(s) - (p + 1) + 1 = Len(s) - p
    OBVIOUS
  <2>4. \A i \in 1..(Len(s) - p) : (p + 1) + i - 1 = p + i
    OBVIOUS
  <2> HIDE DEF b
  <2> QED
    BY <2>2, <2>3, <2>4
<1>3. RemoveAt(s, p) = a \o b
  BY DEF RemoveAt
<1> HIDE DEF a, b
<1>4. /\ a \o b \in Seq(S) /\ Len(a \o b) = Len(s) - 1
      /\ \A i \in 1..(Len(s) - 1) : (a \o b)[i] = IF i < p THEN a[i] ELSE b[i - (p - 1)]
  <2>1. /\ a \o b \in Seq(S) /\ Len(a \o b) = Len(a) + Len(b)
        /\ \A i \in 1..(Len(a) + Len(b)) :
               (a \o b)[i] = IF i <= Len(a) THEN a[i] ELSE b[i - Len(a)]
    BY <1>1, <1>2, ConcatProperties
  <2> QED
    BY <1>1, <1>2, <2>1
<1>5. ASSUME NEW i \in 1..(Len(s) - 1) PROVE (a \o b)[i] = IF i < p THEN s[i] ELSE s[i + 1]
  <2>1. CASE i < p
    BY <1>1, <1>4, <2>1
  <2>2. CASE i >= p
    <3>1. i - (p - 1) \in 1..(Len(s) - p) /\ p + (i - (p - 1)) = i + 1
      BY <2>2
    <3> QED
      BY <1>2, <1>4, <2>2, <3>1
  <2>3. i < p \/ i >= p
    BY <1>0
  <2> QED
    BY <2>1, <2>2, <2>3
<1> QED
  BY <1>3, <1>4, <1>5

-----------------------------------------------------------------------------
(* The rules and their copy *)

(* What is known of a rule.                                                *)
LEMMA RuleFacts ==
    ASSUME NEW r \in Rules
    PROVE  /\ KeyOf(r) \in RuleKeys /\ KeyOf(r).network = r.network
           /\ r.priority \in Int
           /\ r.network = [version |-> r.network.version, bits |-> r.network.bits,
                           prefix |-> r.network.prefix]
           /\ Bits(r.network.bits) /\ r.network.prefix \in Nat
<1>1. PICK k \in RuleKeys, s \in RuleSecrets \cup {Unset}, a \in Accept :
          r = [network |-> k.network, client |-> k.client, priority |-> k.priority,
               secret |-> s, accept |-> a]
  BY DEF Rules
<1>2. r.network = k.network /\ r.client = k.client /\ r.priority = k.priority
  BY <1>1
<1>3. k = [network |-> k.network, client |-> k.client, priority |-> k.priority]
  BY RuleKeysAssumption
<1>4. KeyOf(r) = k
  BY <1>2, <1>3 DEF KeyOf
<1> QED
  BY <1>2, <1>4, RuleKeysAssumption

(* Where the rule with a key is.                                           *)
LEMMA IndexFacts ==
    ASSUME NEW s \in Seq(Rules), NEW r
    PROVE  \/ IndexOf(s, r) = 0 /\ \A i \in 1..Len(s) : ~SameKey(s[i], r)
           \/ IndexOf(s, r) \in 1..Len(s) /\ SameKey(s[IndexOf(s, r)], r)
<1> DEFINE I == {i \in 1..Len(s) : SameKey(s[i], r)}
<1>1. IndexOf(s, r) = IF I # {} THEN Min(I) ELSE 0
  BY DEF IndexOf, SelectInSeq
<1>2. ASSUME I # {} PROVE Min(I) \in I
  <2>1. I \in SUBSET Nat
    OBVIOUS
  <2> HIDE DEF I
  <2> QED
    BY <1>2, <2>1, Least
<1>3. CASE I = {}
  BY <1>1, <1>3
<1>4. CASE I # {}
  <2>1. IndexOf(s, r) \in I
    BY <1>1, <1>2, <1>4
  <2> QED
    BY <2>1
<1> QED
  BY <1>3, <1>4

Distinct(s) == \A i, j \in 1..Len(s) : SameKey(s[i], s[j]) => i = j

Ordered(rs, ps) ==
    \A i, j \in 1..Len(rs), m, n \in 1..Len(ps) :
        i < j /\ rs[i] = ps[m] /\ rs[j] = ps[n] =>
            \/ rs[i].priority < rs[j].priority
            \/ rs[i].priority = rs[j].priority /\ m < n

(* The copy has the rules that are published, those of a lower priority    *)
(* first and of equal ones the oldest.                                     *)
Copies(rs, ps) ==
    /\ \A i \in 1..Len(rs) : \E m \in 1..Len(ps) : rs[i] = ps[m]
    /\ \A m \in 1..Len(ps) : \E i \in 1..Len(rs) : rs[i] = ps[m]
    /\ Distinct(rs) /\ Distinct(ps) /\ Ordered(rs, ps)

(* Two rules of the copy, and where they were published.                   *)
LEMMA OrderedFact ==
    ASSUME NEW rs, NEW ps, Ordered(rs, ps),
           NEW i \in 1..Len(rs), NEW j \in 1..Len(rs), i < j,
           NEW m \in 1..Len(ps), NEW n \in 1..Len(ps), rs[i] = ps[m], rs[j] = ps[n]
    PROVE  \/ rs[i].priority < rs[j].priority
           \/ rs[i].priority = rs[j].priority /\ m < n
BY DEF Ordered

(* A rule that is new is the last of its priority.                         *)
LEMMA CopiesNew ==
    ASSUME NEW rs \in Seq(Rules), NEW ps \in Seq(Rules), Copies(rs, ps), NEW r \in Rules,
           \A m \in 1..Len(ps) : ~SameKey(ps[m], r),
           NEW p, p = Cardinality({i \in DOMAIN rs : rs[i].priority <= r.priority}) + 1
    PROVE  /\ InsertAt(rs, p, r) \in Seq(Rules) /\ Append(ps, r) \in Seq(Rules)
           /\ Copies(InsertAt(rs, p, r), Append(ps, r))
<1> DEFINE D  == {i \in 1..Len(rs) : rs[i].priority <= r.priority}
           rt == InsertAt(rs, p, r)
           pt == Append(ps, r)
<1>1. \A i \in 1..Len(rs) : rs[i] \in Rules /\ rs[i].priority \in Int /\ ~SameKey(rs[i], r)
  <2> TAKE i \in 1..Len(rs)
  <2>1. rs[i] \in Rules
    OBVIOUS
  <2>2. PICK m \in 1..Len(ps) : rs[i] = ps[m]
    BY DEF Copies
  <2> QED
    BY <2>1, <2>2, RuleFacts
<1>2. r.priority \in Int /\ Len(rs) \in Nat /\ Len(ps) \in Nat
  <2>1. r.priority \in Int
    BY RuleFacts
  <2> QED
    BY <2>1
<1>3. \A i, j \in 1..Len(rs) : i < j => rs[i].priority <= rs[j].priority
  <2> SUFFICES ASSUME NEW i \in 1..Len(rs), NEW j \in 1..Len(rs), i < j
               PROVE  rs[i].priority <= rs[j].priority
    OBVIOUS
  <2>1. PICK m \in 1..Len(ps) : rs[i] = ps[m]
    BY DEF Copies
  <2>2. PICK n \in 1..Len(ps) : rs[j] = ps[n]
    BY DEF Copies
  <2>3. rs[i].priority < rs[j].priority \/ rs[i].priority = rs[j].priority
    <3>1. Ordered(rs, ps) /\ i < j
      BY DEF Copies
    <3> QED
      BY ONLY <2>1, <2>2, <3>1, OrderedFact
  <2> QED
    BY <1>1, <2>3
<1>4. p \in 1..(Len(rs) + 1) /\ D = 1..(p - 1)
  <2>1. D \in SUBSET (1..Len(rs)) /\ \A i \in D, j \in 1..Len(rs) : j < i => j \in D
    <3> SUFFICES ASSUME NEW i \in D, NEW j \in 1..Len(rs), j < i PROVE j \in D
      OBVIOUS
    <3>1. rs[j].priority <= rs[i].priority /\ rs[i].priority <= r.priority
      BY <1>3
    <3> QED
      BY <1>1, <1>2, <3>1
  <2>2. p = Cardinality(D) + 1
    <3>1. DOMAIN rs = 1..Len(rs)
      OBVIOUS
    <3> QED
      BY <3>1
  <2> HIDE DEF D
  <2>3. Cardinality(D) \in 0..Len(rs) /\ D = 1..Cardinality(D)
    BY <1>2, <2>1, Initial
  <2> QED
    BY <1>2, <2>2, <2>3
<1>5. \A i \in 1..Len(rs) : (rs[i].priority <= r.priority) <=> i < p
  <2> TAKE i \in 1..Len(rs)
  <2>1. i \in D <=> rs[i].priority <= r.priority
    OBVIOUS
  <2>2. i \in 1..(p - 1) <=> i < p
    BY <1>2, <1>4
  <2> QED
    BY <1>4, <2>1, <2>2
<1>6. /\ rt \in Seq(Rules) /\ Len(rt) = Len(rs) + 1
      /\ \A i \in 1..(Len(rs) + 1) :
             rt[i] = IF i < p THEN rs[i] ELSE IF i = p THEN r ELSE rs[i - 1]
  <2>1. p \in 1..(Len(rs) + 1)
    BY <1>4
  <2> QED
    BY ONLY <2>1, Inserted, rs \in Seq(Rules), r \in Rules
<1>7. /\ pt \in Seq(Rules) /\ Len(pt) = Len(ps) + 1
      /\ \A m \in 1..Len(ps) : pt[m] = ps[m]
      /\ pt[Len(ps) + 1] = r
  BY AppendProperties
<1> DEFINE Old(i) == IF i < p THEN i ELSE i - 1
<1>8. ASSUME NEW i \in 1..(Len(rs) + 1)
      PROVE  \/ i = p /\ rt[i] = r
             \/ i # p /\ Old(i) \in 1..Len(rs) /\ rt[i] = rs[Old(i)] /\ ~SameKey(rt[i], r)
  <2>1. CASE i < p
    <3>1. i \in 1..Len(rs)
      BY <1>2, <1>4, <2>1
    <3> QED
      BY <1>1, <1>6, <2>1, <3>1
  <2>2. CASE i = p
    BY <1>6, <2>2, <1>4
  <2>3. CASE i > p
    <3>1. i - 1 \in 1..Len(rs) /\ ~(i < p) /\ i # p
      BY <1>2, <1>4, <2>3
    <3> QED
      BY <1>1, <1>6, <3>1
  <2> QED
    BY <1>2, <1>4, <2>1, <2>2, <2>3
<1>9. ASSUME NEW m \in 1..(Len(ps) + 1)
      PROVE  \/ m = Len(ps) + 1 /\ pt[m] = r
             \/ m \in 1..Len(ps) /\ pt[m] = ps[m] /\ ~SameKey(pt[m], r)
  BY <1>2, <1>7
<1>10. SameKey(r, r)
  BY DEF SameKey
<1>11. ASSUME NEW i \in 1..Len(rs)
       PROVE  \E j \in 1..(Len(rs) + 1) : j # p /\ rt[j] = rs[i]
  <2>1. CASE i < p
    <3>1. i \in 1..(Len(rs) + 1) /\ i # p
      BY <1>2, <1>4, <2>1
    <3>2. rt[i] = rs[i]
      BY <1>6, <2>1, <3>1
    <3> QED
      BY <3>1, <3>2
  <2>2. CASE i >= p
    <3>1. i + 1 \in 1..(Len(rs) + 1) /\ ~(i + 1 < p) /\ i + 1 # p /\ (i + 1) - 1 = i
      BY <1>2, <1>4, <2>2
    <3> QED
      BY <1>6, <3>1
  <2>3. i < p \/ i >= p
    BY <1>4
  <2> QED
    BY <2>1, <2>2, <2>3
<1>12. \A i, j \in 1..(Len(rs) + 1) : i # p /\ j # p /\ i # j => Old(i) # Old(j)
  BY <1>2, <1>4
<1>13. \A i, j \in 1..(Len(rs) + 1) : i # p /\ j # p /\ i < j => Old(i) < Old(j)
  BY <1>2, <1>4
<1>14. p \in 1..(Len(rs) + 1) /\ Len(ps) + 1 \in 1..(Len(ps) + 1) /\ rt[p] = r /\ pt[Len(ps) + 1] = r
  BY <1>2, <1>4, <1>6, <1>7
<1> HIDE DEF rt, pt, Old, D
<1>15. \A i \in 1..Len(rt) : \E m \in 1..Len(pt) : rt[i] = pt[m]
  <2> SUFFICES ASSUME NEW i \in 1..(Len(rs) + 1) PROVE \E m \in 1..(Len(ps) + 1) : rt[i] = pt[m]
    BY <1>6, <1>7
  <2>1. CASE i = p
    BY <1>14, <2>1
  <2>2. CASE i # p
    <3>0. Old(i) \in 1..Len(rs) /\ rt[i] = rs[Old(i)]
      BY <1>8, <2>2
    <3>1. PICK m \in 1..Len(ps) : rt[i] = ps[m]
      BY <3>0 DEF Copies
    <3>2. m \in 1..(Len(ps) + 1) /\ pt[m] = ps[m]
      BY <1>2, <1>7
    <3> QED
      BY <3>1, <3>2
  <2> QED
    BY <2>1, <2>2
<1>16. \A m \in 1..Len(pt) : \E i \in 1..Len(rt) : rt[i] = pt[m]
  <2> SUFFICES ASSUME NEW m \in 1..(Len(ps) + 1) PROVE \E i \in 1..(Len(rs) + 1) : rt[i] = pt[m]
    BY <1>6, <1>7
  <2>1. CASE pt[m] = r
    BY <1>14, <2>1
  <2>2. CASE pt[m] # r
    <3>1. m \in 1..Len(ps) /\ pt[m] = ps[m]
      BY <1>9, <2>2
    <3>2. PICK i \in 1..Len(rs) : rs[i] = ps[m]
      BY <3>1 DEF Copies
    <3> QED
      BY <1>11, <3>1, <3>2
  <2> QED
    BY <2>1, <2>2
<1>17. Distinct(rt)
  <2> SUFFICES ASSUME NEW i \in 1..(Len(rs) + 1), NEW j \in 1..(Len(rs) + 1), SameKey(rt[i], rt[j])
               PROVE  i = j
    BY <1>6 DEF Distinct
  <2>1. CASE i = p \/ j = p
    <3>1. SameKey(rt[j], rt[i])
      BY DEF SameKey
    <3> QED
      BY <1>8, <2>1, <3>1
  <2>2. CASE i # p /\ j # p
    <3>1. Old(i) = Old(j)
      BY <1>8, <2>2 DEF Copies, Distinct
    <3> QED
      BY <1>12, <2>2, <3>1
  <2> QED
    BY <2>1, <2>2
<1>18. Distinct(pt)
  <2> SUFFICES ASSUME NEW i \in 1..(Len(ps) + 1), NEW j \in 1..(Len(ps) + 1), SameKey(pt[i], pt[j])
               PROVE  i = j
    BY <1>7 DEF Distinct
  <2>1. SameKey(pt[j], pt[i])
    BY DEF SameKey
  <2>2. CASE i = Len(ps) + 1 \/ j = Len(ps) + 1
    BY <1>9, <1>14, <2>1, <2>2
  <2>3. CASE i # Len(ps) + 1 /\ j # Len(ps) + 1
    BY <1>9, <2>3 DEF Copies, Distinct
  <2> QED
    BY <2>2, <2>3
<1>19. ASSUME NEW i \in 1..(Len(rs) + 1), NEW j \in 1..(Len(rs) + 1),
              NEW m \in 1..(Len(ps) + 1), NEW n \in 1..(Len(ps) + 1),
              i < j, rt[i] = pt[m], rt[j] = pt[n]
       PROVE  \/ rt[i].priority < rt[j].priority
              \/ rt[i].priority = rt[j].priority /\ m < n
  <2>1. CASE i = p
    <3>1. j # p /\ Old(j) \in 1..Len(rs) /\ rt[j] = rs[Old(j)]
      BY <1>8, <1>4, <1>19, <2>1
    <3>2. ~(Old(j) < p)
      BY <1>2, <1>4, <1>19, <2>1 DEF Old
    <3>3. ~(rs[Old(j)].priority <= r.priority)
      BY <1>5, <3>1, <3>2
    <3> QED
      BY <1>1, <1>2, <1>14, <2>1, <3>1, <3>3
  <2>2. CASE j = p
    <3>1. i # p /\ Old(i) \in 1..Len(rs) /\ rt[i] = rs[Old(i)] /\ ~SameKey(rt[i], r)
      BY <1>8, <1>4, <1>19, <2>2
    <3>2. Old(i) < p
      BY <1>2, <1>4, <1>19, <2>2 DEF Old
    <3>3. rs[Old(i)].priority <= r.priority
      BY <1>5, <3>1, <3>2
    <3>4. n = Len(ps) + 1
      BY <1>9, <1>10, <1>14, <1>19, <2>2
    <3>5. m \in 1..Len(ps)
      BY <1>9, <1>10, <1>19, <3>1
    <3>6. m < n
      BY <1>2, <3>4, <3>5
    <3> QED
      BY <1>1, <1>2, <1>14, <2>2, <3>1, <3>3, <3>6
  <2>3. CASE i # p /\ j # p
    <3>1. /\ Old(i) \in 1..Len(rs) /\ rt[i] = rs[Old(i)] /\ ~SameKey(rt[i], r)
          /\ Old(j) \in 1..Len(rs) /\ rt[j] = rs[Old(j)] /\ ~SameKey(rt[j], r)
      BY <1>8, <2>3
    <3>2. m \in 1..Len(ps) /\ pt[m] = ps[m] /\ n \in 1..Len(ps) /\ pt[n] = ps[n]
      BY <1>9, <1>10, <1>19, <3>1
    <3>3. Old(i) < Old(j)
      BY <1>13, <1>19, <2>3
    <3> QED
      <4>1. Ordered(rs, ps) /\ rs[Old(i)] = ps[m] /\ rs[Old(j)] = ps[n]
        BY <1>19, <3>1, <3>2 DEF Copies
      <4>2. \/ rs[Old(i)].priority < rs[Old(j)].priority
            \/ rs[Old(i)].priority = rs[Old(j)].priority /\ m < n
        BY ONLY <3>1, <3>2, <3>3, <4>1, OrderedFact
      <4> QED
        BY <3>1, <4>2
  <2> QED
    BY <2>1, <2>2, <2>3
<1>20. Ordered(rt, pt)
  BY <1>6, <1>7, <1>19 DEF Ordered
<1> QED
  BY <1>6, <1>7, <1>15, <1>16, <1>17, <1>18, <1>20 DEF Copies, rt, pt

(* A key is that of one rule.                                              *)
LEMMA Linked ==
    ASSUME NEW rs, NEW ps, Copies(rs, ps),
           NEW i \in 1..Len(rs), NEW m \in 1..Len(ps), SameKey(rs[i], ps[m])
    PROVE  rs[i] = ps[m]
<1>1. PICK n \in 1..Len(ps) : rs[i] = ps[n]
  BY DEF Copies
<1>2. SameKey(ps[n], ps[m]) /\ Distinct(ps)
  BY <1>1 DEF Copies
<1> QED
  BY <1>1, <1>2 DEF Distinct

(* A changed rule keeps its place.                                         *)
LEMMA CopiesUpdate ==
    ASSUME NEW rs \in Seq(Rules), NEW ps \in Seq(Rules), Copies(rs, ps), NEW r \in Rules,
           NEW q \in 1..Len(rs), NEW k \in 1..Len(ps), SameKey(rs[q], r), SameKey(ps[k], r)
    PROVE  /\ [rs EXCEPT ![q] = r] \in Seq(Rules) /\ [ps EXCEPT ![k] = r] \in Seq(Rules)
           /\ Copies([rs EXCEPT ![q] = r], [ps EXCEPT ![k] = r])
<1> DEFINE rt == [rs EXCEPT ![q] = r]
           pt == [ps EXCEPT ![k] = r]
<1>1. /\ rt \in Seq(Rules) /\ Len(rt) = Len(rs)
      /\ \A i \in 1..Len(rs) : rt[i] = IF i = q THEN r ELSE rs[i]
  BY ExceptSeq
<1>2. /\ pt \in Seq(Rules) /\ Len(pt) = Len(ps)
      /\ \A m \in 1..Len(ps) : pt[m] = IF m = k THEN r ELSE ps[m]
  BY ExceptSeq
<1>3. rs[q] = ps[k]
  <2>1. SameKey(rs[q], ps[k])
    BY DEF SameKey
  <2> QED
    BY <2>1, Linked
<1> HIDE DEF rt, pt
<1>4. Distinct(rs) /\ Distinct(ps) /\ Ordered(rs, ps)
  BY DEF Copies
<1>5. ASSUME NEW i \in 1..Len(rs) PROVE SameKey(rt[i], rs[i])
  BY <1>1 DEF SameKey
<1>6. ASSUME NEW m \in 1..Len(ps) PROVE SameKey(pt[m], ps[m])
  BY <1>2 DEF SameKey
<1>7. ASSUME NEW i \in 1..Len(rs), NEW m \in 1..Len(ps), rt[i] = pt[m]
      PROVE  rs[i] = ps[m] /\ rs[i].priority = rt[i].priority
  <2>1. SameKey(rs[i], ps[m]) /\ rs[i].priority = rt[i].priority
    BY <1>5, <1>6, <1>7 DEF SameKey
  <2> QED
    BY <2>1, Linked
<1>8. ASSUME NEW i \in 1..Len(rs), NEW m \in 1..Len(ps), rs[i] = ps[m]
      PROVE  rt[i] = pt[m]
  <2>1. CASE i = q
    <3>1. SameKey(ps[m], ps[k])
      BY <1>3, <1>8, <2>1 DEF SameKey
    <3>2. m = k
      BY <1>4, <3>1 DEF Distinct
    <3> QED
      BY <1>1, <1>2, <2>1, <3>2
  <2>2. CASE m = k
    <3>1. SameKey(rs[i], rs[q])
      BY <1>3, <1>8, <2>2 DEF SameKey
    <3>2. i = q
      BY <1>4, <3>1 DEF Distinct
    <3> QED
      BY <1>1, <1>2, <2>2, <3>2
  <2>3. CASE i # q /\ m # k
    BY <1>1, <1>2, <1>8, <2>3
  <2> QED
    BY <2>1, <2>2, <2>3
<1>9. \A i \in 1..Len(rs) : \E m \in 1..Len(ps) : rt[i] = pt[m]
  BY <1>8 DEF Copies
<1>10. \A m \in 1..Len(ps) : \E i \in 1..Len(rs) : rt[i] = pt[m]
  BY <1>8 DEF Copies
<1>11. ASSUME NEW i \in 1..Len(rs), NEW j \in 1..Len(rs), SameKey(rt[i], rt[j]) PROVE i = j
  <2>1. SameKey(rs[i], rs[j])
    BY <1>5, <1>11 DEF SameKey
  <2> QED
    BY <1>4, <2>1 DEF Distinct
<1>12. ASSUME NEW i \in 1..Len(ps), NEW j \in 1..Len(ps), SameKey(pt[i], pt[j]) PROVE i = j
  <2>1. SameKey(ps[i], ps[j])
    BY <1>6, <1>12 DEF SameKey
  <2> QED
    BY <1>4, <2>1 DEF Distinct
<1>13. ASSUME NEW i \in 1..Len(rs), NEW j \in 1..Len(rs), i < j,
              NEW m \in 1..Len(ps), NEW n \in 1..Len(ps), rt[i] = pt[m], rt[j] = pt[n]
       PROVE  \/ rt[i].priority < rt[j].priority
              \/ rt[i].priority = rt[j].priority /\ m < n
  <2>1. /\ rs[i] = ps[m] /\ rs[i].priority = rt[i].priority
        /\ rs[j] = ps[n] /\ rs[j].priority = rt[j].priority
    BY <1>7, <1>13
  <2>2. \/ rs[i].priority < rs[j].priority
        \/ rs[i].priority = rs[j].priority /\ m < n
    BY ONLY <1>4, <1>13, <2>1, OrderedFact
  <2> QED
    BY <2>1, <2>2
<1>14. Distinct(rt) /\ Distinct(pt) /\ Ordered(rt, pt)
  BY <1>1, <1>2, <1>11, <1>12, <1>13 DEF Distinct, Ordered
<1>15. Copies(rt, pt)
  BY <1>1, <1>2, <1>9, <1>10, <1>14 DEF Copies
<1> QED
  BY <1>1, <1>2, <1>15 DEF rt, pt

(* The others keep their order when a rule is removed.                     *)
LEMMA CopiesRemoved ==
    ASSUME NEW rs \in Seq(Rules), NEW ps \in Seq(Rules), Copies(rs, ps),
           NEW q \in 1..Len(rs), NEW k \in 1..Len(ps), rs[q] = ps[k]
    PROVE  /\ RemoveAt(rs, q) \in Seq(Rules) /\ RemoveAt(ps, k) \in Seq(Rules)
           /\ Copies(RemoveAt(rs, q), RemoveAt(ps, k))
<1> DEFINE rt == RemoveAt(rs, q)
           pt == RemoveAt(ps, k)
           N == Len(rs) - 1
           M == Len(ps) - 1
           I(i) == IF i < q THEN i ELSE i + 1
           P(m) == IF m < k THEN m ELSE m + 1
<1>0. Len(rs) \in Nat /\ Len(ps) \in Nat /\ q \in 1..Len(rs) /\ k \in 1..Len(ps)
  OBVIOUS
<1>1. /\ rt \in Seq(Rules) /\ Len(rt) = N
      /\ \A i \in 1..N : rt[i] = IF i < q THEN rs[i] ELSE rs[i + 1]
  BY Removed
<1>2. /\ pt \in Seq(Rules) /\ Len(pt) = M
      /\ \A i \in 1..M : pt[i] = IF i < k THEN ps[i] ELSE ps[i + 1]
  BY Removed
<1> HIDE DEF rt, pt
<1>3. ASSUME NEW i \in 1..N PROVE I(i) \in 1..Len(rs) /\ I(i) # q /\ rt[i] = rs[I(i)]
  <2>1. I(i) \in 1..Len(rs) /\ I(i) # q
    BY <1>0
  <2> QED
    BY <1>1, <2>1
<1>4. ASSUME NEW m \in 1..M PROVE P(m) \in 1..Len(ps) /\ P(m) # k /\ pt[m] = ps[P(m)]
  <2>1. P(m) \in 1..Len(ps) /\ P(m) # k
    BY <1>0
  <2> QED
    BY <1>2, <2>1
<1>5. ASSUME NEW i \in 1..N, NEW j \in 1..N
      PROVE  (I(i) = I(j) => i = j) /\ (i < j => I(i) < I(j))
  BY <1>0
<1>6. ASSUME NEW m \in 1..M, NEW n \in 1..M
      PROVE  (P(m) = P(n) => m = n) /\ (P(m) < P(n) => m < n)
  BY <1>0
<1>7. ASSUME NEW j \in 1..Len(rs), j # q PROVE \E i \in 1..N : I(i) = j
  <2>1. CASE j < q
    <3>1. j \in 1..N /\ I(j) = j
      BY <1>0, <2>1
    <3> QED
      BY <3>1
  <2>2. CASE ~(j < q)
    <3>1. j - 1 \in 1..N /\ I(j - 1) = j
      BY <1>0, <1>7, <2>2
    <3> QED
      BY <3>1
  <2> QED
    BY <2>1, <2>2
<1>8. ASSUME NEW n \in 1..Len(ps), n # k PROVE \E m \in 1..M : P(m) = n
  <2>1. CASE n < k
    <3>1. n \in 1..M /\ P(n) = n
      BY <1>0, <2>1
    <3> QED
      BY <3>1
  <2>2. CASE ~(n < k)
    <3>1. n - 1 \in 1..M /\ P(n - 1) = n
      BY <1>0, <1>8, <2>2
    <3> QED
      BY <3>1
  <2> QED
    BY <2>1, <2>2
<1>9. Distinct(rs) /\ Distinct(ps) /\ Ordered(rs, ps)
  BY DEF Copies
<1> HIDE DEF I, P, N, M
<1>10. ASSUME NEW j \in 1..Len(rs), NEW n \in 1..Len(ps), rs[j] = ps[n] PROVE j = q <=> n = k
  <2>1. ASSUME j = q PROVE n = k
    <3>1. SameKey(ps[n], ps[k])
      BY <1>10, <2>1 DEF SameKey
    <3> QED
      BY <1>9, <3>1 DEF Distinct
  <2>2. ASSUME n = k PROVE j = q
    <3>1. SameKey(rs[j], rs[q])
      BY <1>10, <2>2 DEF SameKey
    <3> QED
      BY <1>9, <3>1 DEF Distinct
  <2> QED
    BY <2>1, <2>2
<1>11. ASSUME NEW i \in 1..N PROVE \E m \in 1..M : rt[i] = pt[m]
  <2>1. PICK n \in 1..Len(ps) : rs[I(i)] = ps[n]
    BY <1>3 DEF Copies
  <2>2. n # k
    BY <1>3, <1>10, <2>1
  <2> QED
    BY <1>3, <1>4, <1>8, <2>1, <2>2
<1>12. ASSUME NEW m \in 1..M PROVE \E i \in 1..N : rt[i] = pt[m]
  <2>1. PICK j \in 1..Len(rs) : rs[j] = ps[P(m)]
    BY <1>4 DEF Copies
  <2>2. j # q
    BY <1>4, <1>10, <2>1
  <2> QED
    BY <1>3, <1>4, <1>7, <2>1, <2>2
<1>13. ASSUME NEW i \in 1..N, NEW j \in 1..N, SameKey(rt[i], rt[j]) PROVE i = j
  <2>1. I(i) = I(j)
    BY <1>3, <1>9, <1>13 DEF Distinct
  <2> QED
    BY <1>5, <2>1
<1>14. ASSUME NEW i \in 1..M, NEW j \in 1..M, SameKey(pt[i], pt[j]) PROVE i = j
  <2>1. P(i) = P(j)
    BY <1>4, <1>9, <1>14 DEF Distinct
  <2> QED
    BY <1>6, <2>1
<1>15. ASSUME NEW i \in 1..N, NEW j \in 1..N, i < j,
              NEW m \in 1..M, NEW n \in 1..M, rt[i] = pt[m], rt[j] = pt[n]
       PROVE  \/ rt[i].priority < rt[j].priority
              \/ rt[i].priority = rt[j].priority /\ m < n
  <2>1. /\ I(i) \in 1..Len(rs) /\ I(j) \in 1..Len(rs) /\ I(i) < I(j)
        /\ P(m) \in 1..Len(ps) /\ P(n) \in 1..Len(ps)
        /\ rs[I(i)] = ps[P(m)] /\ rs[I(j)] = ps[P(n)]
        /\ rt[i] = rs[I(i)] /\ rt[j] = rs[I(j)]
    BY <1>3, <1>4, <1>5, <1>15
  <2>2. \/ rs[I(i)].priority < rs[I(j)].priority
        \/ rs[I(i)].priority = rs[I(j)].priority /\ P(m) < P(n)
    BY ONLY <1>9, <2>1, OrderedFact
  <2> QED
    BY <1>6, <2>1, <2>2
<1>16. Distinct(rt) /\ Distinct(pt) /\ Ordered(rt, pt)
  BY <1>1, <1>2, <1>13, <1>14, <1>15 DEF Distinct, Ordered
<1>17. Copies(rt, pt)
  BY <1>1, <1>2, <1>11, <1>12, <1>16 DEF Copies
<1> QED
  BY <1>1, <1>2, <1>17 DEF rt, pt

-----------------------------------------------------------------------------
(* Types, and the rules after every step *)

KeptRules ==
    /\ rules \in Seq(Rules) /\ published \in Seq(Rules)
    /\ Copies(rules, published)

(* The events of a published or removed instance keep the copy one.        *)
LEMMA PublishKeeps ==
    ASSUME KeptRules, NEW r \in Rules, PublishRule(r)
    PROVE  KeptRules'
<1> DEFINE known == IndexOf(published, r)
           rule  == IndexOf(rules, r)
<1>1. /\ rules \in Seq(Rules) /\ published \in Seq(Rules) /\ Copies(rules, published)
      /\ published' = IF known = 0 THEN Append(published, r) ELSE [published EXCEPT ![known] = r]
      /\ rules' = CASE known = 0                -> Emplace(r)
                    [] known # 0 /\ rule # 0    -> [rules EXCEPT ![rule] = r]
                    [] known # 0 /\ rule = 0    -> rules
  BY DEF KeptRules, PublishRule
<1>2. \/ known = 0 /\ \A i \in 1..Len(published) : ~SameKey(published[i], r)
      \/ known \in 1..Len(published) /\ SameKey(published[known], r)
  BY <1>1, IndexFacts
<1>3. \/ rule = 0 /\ \A i \in 1..Len(rules) : ~SameKey(rules[i], r)
      \/ rule \in 1..Len(rules) /\ SameKey(rules[rule], r)
  BY <1>1, IndexFacts
<1> HIDE DEF known, rule
<1>4. CASE known = 0
  <2> DEFINE p == Cardinality({i \in DOMAIN rules : rules[i].priority <= r.priority}) + 1
  <2>0. Len(published) \in Nat
    BY <1>1
  <2>1. \A i \in 1..Len(published) : ~SameKey(published[i], r)
    BY <1>2, <1>4, <2>0
  <2>2. rules' = InsertAt(rules, p, r) /\ published' = Append(published, r)
    BY <1>1, <1>4 DEF Emplace
  <2> HIDE DEF p
  <2>3. p = Cardinality({i \in DOMAIN rules : rules[i].priority <= r.priority}) + 1
    BY DEF p
  <2>4. /\ InsertAt(rules, p, r) \in Seq(Rules) /\ Append(published, r) \in Seq(Rules)
        /\ Copies(InsertAt(rules, p, r), Append(published, r))
    BY <1>1, <2>1, <2>3, CopiesNew
  <2> QED
    BY <2>2, <2>4 DEF KeptRules
<1>5. CASE known # 0
  <2>1. known \in 1..Len(published) /\ SameKey(published[known], r)
    BY <1>2, <1>5
  <2>2. PICK i \in 1..Len(rules) : rules[i] = published[known]
    BY <1>1, <2>1 DEF Copies
  <2>3. rule # 0 /\ rule \in 1..Len(rules) /\ SameKey(rules[rule], r)
    <3>1. Len(rules) \in Nat
      BY <1>1
    <3> QED
      BY <1>3, <2>1, <2>2, <3>1
  <2>4. rules' = [rules EXCEPT ![rule] = r] /\ published' = [published EXCEPT ![known] = r]
    BY <1>1, <1>5, <2>3
  <2>5. /\ [rules EXCEPT ![rule] = r] \in Seq(Rules)
        /\ [published EXCEPT ![known] = r] \in Seq(Rules)
        /\ Copies([rules EXCEPT ![rule] = r], [published EXCEPT ![known] = r])
    BY <1>1, <2>1, <2>3, CopiesUpdate
  <2> QED
    BY <2>4, <2>5 DEF KeptRules
<1> QED
  BY <1>4, <1>5

LEMMA RemoveKeeps ==
    ASSUME KeptRules, NEW r, RemoveRule(r)
    PROVE  r \in Rules /\ KeptRules'
<1> DEFINE k == IndexOf(published, r)
           q == IndexOf(rules, r)
<1>1. /\ rules \in Seq(Rules) /\ published \in Seq(Rules) /\ Copies(rules, published)
      /\ r \in ToSet(published)
      /\ published' = RemoveAt(published, k) /\ rules' = RemoveAt(rules, q)
  BY DEF KeptRules, RemoveRule
<1>2. PICK m \in 1..Len(published) : published[m] = r
  BY <1>1 DEF ToSet
<1>3. r \in Rules /\ SameKey(r, r)
  BY <1>1, <1>2 DEF SameKey
<1>4. k \in 1..Len(published) /\ published[k] = r
  <2>1. k \in 1..Len(published) /\ SameKey(published[k], r)
    BY <1>1, <1>2, <1>3, IndexFacts
  <2>2. Distinct(published)
    BY <1>1 DEF Copies
  <2> HIDE DEF k
  <2> QED
    BY <1>2, <2>1, <2>2 DEF Distinct
<1>5. q \in 1..Len(rules) /\ rules[q] = published[k]
  <2>1. PICK i \in 1..Len(rules) : rules[i] = published[m]
    BY <1>1 DEF Copies
  <2>2. q \in 1..Len(rules) /\ SameKey(rules[q], r)
    BY <1>1, <1>2, <1>3, <2>1, IndexFacts
  <2> HIDE DEF k, q
  <2> QED
    BY <1>1, <1>4, <2>2, Linked
<1> HIDE DEF k, q
<1>6. /\ RemoveAt(rules, q) \in Seq(Rules) /\ RemoveAt(published, k) \in Seq(Rules)
      /\ Copies(RemoveAt(rules, q), RemoveAt(published, k))
  BY <1>1, <1>4, <1>5, CopiesRemoved
<1> QED
  BY <1>1, <1>3, <1>6 DEF KeptRules

(* What a step leaves to be shown of each group of variables.              *)
LEMMA SetStateTypes ==
    ASSUME TypeOK, NEW c \in Conn, NEW to \in State, SetState(c, to)
    PROVE  /\ state' \in [Conn -> State]
           /\ DOMAIN client' \subseteq Conn /\ client' \in [DOMAIN client' -> State]
BY DEF TypeOK, SetState

LEMMA InsertTypes ==
    ASSUME TypeOK, NEW k \in Key \cup RuleKeys, NEW s \in {HostId} \cup Conn, Insert(k, s)
    PROVE  /\ DOMAIN instance' \subseteq Key \cup RuleKeys
           /\ instance' \in [DOMAIN instance' -> CloneInformation]
<1> DEFINE D == DOMAIN instance \cup {k}
           info == [createdFrom |-> IF k \in DOMAIN instance THEN instance[k].createdFrom ELSE s,
                    lastUpdateFrom |-> s]
<1>1. info \in CloneInformation
  BY DEF TypeOK, CloneInformation
<1> HIDE DEF info
<1>2. instance' = [j \in D |-> IF j # k THEN instance[j] ELSE info]
  BY DEF Insert, info
<1> QED
  BY <1>1, <1>2 DEF TypeOK

LEMMA EraseTypes ==
    ASSUME TypeOK, NEW K, instance' = [j \in DOMAIN instance \ K |-> instance[j]]
    PROVE  /\ DOMAIN instance' \subseteq Key \cup RuleKeys
           /\ instance' \in [DOMAIN instance' -> CloneInformation]
BY DEF TypeOK

LEMMA ClosedTypes ==
    ASSUME TypeOK, NEW c \in Conn, Closed(c)
    PROVE  TypeOK'
<1>1. /\ state' \in [Conn -> State]
      /\ DOMAIN client' \subseteq Conn /\ client' \in [DOMAIN client' -> State]
  <2>1. "closed" \in State
    BY DEF State
  <2> QED
    BY <2>1, SetStateTypes DEF Closed
<1>2. /\ DOMAIN instance' \subseteq Key \cup RuleKeys
      /\ instance' \in [DOMAIN instance' -> CloneInformation]
  BY EraseTypes DEF Closed
<1> QED
  BY <1>1, <1>2 DEF Closed, TypeOK, authVars

(* The inductive invariant.                                                *)
Typed == TypeOK /\ Copies(rules, published)

LEMMA InitTyped == Init => Typed
<1> SUFFICES ASSUME Init PROVE Typed
  OBVIOUS
<1>1. rules = << >> /\ published = << >> /\ default = Unset
  BY DEF Init, AuthInit
<1>2. rules \in Seq(Rules) /\ published \in Seq(Rules) /\ Copies(rules, published)
  BY <1>1 DEF Copies, Distinct, Ordered
<1>3. client \in [DOMAIN client -> State] /\ DOMAIN client = {}
  BY DEF Init
<1>4. instance \in [DOMAIN instance -> CloneInformation] /\ DOMAIN instance = {}
  BY DEF Init
<1>5. pubs \in 0..MaxPub
  BY DaemonAssumption DEF Init
<1> QED
  BY <1>1, <1>2, <1>3, <1>4, <1>5 DEF Init, Typed, TypeOK, Accept, State

LEMMA NextTyped == Typed /\ [Next]_vars => Typed'
<1> SUFFICES ASSUME Typed, [Next]_vars PROVE Typed'
  OBVIOUS
<1>0. TypeOK /\ KeptRules
  BY DEF Typed, TypeOK, KeptRules
<1>1. ASSUME NEW c \in Conn, HandleListenAccept(c) PROVE Typed'
  <2>1. "connecting" \in State
    BY DEF State
  <2>2. /\ state' \in [Conn -> State]
        /\ DOMAIN client' \subseteq Conn /\ client' \in [DOMAIN client' -> State]
    BY <1>0, <1>1, <2>1, SetStateTypes DEF HandleListenAccept
  <2>3. nonce' \in [Conn -> Conn \cup {NoNonce}]
    BY <1>0, <1>1 DEF HandleListenAccept, TypeOK
  <2> QED
    BY <1>0, <1>1, <2>2, <2>3 DEF HandleListenAccept, authVars, Typed, TypeOK
<1>2. ASSUME NEW c \in Conn, Closed(c) PROVE Typed'
  <2>1. rules' = rules /\ published' = published
    BY <1>2 DEF Closed, authVars
  <2> QED
    BY <1>0, <1>2, <2>1, ClosedTypes DEF Typed
<1>3. ASSUME NEW c \in Conn, HandleConnect(c) PROVE Typed'
  <2>1. CASE SetState(c, "early_subscribe") /\ UNCHANGED <<authVars, nonce, instance, pubs>>
    <3>1. "early_subscribe" \in State
      BY DEF State
    <3>2. /\ state' \in [Conn -> State]
          /\ DOMAIN client' \subseteq Conn /\ client' \in [DOMAIN client' -> State]
      BY <1>0, <2>1, <3>1, SetStateTypes
    <3> QED
      BY <1>0, <2>1, <3>2 DEF authVars, Typed, TypeOK
  <2> QED
    BY <1>2, <1>3, <2>1 DEF HandleConnect
<1>4. ASSUME NEW c \in Conn, HandlePreloadClientFinished(c) PROVE Typed'
  <2>1. "connected" \in State
    BY DEF State
  <2>2. /\ state' \in [Conn -> State]
        /\ DOMAIN client' \subseteq Conn /\ client' \in [DOMAIN client' -> State]
    BY <1>0, <1>4, <2>1, SetStateTypes DEF HandlePreloadClientFinished
  <2> QED
    BY <1>0, <1>4, <2>2 DEF HandlePreloadClientFinished, authVars, Typed, TypeOK
<1>5. ASSUME NEW c \in Conn, HandleClose(c) PROVE Typed'
  BY <1>2, <1>5 DEF HandleClose
<1>6. ASSUME Publish PROVE Typed'
  <2>1. pubs' \in 0..MaxPub /\ UNCHANGED <<state, nonce, client>>
    BY <1>0, <1>6, DaemonAssumption DEF Publish, TypeOK
  <2>2. Sender \subseteq {HostId} \cup Conn
    BY DEF Sender
  <2>3. SUFFICES /\ KeptRules' /\ default' \in Accept
                 /\ DOMAIN instance' \subseteq Key \cup RuleKeys
                 /\ instance' \in [DOMAIN instance' -> CloneInformation]
    BY <1>0, <2>1 DEF Typed, TypeOK, KeptRules
  <2>4. ASSUME UNCHANGED authVars PROVE KeptRules' /\ default' \in Accept
    BY <1>0, <2>4 DEF authVars, KeptRules, TypeOK
  <2>5. CASE \E s \in Sender, k \in Key : Insert(k, s) /\ UNCHANGED authVars
    BY <1>0, <2>2, <2>4, <2>5, InsertTypes
  <2>6. CASE \E k \in DOMAIN instance \cap Key : Erase(k) /\ UNCHANGED authVars
    BY <1>0, <2>4, <2>6, EraseTypes DEF Erase
  <2>7. CASE \E s \in Sender, r \in Rules : PublishRule(r) /\ Insert(KeyOf(r), s)
    <3>1. PICK s \in Sender, r \in Rules : PublishRule(r) /\ Insert(KeyOf(r), s)
      BY <2>7
    <3>2. default' \in Accept
      BY <1>0, <3>1 DEF PublishRule, TypeOK
    <3>3. KeptRules'
      BY <1>0, <3>1, PublishKeeps
    <3>4. KeyOf(r) \in Key \cup RuleKeys /\ s \in {HostId} \cup Conn
      BY <2>2, RuleFacts
    <3> QED
      BY <1>0, <3>1, <3>2, <3>3, <3>4, InsertTypes
  <2>8. CASE \E r \in ToSet(published) : RemoveRule(r) /\ Erase(KeyOf(r))
    <3>1. PICK r \in ToSet(published) : RemoveRule(r) /\ Erase(KeyOf(r))
      BY <2>8
    <3>2. default' \in Accept
      BY <1>0, <3>1 DEF RemoveRule, TypeOK
    <3>3. KeptRules'
      BY <1>0, <3>1, RemoveKeeps
    <3> QED
      BY <1>0, <3>1, <3>2, <3>3, EraseTypes DEF Erase
  <2>9. ASSUME UNCHANGED <<rules, published, instance>>, default' \in Accept
        PROVE  /\ KeptRules' /\ default' \in Accept
               /\ DOMAIN instance' \subseteq Key \cup RuleKeys
               /\ instance' \in [DOMAIN instance' -> CloneInformation]
    BY <1>0, <2>9 DEF KeptRules, TypeOK
  <2>10. CASE \E accept \in Accept : PublishPolicy(accept) /\ UNCHANGED instance
    BY <1>0, <2>9, <2>10 DEF PublishPolicy, TypeOK
  <2>11. CASE RemovePolicy /\ UNCHANGED instance
    BY <2>9, <2>11 DEF RemovePolicy, Accept
  <2> QED
    BY <1>6, <2>5, <2>6, <2>7, <2>8, <2>10, <2>11 DEF Publish
<1>7. CASE CleanUpClients
  <2>1. DOMAIN client' \subseteq Conn /\ client' \in [DOMAIN client' -> State]
    BY <1>0, <1>7 DEF CleanUpClients, TypeOK
  <2> QED
    BY <1>0, <1>7, <2>1 DEF CleanUpClients, authVars, Typed, TypeOK
<1>8. CASE UNCHANGED vars
  BY <1>8 DEF vars, Typed, TypeOK
<1> QED
  BY <1>1, <1>3, <1>4, <1>5, <1>6, <1>7, <1>8 DEF Next

(* The manager's rules are at all times a copy of the published ones, in   *)
(* the order of their priority and of equal ones the oldest first.         *)
THEOREM AlwaysTyped == Spec => []Typed
<1> QED
  BY InitTyped, NextTyped, PTL DEF Spec

(* The rules and their copy are sequences of rules, every connection has   *)
(* a state, every client and instance is one of a known key.               *)
THEOREM TypeCorrect == Spec => []TypeOK
<1>1. Typed => TypeOK
  BY DEF Typed
<1> QED
  BY <1>1, AlwaysTyped, PTL

-----------------------------------------------------------------------------
(* The guests that instances name *)

(* A connection that is open has a client that says so.                    *)
ClientsFollow ==
    \A c \in Conn : state[c] \notin {"suspended", "closed"} =>
                        c \in DOMAIN client /\ client[c] = state[c]

Named == Typed /\ ClientsKnown /\ ClientsFollow

LEMMA InitNamed == Init => Named
BY InitTyped DEF Init, Named, ClientsKnown, ClientsFollow

(* Transitions only add clients, and are seen in them.                     *)
LEMMA SetStateNamed ==
    ASSUME Named, NEW c \in Conn, NEW to, SetState(c, to),
           \A k \in DOMAIN instance' : k \in DOMAIN instance /\ instance'[k] = instance[k]
    PROVE  ClientsKnown' /\ ClientsFollow'
<1>1. /\ state' = [state EXCEPT ![c] = to] /\ state \in [Conn -> State]
      /\ client' = [d \in DOMAIN client \cup {c} |-> IF d = c THEN to ELSE client[d]]
  BY DEF SetState, Named, Typed, TypeOK
<1>2. ClientsKnown'
  BY <1>1 DEF Named, ClientsKnown
<1>3. ASSUME NEW d \in Conn, state'[d] \notin {"suspended", "closed"}
      PROVE  d \in DOMAIN client' /\ client'[d] = state'[d]
  BY <1>1, <1>3 DEF Named, ClientsFollow
<1> QED
  BY <1>2, <1>3 DEF ClientsFollow

LEMMA ClosedNamed ==
    ASSUME Named, NEW c \in Conn, Closed(c)
    PROVE  ClientsKnown' /\ ClientsFollow'
<1>1. \A k \in DOMAIN instance' : k \in DOMAIN instance /\ instance'[k] = instance[k]
  BY DEF Closed
<1>2. SetState(c, "closed")
  BY DEF Closed
<1> QED
  BY <1>1, <1>2, SetStateNamed

(* What is inserted names its sender, who has a client if it is a guest.   *)
LEMMA InsertNamed ==
    ASSUME Named, NEW s \in Sender, NEW k, Insert(k, s), UNCHANGED client
    PROVE  ClientsKnown'
<1>1. s \in {HostId} \cup DOMAIN client
  <2>1. CASE s = HostId
    BY <2>1
  <2>2. CASE s \in Conn /\ Up(s)
    BY <2>2 DEF Named, ClientsFollow, Up
  <2> QED
    BY <2>1, <2>2 DEF Sender
<1>2. ASSUME NEW j \in DOMAIN instance'
      PROVE  {instance'[j].createdFrom, instance'[j].lastUpdateFrom} \subseteq {HostId} \cup DOMAIN client
  <2>1. CASE j # k
    <3>1. j \in DOMAIN instance /\ instance'[j] = instance[j]
      BY <1>2, <2>1 DEF Insert
    <3> QED
      BY <3>1 DEF Named, ClientsKnown
  <2>2. CASE j = k
    <3>1. instance'[j] = [createdFrom |-> IF k \in DOMAIN instance THEN instance[k].createdFrom ELSE s,
                          lastUpdateFrom |-> s]
      BY <1>2, <2>2 DEF Insert
    <3>2. k \in DOMAIN instance => instance[k].createdFrom \in {HostId} \cup DOMAIN client
      BY DEF Named, ClientsKnown
    <3> QED
      BY <1>1, <3>1, <3>2
  <2> QED
    BY <2>1, <2>2
<1> QED
  BY <1>2 DEF ClientsKnown

LEMMA NextNamed == Named /\ [Next]_vars => Named'
<1> SUFFICES ASSUME Named, [Next]_vars PROVE ClientsKnown' /\ ClientsFollow'
  BY NextTyped DEF Named
<1>1. ASSUME NEW c \in Conn, HandleListenAccept(c) PROVE ClientsKnown' /\ ClientsFollow'
  BY <1>1, SetStateNamed DEF HandleListenAccept
<1>2. ASSUME NEW c \in Conn, HandleConnect(c) PROVE ClientsKnown' /\ ClientsFollow'
  <2>1. CASE SetState(c, "early_subscribe") /\ UNCHANGED <<authVars, nonce, instance, pubs>>
    BY <2>1, SetStateNamed
  <2> QED
    BY <1>2, <2>1, ClosedNamed DEF HandleConnect
<1>3. ASSUME NEW c \in Conn, HandlePreloadClientFinished(c) PROVE ClientsKnown' /\ ClientsFollow'
  BY <1>3, SetStateNamed DEF HandlePreloadClientFinished
<1>4. ASSUME NEW c \in Conn, HandleClose(c) PROVE ClientsKnown' /\ ClientsFollow'
  BY <1>4, ClosedNamed DEF HandleClose
<1>5. CASE Publish
  <2>1. UNCHANGED <<state, client>>
    BY <1>5 DEF Publish
  <2>2. ClientsFollow'
    BY <2>1 DEF Named, ClientsFollow
  <2>3. ASSUME NEW K, instance' = [j \in DOMAIN instance \ K |-> instance[j]] PROVE ClientsKnown'
    BY <2>1, <2>3 DEF Named, ClientsKnown
  <2>4. ASSUME UNCHANGED instance PROVE ClientsKnown'
    BY <2>1, <2>4 DEF Named, ClientsKnown
  <2>5. CASE \E s \in Sender, k \in Key : Insert(k, s)
    <3>1. PICK s \in Sender, k \in Key : Insert(k, s)
      BY <2>5
    <3>2. UNCHANGED client
      BY <2>1
    <3> QED
      BY <2>2, <3>1, <3>2, InsertNamed
  <2>6. CASE \E s \in Sender, r \in Rules : Insert(KeyOf(r), s)
    <3>1. PICK s \in Sender, r \in Rules : Insert(KeyOf(r), s)
      BY <2>6
    <3>2. UNCHANGED client
      BY <2>1
    <3> QED
      BY <2>2, <3>1, <3>2, InsertNamed
  <2>7. CASE \E k : Erase(k)
    <3>1. PICK k : Erase(k)
      BY <2>7
    <3>2. instance' = [j \in DOMAIN instance \ {k} |-> instance[j]]
      BY <3>1 DEF Erase
    <3> QED
      BY <2>2, <2>3, <3>2
  <2> QED
    BY <1>5, <2>2, <2>4, <2>5, <2>6, <2>7 DEF Publish
<1>6. CASE CleanUpClients
  <2> DEFINE expired == {c \in DOMAIN client : client[c] = "closed" /\ IsStale(c)}
  <2>1. /\ client' = [c \in DOMAIN client \ expired |-> client[c]]
        /\ UNCHANGED <<state, instance>>
    BY <1>6 DEF CleanUpClients
  <2>2. ASSUME NEW k \in DOMAIN instance
        PROVE  /\ instance[k].createdFrom \notin expired
               /\ instance[k].lastUpdateFrom \notin expired
    BY <2>2 DEF IsStale
  <2>3. ASSUME NEW c \in Conn, state[c] \notin {"suspended", "closed"}
        PROVE  c \in DOMAIN client \ expired /\ client[c] = state[c]
    BY <2>3 DEF Named, ClientsFollow
  <2> HIDE DEF expired
  <2>4. ClientsKnown'
    BY <2>1, <2>2 DEF Named, ClientsKnown
  <2>5. ClientsFollow'
    BY <2>1, <2>3 DEF ClientsFollow
  <2> QED
    BY <2>4, <2>5
<1>7. CASE UNCHANGED vars
  BY <1>7 DEF vars, Named, ClientsKnown, ClientsFollow
<1> QED
  BY <1>1, <1>2, <1>3, <1>4, <1>5, <1>6, <1>7 DEF Next

(* DotsDaemon never removes the DotsClient of a guest that an instance     *)
(* still names as the one who created it or changed it last.               *)
THEOREM DaemonKnowsClients == Spec => []ClientsKnown
<1>1. Named => ClientsKnown
  BY DEF Named
<1> QED
  BY <1>1, InitNamed, NextNamed, PTL DEF Spec

-----------------------------------------------------------------------------
(* The verdict *)

(* An address that a network is a network of.                              *)
LEMMA Matching ==
    ASSUME NEW r \in Rules, NEW address, Bits(address.bits),
           r.network.version = address.version => Len(r.network.bits) = Len(address.bits)
    PROVE  Constructible(r.network) /\ IsSubnetOf(Network(address), r.network) <=>
               /\ r.network.version = address.version
               /\ r.network.prefix <= Len(address.bits)
               /\ \A b \in 1..r.network.prefix : r.network.bits[b] = address.bits[b]
<1> DEFINE x == address.bits
           y == r.network.bits
           p == r.network.prefix
<1>1. /\ r.network = [version |-> r.network.version, bits |-> y, prefix |-> p]
      /\ Bits(y) /\ p \in Nat
  BY RuleFacts
<1>2. /\ Len(x) \in Nat /\ x \in [1..Len(x) -> {0, 1}]
      /\ Len(y) \in Nat /\ y \in [1..Len(y) -> {0, 1}]
  BY <1>1 DEF Bits
<1>3. /\ Network(address).version = address.version /\ Network(address).bits = x
      /\ Network(address).prefix = Len(x)
  BY DEF Network
<1>4. ASSUME NEW z, Len(z) \in Nat, z \in [1..Len(z) -> {0, 1}], p <= Len(z)
      PROVE  /\ SubSeq(z, 1, p) \in Seq({0, 1}) /\ Len(SubSeq(z, 1, p)) = p
             /\ \A b \in 1..p : SubSeq(z, 1, p)[b] = z[b]
  <2>1. \A b \in 1..p : z[b] \in {0, 1}
    BY <1>1, <1>4
  <2>2. /\ SubSeq(z, 1, p) \in Seq({0, 1})
        /\ Len(SubSeq(z, 1, p)) = IF 1 <= p THEN p - 1 + 1 ELSE 0
        /\ \A b \in 1..(p - 1 + 1) : SubSeq(z, 1, p)[b] = z[1 + b - 1]
    BY <1>1, <2>1, SubSeqProperties
  <2> HIDE DEF p
  <2>3. p \in Nat /\ p - 1 + 1 = p /\ \A b \in 1..p : 1 + b - 1 = b
    BY <1>1
  <2> QED
    BY <2>2, <2>3
<1> HIDE DEF x, y, p
<1>5. ASSUME p <= Len(x), Len(x) = Len(y)
      PROVE  SubSeq(x, 1, p) = SubSeq(y, 1, p) <=> \A b \in 1..p : y[b] = x[b]
  <2>1. /\ SubSeq(x, 1, p) \in Seq({0, 1}) /\ Len(SubSeq(x, 1, p)) = p
        /\ \A b \in 1..p : SubSeq(x, 1, p)[b] = x[b]
    BY <1>2, <1>4, <1>5
  <2>2. /\ SubSeq(y, 1, p) \in Seq({0, 1}) /\ Len(SubSeq(y, 1, p)) = p
        /\ \A b \in 1..p : SubSeq(y, 1, p)[b] = y[b]
    BY <1>2, <1>4, <1>5
  <2> DEFINE sx == SubSeq(x, 1, p)
             sy == SubSeq(y, 1, p)
  <2> HIDE DEF sx, sy
  <2>3. ASSUME \A b \in 1..p : y[b] = x[b] PROVE sx = sy
    BY <2>1, <2>2, <2>3, SeqEqual DEF sx, sy
  <2>4. ASSUME sx = sy, NEW b \in 1..p PROVE y[b] = x[b]
    BY <2>1, <2>2, <2>4 DEF sx, sy
  <2> QED
    BY <2>3, <2>4 DEF sx, sy
<1>6. r.network.version = address.version => Len(y) = Len(x)
  BY DEF x, y
<1>7. ASSUME Constructible(r.network), IsStrictSubnetOf(Network(address), r.network)
      PROVE  /\ r.network.version = address.version /\ p <= Len(x)
             /\ \A b \in 1..p : y[b] = x[b]
  <2>1. /\ r.network.version = address.version /\ p < Len(x)
        /\ SubSeq(x, 1, p) = SubSeq(y, 1, p)
    BY <1>3, <1>7 DEF IsStrictSubnetOf, Canonical, x, y, p
  <2>2. p <= Len(x)
    <3>1. p \in Nat /\ Len(x) \in Nat /\ p < Len(x)
      BY <1>1, <1>2, <2>1
    <3> QED
      BY <3>1
  <2>3. Len(x) = Len(y)
    BY <1>6, <2>1
  <2> QED
    BY <1>5, <2>1, <2>2, <2>3
<1>8. ASSUME Network(address) = r.network
      PROVE  /\ r.network.version = address.version /\ p <= Len(x)
             /\ \A b \in 1..p : y[b] = x[b]
  <2>1. r.network.version = address.version /\ y = x /\ p = Len(x)
    BY <1>3, <1>8 DEF x, y, p
  <2> QED
    BY <1>2, <2>1
<1>9. ASSUME r.network.version = address.version, p <= Len(x), \A b \in 1..p : y[b] = x[b]
      PROVE  Constructible(r.network) /\ IsSubnetOf(Network(address), r.network)
  <2>1. Len(y) = Len(x) /\ p <= Len(y)
    BY <1>6, <1>9
  <2>2. Constructible(r.network)
    BY <2>1 DEF Constructible, y, p
  <2>3. CASE p < Len(x)
    <3>1. SubSeq(x, 1, p) = SubSeq(y, 1, p)
      BY <1>5, <1>9, <2>1
    <3>2. IsStrictSubnetOf(Network(address), r.network)
      BY <1>3, <1>9, <2>3, <3>1 DEF IsStrictSubnetOf, Canonical, x, y, p
    <3> QED
      BY <2>2, <3>2 DEF IsSubnetOf
  <2>4. CASE p = Len(x)
    <3>1. x = y
      BY <1>2, <1>9, <2>1, <2>4
    <3>2. r.network = [version |-> address.version, bits |-> x, prefix |-> Len(x)]
      BY <1>1, <1>9, <2>4, <3>1 DEF x, y, p
    <3>3. r.network = Network(address)
      BY <3>2 DEF Network, x
    <3> QED
      BY <2>2, <3>3 DEF IsSubnetOf
  <2>5. p < Len(x) \/ p = Len(x)
    BY <1>1, <1>2, <1>9
  <2> QED
    BY <2>3, <2>4, <2>5
<1> QED
  BY <1>7, <1>8, <1>9 DEF IsSubnetOf, x, y, p

(* A guest that is at an address, and its address.                         *)
LEMMA GuestFacts ==
    ASSUME NEW g \in AtAddress
    PROVE  /\ Bits(g.endpoint.address.bits)
           /\ \A r \in Rules : r.network.version = g.endpoint.address.version =>
                  Len(r.network.bits) = Len(g.endpoint.address.bits)
<1>1. PICK c \in Conn : g = [endpoint |-> EndpointOf[c], client |-> NameOf[c]]
  BY DEF AtAddress, Guests
<1>2. g.endpoint = EndpointOf[c] /\ EndpointOf[c].scheme \in {"tcp", "ws"} /\ c \in 2..MaxConn
  BY <1>1 DEF AtAddress, Conn, FirstId
<1>3. /\ Bits(EndpointOf[c].address.bits)
      /\ \A k \in RuleKeys : k.network.version = EndpointOf[c].address.version =>
             Len(k.network.bits) = Len(EndpointOf[c].address.bits)
  BY <1>2, DaemonAssumption
<1>4. \A r \in Rules : KeyOf(r) \in RuleKeys /\ KeyOf(r).network = r.network
  BY RuleFacts
<1> QED
  BY <1>2, <1>3, <1>4

(* What the manager looks at is what applies.                              *)
LEMMA FoundApplies ==
    ASSUME Typed, NEW g \in AtAddress, NEW s, NEW i \in 1..Len(rules)
    PROVE  i \in FindMatchingRules(g.endpoint.address, Answer(g, s).client) /\
                   Says(rules[i], 1, Answer(g, s)) # Unset
           <=> Applies(rules[i], g.endpoint.address, 1, Answer(g, s))
<1> DEFINE address == g.endpoint.address
           connect == Answer(g, s)
<1>1. rules \in Seq(Rules) /\ rules[i] \in Rules /\ i \in DOMAIN rules
  BY DEF Typed, TypeOK
<1>2. Bits(address.bits) /\ (rules[i].network.version = address.version =>
                                 Len(rules[i].network.bits) = Len(address.bits))
  BY <1>1, GuestFacts
<1> HIDE DEF address, connect
<1>3. Constructible(rules[i].network) /\ IsSubnetOf(Network(address), rules[i].network) <=>
          /\ rules[i].network.version = address.version
          /\ rules[i].network.prefix <= Len(address.bits)
          /\ \A b \in 1..rules[i].network.prefix : rules[i].network.bits[b] = address.bits[b]
  BY <1>1, <1>2, Matching
<1>4. i \in FindMatchingRules(address, connect.client) <=>
          /\ rules[i].client \in {"", connect.client}
          /\ Constructible(rules[i].network) /\ IsSubnetOf(Network(address), rules[i].network)
  BY <1>1 DEF FindMatchingRules
<1> QED
  BY <1>3, <1>4 DEF Applies, address, connect

LEMMA TypedVerdict == Typed => VerdictByPriority
<1> SUFFICES ASSUME Typed, NEW g \in AtAddress, NEW s \in RuleSecrets \cup {Unset}
             PROVE  LET deciding == {i \in DOMAIN published :
                                        Decides(i, g.endpoint.address, 1, Answer(g, s))}
                    IN  VerifyResponse(g.endpoint.address, 1, Answer(g, s)) =
                            IF deciding = {} THEN default # "refuse"
                            ELSE \A i \in deciding : Says(published[i], 1, Answer(g, s)) = "accept"
  BY DEF VerdictByPriority
<1> DEFINE address == g.endpoint.address
           connect == Answer(g, s)
           D == {i \in DOMAIN published : Decides(i, address, 1, connect)}
           A == {i \in FindMatchingRules(address, connect.client) :
                     Says(rules[i], 1, connect) # Unset}
           Tell(r) == Applies(r, address, 1, connect)
<1>1. /\ rules \in Seq(Rules) /\ published \in Seq(Rules) /\ Copies(rules, published)
      /\ DOMAIN rules = 1..Len(rules) /\ DOMAIN published = 1..Len(published)
      /\ Len(rules) \in Nat /\ Len(published) \in Nat
  <2>1. rules \in Seq(Rules) /\ published \in Seq(Rules) /\ Copies(rules, published)
    BY DEF Typed, TypeOK
  <2> QED
    BY <2>1
<1>2. A \subseteq 1..Len(rules)
  BY <1>1 DEF FindMatchingRules
<1>3. ASSUME NEW i \in 1..Len(rules) PROVE i \in A <=> Tell(rules[i])
  BY FoundApplies
<1>4. VerifyResponse(address, 1, connect) =
          IF A = {} THEN default # "refuse" ELSE Says(rules[Min(A)], 1, connect) = "accept"
  BY DEF VerifyResponse
<1>5. ASSUME NEW i \in 1..Len(published)
      PROVE  i \in D <=> /\ Tell(published[i])
                         /\ \A j \in 1..Len(published) : Tell(published[j]) =>
                                \/ published[i].priority < published[j].priority
                                \/ published[i].priority = published[j].priority /\ i <= j
  BY <1>1 DEF Decides
<1>6. D \subseteq 1..Len(published)
  BY <1>1
<1>7. ASSUME NEW i \in 1..Len(published) PROVE published[i].priority \in Int
  <2>1. published[i] \in Rules
    BY <1>1
  <2> QED
    BY <2>1, RuleFacts
<1> HIDE DEF A, D, Tell, address, connect
<1>8. CASE A = {}
  <2>1. ASSUME NEW j \in 1..Len(published), Tell(published[j]) PROVE FALSE
    <3>1. PICK i \in 1..Len(rules) : rules[i] = published[j]
      BY <1>1 DEF Copies
    <3> QED
      BY <1>3, <1>8, <2>1, <3>1
  <2>2. D = {}
    BY <1>5, <1>6, <2>1
  <2> QED
    BY <1>4, <1>8, <2>2 DEF D, address, connect
<1>9. CASE A # {}
  <2> DEFINE m == Min(A)
  <2>1. m \in A /\ \A n \in A : m <= n
    <3>1. A \in SUBSET Nat
      BY <1>2
    <3> QED
      BY <1>9, <3>1, Least
  <2> HIDE DEF m
  <2>2. m \in 1..Len(rules) /\ Tell(rules[m])
    BY <1>2, <1>3, <2>1
  <2>3. PICK k \in 1..Len(published) : rules[m] = published[k]
    BY <1>1, <2>2 DEF Copies
  <2>4. ASSUME NEW j \in 1..Len(published), Tell(published[j])
        PROVE  \/ published[k].priority < published[j].priority
               \/ published[k].priority = published[j].priority /\ k <= j
    <3>1. PICK i \in 1..Len(rules) : rules[i] = published[j]
      BY <1>1 DEF Copies
    <3>2. m <= i
      BY <1>3, <2>1, <2>4, <3>1
    <3>3. CASE m = i
      <4>1. SameKey(published[k], published[j]) /\ Distinct(published)
        BY <1>1, <2>3, <3>1, <3>3 DEF SameKey, Copies
      <4>2. k = j
        BY <4>1 DEF Distinct
      <4> QED
        BY <4>2
    <3>4. CASE m < i
      <4>1. Ordered(rules, published)
        BY <1>1 DEF Copies
      <4>2. \/ rules[m].priority < rules[i].priority
            \/ rules[m].priority = rules[i].priority /\ k < j
        BY ONLY <2>2, <2>3, <3>1, <3>4, <4>1, OrderedFact
      <4>3. k < j => k <= j
        OBVIOUS
      <4> QED
        BY <2>3, <3>1, <4>2, <4>3
    <3>5. m = i \/ m < i
      BY <2>2, <3>2
    <3> QED
      BY <3>3, <3>4, <3>5
  <2>5. k \in D
    BY <1>5, <2>2, <2>3, <2>4
  <2>6. ASSUME NEW i \in D PROVE i = k
    <3>1. i \in 1..Len(published) /\ Tell(published[i])
      BY <1>5, <1>6
    <3>2. \/ published[k].priority < published[i].priority
          \/ published[k].priority = published[i].priority /\ k <= i
      BY <2>4, <3>1
    <3>3. \/ published[i].priority < published[k].priority
          \/ published[i].priority = published[k].priority /\ i <= k
      BY <1>5, <2>2, <2>3, <3>1
    <3>4. published[i].priority \in Int /\ published[k].priority \in Int
      BY <1>7, <3>1
    <3> QED
      BY <3>1, <3>2, <3>3, <3>4
  <2>7. D = {k}
    BY <2>5, <2>6
  <2>8. VerifyResponse(address, 1, connect) = (Says(published[k], 1, connect) = "accept")
    BY <1>4, <1>9, <2>3 DEF m
  <2>9. VerifyResponse(address, 1, connect) =
            (\A i \in D : Says(published[i], 1, connect) = "accept")
    BY <2>7, <2>8
  <2>10. D # {}
    BY <2>5
  <2> QED
    BY <2>9, <2>10 DEF D, address, connect
<1> QED
  BY <1>8, <1>9

(* The verdict LegacyAuthManager gives is that of the published rule with  *)
(* the lowest priority that says something of the guest, the oldest of     *)
(* several, whatever was published, changed and removed before.            *)
THEOREM VerdictAsPublished == Spec => []VerdictByPriority
<1> QED
  BY TypedVerdict, AlwaysTyped, PTL

(* Only the first rule that accepts any name counts for the question; one  *)
(* that comes first for a guest with the secret would have a secret too.   *)
LEMMA TypedAsked == Typed => AskedWhenItHelps
<1> SUFFICES ASSUME Typed, NEW g \in AtAddress, ~RequiresAuthentication(g.endpoint),
                    \A i \in DOMAIN rules : ~(rules[i].client = g.client /\ rules[i].secret # Unset),
                    NEW s \in RuleSecrets, VerifyResponse(g.endpoint.address, 1, Answer(g, s))
             PROVE  VerifyResponse(g.endpoint.address, 1, Answer(g, Unset))
  BY DEF AskedWhenItHelps
<1> DEFINE address == g.endpoint.address
           with    == Answer(g, s)
           without == Answer(g, Unset)
           F == FindMatchingRules(address, g.client)
           A == {i \in F : Says(rules[i], 1, with) # Unset}
           B == {i \in F : Says(rules[i], 1, without) # Unset}
           accepting == {i \in FindMatchingRules(address, "") : rules[i].accept = "accept"}
<1>1. DOMAIN rules = 1..Len(rules) /\ Len(rules) \in Nat
  <2>1. rules \in Seq(Rules)
    BY DEF Typed, TypeOK
  <2> QED
    BY <2>1
<1>2. ~(accepting # {} /\ rules[Min(accepting)].secret # Unset)
  <2>1. g.endpoint.scheme \in {"tcp", "ws"}
    BY DEF AtAddress
  <2> QED
    BY <2>1 DEF RequiresAuthentication, RequiresAtAddress
<1>3. with.client = g.client /\ without.client = g.client
  BY DEF Answer
<1>4. /\ VerifyResponse(address, 1, with) =
             IF A = {} THEN default # "refuse" ELSE Says(rules[Min(A)], 1, with) = "accept"
      /\ VerifyResponse(address, 1, without) =
             IF B = {} THEN default # "refuse" ELSE Says(rules[Min(B)], 1, without) = "accept"
  BY <1>3 DEF VerifyResponse
<1>5. A \in SUBSET Nat /\ B \in SUBSET Nat /\ accepting \in SUBSET Nat
  <2>1. \A name : FindMatchingRules(address, name) \subseteq DOMAIN rules
    BY DEF FindMatchingRules
  <2>2. DOMAIN rules \subseteq Nat
    BY <1>1
  <2> HIDE DEF address, with, without
  <2> QED
    BY <2>1, <2>2
<1>6. ASSUME NEW i \in F, rules[i].secret # Unset PROVE rules[i].client = ""
  BY <1>6 DEF FindMatchingRules
<1>7. ASSUME NEW i \in F, rules[i].client = "", rules[i].accept = "accept" PROVE i \in accepting
  BY <1>7 DEF FindMatchingRules
<1>8. ASSUME NEW i \in accepting PROVE i \in F /\ rules[i].accept = "accept"
  BY <1>8 DEF FindMatchingRules
<1>9. without.response = Zeros
  BY DEF Answer
<1>10. ASSUME NEW i
       PROVE  Says(rules[i], 1, without) = IF rules[i].secret = Unset THEN rules[i].accept ELSE Unset
  <2>1. Zeros # Absent
    BY DEF Zeros, Absent
  <2>2. \A a, b, c, d : Zeros # Digest(a, b, c, d)
    BY DEF Zeros, Digest
  <2> QED
    BY <1>9, <2>1, <2>2 DEF Says
<1>11. ASSUME NEW i, rules[i].secret = Unset PROVE Says(rules[i], 1, with) = rules[i].accept
  BY <1>11 DEF Says
<1>12. ASSUME NEW i, Says(rules[i], 1, with) = "accept" PROVE rules[i].accept = "accept"
  BY <1>12 DEF Says, Unset
<1> HIDE DEF A, B, F, accepting, address, with, without
<1>13. B \subseteq A
  BY <1>10, <1>11 DEF A, B
<1>14. CASE A = {}
  <2>1. B = {}
    BY <1>13, <1>14
  <2> QED
    BY <1>4, <1>14, <2>1 DEF address, with, without
<1>15. CASE A # {}
  <2> DEFINE m == Min(A)
             q == Min(accepting)
  <2>1. m \in A /\ \A n \in A : m <= n
    BY <1>5, <1>15, Least
  <2>2. accepting # {} => q \in accepting /\ \A n \in accepting : q <= n
    BY <1>5, Least
  <2>3. Says(rules[m], 1, with) = "accept"
    BY <1>4, <1>15 DEF address, with
  <2> HIDE DEF m
  <2>4. m \in F /\ rules[m].accept = "accept"
    BY <1>12, <2>1, <2>3 DEF A
  <2>5. rules[m].secret = Unset
    <3> SUFFICES ASSUME rules[m].secret # Unset PROVE FALSE
      OBVIOUS
    <3>1. m \in accepting
      BY <1>6, <1>7, <2>4
    <3>2. q \in accepting /\ q <= m /\ rules[q].secret = Unset
      BY <1>2, <2>2, <3>1
    <3> HIDE DEF q
    <3>3. q \in F /\ rules[q].accept = "accept"
      BY <1>8, <3>2
    <3>4. q \in A
      BY <1>11, <3>2, <3>3 DEF A, Unset
    <3>5. m <= q /\ m \in Nat /\ q \in Nat
      BY <1>5, <2>1, <3>4
    <3> QED
      BY <3>2, <3>5
  <2>6. m \in B /\ Says(rules[m], 1, without) = "accept"
    BY <1>10, <2>4, <2>5 DEF B, Unset
  <2>7. Min(B) = m
    <3>1. Min(B) \in B /\ \A n \in B : Min(B) <= n
      BY <1>5, <2>6, Least
    <3>2. Min(B) <= m /\ m <= Min(B) /\ m \in Nat /\ Min(B) \in Nat
      BY <1>5, <1>13, <2>1, <2>6, <3>1
    <3> QED
      BY <3>2
  <2>8. VerifyResponse(address, 1, without)
    BY <1>4, <2>6, <2>7
  <2> QED
    BY <2>8 DEF address, without
<1> QED
  BY <1>14, <1>15

(* A guest that requiresAuthentication does not ask for a secret is let in *)
(* or refused as if it had been asked, unless a rule with a secret names   *)
(* it.                                                                     *)
THEOREM SecretsAreAskedFor == Spec => []AskedWhenItHelps
<1> QED
  BY TypedAsked, AlwaysTyped, PTL

=============================================================================
