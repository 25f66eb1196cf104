--------------------------------- MODULE Facts ---------------------------------
(***************************************************************************)
(* Facts about numbers and sequences that the proofs of several modules    *)
(* rest on.  The library states its theorems about induction with an       *)
(* operator as parameter; here they come from its theorem about minimal    *)
(* elements of well-founded relations, which takes a set.                  *)
(***************************************************************************)
EXTENDS Integers, Sequences, FiniteSets, FiniteSetsExt, SequencesExt,
        TLAPS, WellFoundedInduction, FiniteSetTheorems

-------------------------------------------------------------------------------
(* Numbers.                                                                *)

(* Induction over the naturals, as the theorem that < is well-founded.     *)
LEMMA Least ==
  ASSUME NEW S \in SUBSET Nat, S # {}
  PROVE  \E x \in S : \A y \in S : x <= y
<1> DEFINE Less == OpToRel(<, Nat)
<1>1. \A x, y \in Nat : y < x => <<y, x>> \in Less
  BY DEF OpToRel
<1>2. IsWellFoundedOn(Less, Nat)
  BY NatLessThanWellFounded
<1> HIDE DEF Less
<1>3. PICK x \in S : \A y \in S : ~ (<<y, x>> \in Less)
  BY <1>2, WFMin
<1>4. ASSUME NEW y \in S PROVE x <= y
  <2>1. x \in Nat /\ y \in Nat /\ ~ y < x
    BY <1>1, <1>3
  <2> QED
    BY <2>1
<1> QED
  BY <1>4

(* A finite set of numbers has a greatest one.                             *)
LEMMA MaxExists ==
  ASSUME NEW S, S \subseteq Nat, IsFiniteSet(S), S # {}
  PROVE  Max(S) \in S /\ \A y \in S : y <= Max(S)
<1> DEFINE NoMax(T) == ~ \E x \in T : \A y \in T : y <= x
           Sizes == {n \in Nat : \E T \in SUBSET Nat :
                       IsFiniteSet(T) /\ T # {} /\ Cardinality(T) = n /\ NoMax(T)}
<1>1. Sizes = {}
  <2> SUFFICES ASSUME Sizes # {} PROVE FALSE
    OBVIOUS
  <2>1. PICK n \in Sizes : \A m \in Sizes : n <= m
    <3> HIDE DEF NoMax
    <3>1. Sizes \in SUBSET Nat
      OBVIOUS
    <3> HIDE DEF Sizes
    <3> QED
      BY <3>1, Least
  <2>2. PICK T \in SUBSET Nat :
          IsFiniteSet(T) /\ T # {} /\ Cardinality(T) = n /\ NoMax(T)
    <3> HIDE DEF NoMax
    <3> QED
      BY <2>1
  <2>3. PICK t \in T : TRUE
    BY <2>2
  <2>4. IsFiniteSet(T \ {t}) /\ Cardinality(T \ {t}) = n - 1 /\ n \in Nat
    BY <2>1, <2>2, <2>3, FS_RemoveElement
  <2>5. n - 1 \in Nat
    BY <2>4, FS_CardinalityType
  <2>6. T \ {t} = {} \/ ~ NoMax(T \ {t})
    <3> HIDE DEF NoMax
    <3>1. n - 1 \notin Sizes
      BY <2>1, <2>4, <2>5
    <3>2. T \ {t} \in SUBSET Nat
      OBVIOUS
    <3> QED
      BY <3>1, <3>2, <2>4, <2>5
  <2> QED
    BY <2>2, <2>3, <2>6
<1>2. ~ NoMax(S)
  <2>1. Cardinality(S) \in Nat
    BY FS_CardinalityType
  <2> HIDE DEF NoMax
  <2> QED
    BY <1>1, <2>1
<1> QED
  BY <1>2 DEF Max

-------------------------------------------------------------------------------
(* Sequences, whatever their elements.                                     *)

IsSeq(s) == s \in Seq(ToSet(s))

LEMMA SeqRange ==
  ASSUME NEW E, NEW s \in Seq(E)
  PROVE  IsSeq(s)
<1>1. Len(s) \in Nat /\ DOMAIN s = 1..Len(s) /\ s = [i \in 1..Len(s) |-> s[i]]
  OBVIOUS
<1>2. \A i \in 1..Len(s) : s[i] \in ToSet(s)
  BY <1>1 DEF ToSet
<1> QED
  BY <1>1, <1>2 DEF IsSeq

LEMMA SeqAppend ==
  ASSUME NEW s, IsSeq(s), NEW e
  PROVE  /\ IsSeq(Append(s, e)) /\ Len(s) \in Nat /\ DOMAIN s = 1..Len(s)
         /\ DOMAIN Append(s, e) = 1..Len(s) + 1
         /\ \A i \in DOMAIN s : Append(s, e)[i] = s[i]
         /\ Append(s, e)[Len(s) + 1] = e
<1> DEFINE E == ToSet(s) \cup {e}
<1>1. s \in Seq(E) /\ e \in E
  BY DEF IsSeq, ToSet
<1> HIDE DEF E
<1>2. /\ Append(s, e) \in Seq(E) /\ Len(s) \in Nat /\ DOMAIN s = 1..Len(s)
      /\ DOMAIN Append(s, e) = 1..Len(s) + 1
      /\ \A i \in DOMAIN s : Append(s, e)[i] = s[i]
      /\ Append(s, e)[Len(s) + 1] = e
  BY <1>1
<1>3. IsSeq(Append(s, e))
  BY <1>2, SeqRange
<1> QED
  BY <1>2, <1>3

LEMMA SeqTail ==
  ASSUME NEW s, IsSeq(s), s # <<>>
  PROVE  /\ IsSeq(Tail(s)) /\ Len(s) \in Nat \ {0} /\ DOMAIN s = 1..Len(s)
         /\ Head(s) = s[1] /\ DOMAIN Tail(s) = 1..Len(s) - 1
         /\ \A i \in DOMAIN Tail(s) : Tail(s)[i] = s[i + 1] /\ i + 1 \in DOMAIN s
<1> DEFINE E == ToSet(s)
<1>1. s \in Seq(E)
  BY DEF IsSeq
<1> HIDE DEF E
<1>2. /\ Tail(s) \in Seq(E) /\ Len(s) \in Nat \ {0} /\ DOMAIN s = 1..Len(s)
      /\ Head(s) = s[1] /\ DOMAIN Tail(s) = 1..Len(s) - 1
      /\ \A i \in DOMAIN Tail(s) : Tail(s)[i] = s[i + 1] /\ i + 1 \in DOMAIN s
  BY <1>1
<1>3. IsSeq(Tail(s))
  BY <1>2, SeqRange
<1> QED
  BY <1>2, <1>3

(* RemoveAt leaves the elements before the place and moves up those after. *)
LEMMA SeqRemove ==
  ASSUME NEW E, NEW s \in Seq(E), NEW p \in DOMAIN s
  PROVE  LET t == RemoveAt(s, p)
         IN  /\ t \in Seq(E) /\ Len(t) = Len(s) - 1 /\ Len(s) \in Nat \ {0}
             /\ DOMAIN t = 1..Len(s) - 1 /\ DOMAIN s = 1..Len(s)
             /\ \A q \in DOMAIN t : t[q] = IF q < p THEN s[q] ELSE s[q + 1]
<1> DEFINE n == Len(s)
           a == SubSeq(s, 1, p - 1)
           b == SubSeq(s, p + 1, n)
           t == RemoveAt(s, p)
<1>1. n \in Nat \ {0} /\ p \in 1..n /\ DOMAIN s = 1..n
  OBVIOUS
<1>2. a \in Seq(E) /\ Len(a) = p - 1 /\ \A q \in 1..p - 1 : a[q] = s[q]
  BY <1>1
<1>3. b \in Seq(E) /\ Len(b) = n - p /\ \A q \in 1..n - p : b[q] = s[p + q]
  BY <1>1
<1>4. t = a \o b
  BY DEF RemoveAt
<1> HIDE DEF a, b, t, n
<1>5. /\ t \in Seq(E) /\ Len(t) = Len(a) + Len(b)
      /\ \A q \in 1..Len(a) + Len(b) : t[q] = IF q <= Len(a) THEN a[q] ELSE b[q - Len(a)]
  BY <1>2, <1>3, <1>4, SMTT(30)
<1>6. Len(t) = n - 1 /\ DOMAIN t = 1..n - 1
  BY <1>1, <1>2, <1>3, <1>5
<1>7. ASSUME NEW q \in 1..n - 1 PROVE t[q] = IF q < p THEN s[q] ELSE s[q + 1]
  <2>1. CASE q < p
    <3>1. q \in 1..p - 1 /\ q <= Len(a) /\ q \in 1..Len(a) + Len(b)
      BY <1>1, <1>2, <1>3, <2>1
    <3> QED
      BY <1>2, <1>5, <2>1, <3>1
  <2>2. CASE ~ q < p
    <3>1. /\ q - Len(a) \in 1..n - p /\ ~ q <= Len(a) /\ q \in 1..Len(a) + Len(b)
          /\ p + (q - Len(a)) = q + 1
      BY <1>1, <1>2, <1>3, <2>2
    <3>2. t[q] = b[q - Len(a)]
      BY <1>5, <3>1
    <3>3. b[q - Len(a)] = s[p + (q - Len(a))]
      BY <1>3, <3>1
    <3> QED
      BY <2>2, <3>1, <3>2, <3>3
  <2> QED
    BY <2>1, <2>2
<1> QED
  BY <1>1, <1>5, <1>6, <1>7 DEF n, t

(* Joining two sequences.                                                  *)
LEMMA SeqConcat ==
  ASSUME NEW E, NEW g \in Seq(E), NEW e \in Seq(E)
  PROVE  g \o e \in Seq(E) /\ ToSet(g \o e) = ToSet(g) \cup ToSet(e)
<1>1. /\ g \o e \in Seq(E) /\ Len(g \o e) = Len(g) + Len(e)
      /\ Len(g) \in Nat /\ Len(e) \in Nat /\ DOMAIN g = 1..Len(g) /\ DOMAIN e = 1..Len(e)
      /\ DOMAIN (g \o e) = 1..Len(g) + Len(e)
      /\ \A i \in 1..Len(g) : (g \o e)[i] = g[i]
      /\ \A i \in 1..Len(g) + Len(e) : (g \o e)[i] = IF i <= Len(g) THEN g[i] ELSE e[i - Len(g)]
  OBVIOUS
<1>2. \A i \in 1..Len(e) : /\ Len(g) + i \in 1..Len(g) + Len(e)
                           /\ ~ Len(g) + i <= Len(g) /\ Len(g) + i - Len(g) = i
  BY <1>1
<1>3. \A i \in 1..Len(g) : i \in 1..Len(g) + Len(e)
  BY <1>1
<1>4. \A i \in 1..Len(e) : (g \o e)[Len(g) + i] = e[i]
  BY <1>1, <1>2
<1>5. \A i \in 1..Len(g) + Len(e) : ~ i <= Len(g) => i - Len(g) \in 1..Len(e)
  BY <1>1
<1>6. ToSet(g \o e) \subseteq ToSet(g) \cup ToSet(e)
  BY <1>1, <1>5 DEF ToSet
<1>7. ToSet(g) \subseteq ToSet(g \o e)
  BY <1>1, <1>3 DEF ToSet
<1>8. ASSUME NEW i \in 1..Len(e) PROVE e[i] \in ToSet(g \o e)
  BY <1>1, <1>2, <1>4 DEF ToSet
<1>9. ToSet(e) \subseteq ToSet(g \o e)
  BY <1>1, <1>8 DEF ToSet
<1> QED
  BY <1>1, <1>6, <1>7, <1>9

LEMMA SeqJoin ==
  ASSUME NEW g, IsSeq(g), NEW e, IsSeq(e)
  PROVE  IsSeq(g \o e) /\ ToSet(g \o e) = ToSet(g) \cup ToSet(e)
<1> DEFINE E == ToSet(g) \cup ToSet(e)
<1>1. g \in Seq(E) /\ e \in Seq(E)
  BY DEF IsSeq
<1> HIDE DEF E
<1> QED
  BY <1>1, SeqConcat, SeqRange

LEMMA JoinInjective ==
  ASSUME NEW g, IsSeq(g), IsInjective(g), NEW e, IsSeq(e), IsInjective(e),
         ToSet(g) \cap ToSet(e) = {}
  PROVE  IsInjective(g \o e)
<1> DEFINE E == ToSet(g) \cup ToSet(e)
           n == Len(g)
           m == Len(e)
           s == g \o e
<1>1. g \in Seq(E) /\ e \in Seq(E)
  BY DEF IsSeq
<1> HIDE DEF E
<1>2. /\ n \in Nat /\ m \in Nat /\ DOMAIN g = 1..n /\ DOMAIN e = 1..m /\ DOMAIN s = 1..n + m
      /\ \A i \in 1..n + m : s[i] = IF i <= n THEN g[i] ELSE e[i - n]
  BY <1>1
<1> HIDE DEF n, m, s
<1>3. \A i \in 1..n + m : \/ i \in 1..n /\ s[i] = g[i]
                          \/ i - n \in 1..m /\ s[i] = e[i - n]
  BY <1>2
<1>4. \A i \in 1..n, j \in 1..m : g[i] # e[j]
  BY <1>2 DEF ToSet
<1>5. ASSUME NEW i \in 1..n + m, NEW j \in 1..n + m, s[i] = s[j] PROVE i = j
  <2>1. CASE i \in 1..n /\ s[i] = g[i] /\ j \in 1..n /\ s[j] = g[j]
    BY <1>2, <1>5, <2>1 DEF IsInjective
  <2>2. CASE i - n \in 1..m /\ s[i] = e[i - n] /\ j - n \in 1..m /\ s[j] = e[j - n]
    <3>1. i - n = j - n
      BY <1>2, <1>5, <2>2 DEF IsInjective
    <3> QED
      BY <1>2, <3>1
  <2> QED
    BY <1>3, <1>4, <1>5, <2>1, <2>2
<1> QED
  BY <1>2, <1>5 DEF IsInjective, s

-------------------------------------------------------------------------------
(* Functions defined by recursion: the prover takes them as a CHOOSE, and  *)
(* has to be shown that there is one.                                      *)

Steps(n, S) == [1..n -> [S -> S]]

(* A function defined by recursion over 0..n exists and has its values in S.*)
LEMMA Recursion ==
  ASSUME NEW S, NEW n \in Nat, NEW a \in S, NEW g \in Steps(n, S)
  PROVE  \E f \in [0..n -> S] : f[0] = a /\ \A i \in 1..n : f[i] = g[i][f[i - 1]]
<1> USE DEF Steps
<1> DEFINE Solves(f, m) == f[0] = a /\ \A i \in 1..m : f[i] = g[i][f[i - 1]]
           Bad == {m \in 0..n : ~ \E f \in [0..m -> S] : Solves(f, m)}
<1>1. SUFFICES Bad = {}
  <2>1. n \in 0..n
    OBVIOUS
  <2> QED
    BY <1>1, <2>1
<1>2. ASSUME NEW m \in Bad, \A k \in Bad : m <= k PROVE FALSE
  <2>1. CASE m = 0
    <3> DEFINE f == [i \in 0..0 |-> a]
    <3>1. f \in [0..0 -> S] /\ Solves(f, 0)
      OBVIOUS
    <3> QED
      BY <1>2, <2>1, <3>1
  <2>2. CASE m # 0
    <3>0. m \in 0..n
      BY <1>2
    <3>1. m \in Nat /\ m - 1 \in 0..n /\ m \in 1..n /\ m - 1 \notin Bad
      <4>1. ~ m <= m - 1
        BY <3>0
      <4>2. m - 1 \notin Bad
        <5> HIDE DEF Bad
        <5> QED
          BY <1>2, <4>1
      <4> QED
        BY <2>2, <3>0, <4>2
    <3>2. PICK f \in [0..m - 1 -> S] : Solves(f, m - 1)
      BY <3>1
    <3> DEFINE h == [i \in 0..m |-> IF i = m THEN g[m][f[m - 1]] ELSE f[i]]
    <3>3. \A i \in 0..m : i # m => i \in 0..m - 1
      BY <3>1
    <3>4. m - 1 \in 0..m - 1 /\ g[m][f[m - 1]] \in S
      BY <3>1
    <3>5. h \in [0..m -> S]
      BY <3>3, <3>4
    <3>6. h[0] = a /\ \A i \in 1..m : h[i] = g[i][h[i - 1]]
      <4>0. h[0] = a
        BY <3>1, <3>2, <2>2
      <4> SUFFICES ASSUME NEW i \in 1..m
                   PROVE  h[i] = g[i][h[i - 1]]
        BY <4>0
      <4>1. CASE i = m
        <5>1. h[m] = g[m][f[m - 1]] /\ h[m - 1] = f[m - 1]
          BY <3>1
        <5> QED
          BY <2>2, <4>1, <5>1
      <4>2. CASE i # m
        <5>1. i \in 1..m - 1 /\ h[i] = f[i]
          BY <3>1, <4>2
        <5>2. f[i] = g[i][f[i - 1]]
          BY <3>2, <5>1
        <5>3. i - 1 \in 0..m /\ i - 1 # m /\ h[i - 1] = f[i - 1]
          BY <3>1
        <5> QED
          BY <5>1, <5>2, <5>3
      <4> QED
        BY <4>1, <4>2
    <3>7. Solves(h, m)
      BY <3>6
    <3> QED
      BY <1>2, <3>5, <3>7
  <2> QED
    BY <2>1, <2>2
<1>3. Bad \in SUBSET Nat
  OBVIOUS
<1> HIDE DEF Bad
<1> QED
  BY <1>2, <1>3, Least

(* The sequences that FlattenSeq builds one from the other.                *)
Joins(f, ss) ==
  f = [i \in 1..Len(ss) |-> IF i = 1 THEN ss[i] ELSE f[i - 1] \o ss[i]]

LEMMA JoinExists ==
  ASSUME NEW E, NEW ss \in Seq(Seq(E))
  PROVE  \E f : Joins(f, ss)
<1> DEFINE T == Seq(E)
           n == Len(ss)
           a == <<>>
           g == [i \in 1..n |-> [x \in T |-> x \o ss[i]]]
<1>1. g \in Steps(n, T) /\ n \in Nat /\ a \in T
  <2>1. \A i \in 1..n : ss[i] \in Seq(E)
    OBVIOUS
  <2>2. \A i \in 1..n, x \in T : x \o ss[i] \in T
    BY <2>1
  <2> QED
    BY <2>2 DEF Steps
<1>2. PICK f \in [0..n -> T] : f[0] = a /\ \A i \in 1..n : f[i] = g[i][f[i - 1]]
  <2> HIDE DEF g, T, n, a
  <2> QED
    BY <1>1, Recursion
<1> DEFINE h == [i \in 1..n |-> f[i]]
<1>3. \A i \in 1..n : f[i] = f[i - 1] \o ss[i] /\ f[i] \in T
  <2> SUFFICES ASSUME NEW i \in 1..n
               PROVE  f[i] = f[i - 1] \o ss[i] /\ f[i] \in T
    OBVIOUS
  <2>1. f[i - 1] \in T /\ f[i] \in T
    <3>1. i - 1 \in 0..n /\ i \in 0..n
      BY <1>1
    <3> HIDE DEF T, n
    <3> QED
      BY <3>1
  <2> QED
    BY <1>2, <2>1
<1>4. \A i \in 1..n : h[i] = IF i = 1 THEN ss[i] ELSE h[i - 1] \o ss[i]
  <2> SUFFICES ASSUME NEW i \in 1..n
               PROVE  h[i] = IF i = 1 THEN ss[i] ELSE h[i - 1] \o ss[i]
    OBVIOUS
  <2>1. CASE i = 1
    <3>1. f[1] = <<>> \o ss[1] /\ ss[1] \in Seq(E)
      <4>1. 1 \in 1..n /\ 1 - 1 = 0
        BY <2>1
      <4>2. f[1] = f[1 - 1] \o ss[1]
        BY <1>3, <4>1
      <4>3. f[1 - 1] = <<>>
        BY <1>2, <4>1
      <4>4. ss[1] \in Seq(E)
        BY <4>1
      <4> QED
        BY <4>2, <4>3, <4>4
    <3> QED
      BY <2>1, <3>1
  <2>2. CASE i # 1
    <3>1. i - 1 \in 1..n
      BY <1>1, <2>2
    <3> QED
      BY <1>3, <2>2, <3>1
  <2> QED
    BY <2>1, <2>2
<1>5. h = [i \in 1..n |-> IF i = 1 THEN ss[i] ELSE h[i - 1] \o ss[i]]
  BY <1>4
<1> QED
  BY <1>5 DEF Joins

(* FlattenSeq holds what its parts hold.                                   *)
LEMMA FlattenFacts ==
  ASSUME NEW E, NEW ss \in Seq(Seq(E))
  PROVE  /\ FlattenSeq(ss) \in Seq(E)
         /\ ToSet(FlattenSeq(ss)) = UNION {ToSet(ss[k]) : k \in DOMAIN ss}
<1> DEFINE n == Len(ss)
           f == CHOOSE f : f = [i \in 1..Len(ss) |-> IF i = 1 THEN ss[i] ELSE f[i - 1] \o ss[i]]
           OK(i) == /\ f[i] \in Seq(E)
                    /\ ToSet(f[i]) = UNION {ToSet(ss[k]) : k \in 1..i}
           Bad == {i \in 1..n : ~ OK(i)}
<1>1. f = [i \in 1..Len(ss) |-> IF i = 1 THEN ss[i] ELSE f[i - 1] \o ss[i]]
  <2>1. f = CHOOSE h : Joins(h, ss)
    BY DEF Joins
  <2>2. Joins(f, ss)
    <3> HIDE DEF f
    <3> QED
      BY <2>1, JoinExists
  <2> QED
    BY <2>2 DEF Joins
<1>2. FlattenSeq(ss) = IF n = 0 THEN ss ELSE f[n]
  BY DEF FlattenSeq
<1> HIDE DEF f
<1>3. n \in Nat /\ DOMAIN ss = 1..n /\ \A i \in 1..n : ss[i] \in Seq(E)
  OBVIOUS
<1>4. ASSUME NEW m \in Bad, \A k \in Bad : m <= k PROVE FALSE
  <2>0. m \in 1..n /\ m \in Nat /\ ~ OK(m) /\ ss[m] \in Seq(E)
    BY <1>3, <1>4
  <2>1. CASE m = 1
    <3>1. f[1] = ss[1] /\ 1..1 = {1}
      BY <1>1, <2>0, <2>1
    <3> QED
      BY <2>0, <2>1, <3>1
  <2>2. CASE m # 1
    <3>1. m - 1 \in 1..n /\ ~ m <= m - 1
      BY <1>3, <2>0, <2>2
    <3>2. OK(m - 1)
      <4>1. m - 1 \notin Bad
        <5> HIDE DEF Bad
        <5> QED
          BY <1>4, <3>1
      <4> QED
        BY <3>1, <4>1
    <3>3. f[m] = f[m - 1] \o ss[m]
      BY <1>1, <2>0, <2>2
    <3>4. PICK g \in Seq(E) : g = f[m - 1]
      BY <3>2
    <3>5. PICK e \in Seq(E) : e = ss[m]
      BY <2>0
    <3>6. /\ g \o e \in Seq(E) /\ Len(g \o e) = Len(g) + Len(e)
          /\ Len(g) \in Nat /\ Len(e) \in Nat /\ DOMAIN g = 1..Len(g) /\ DOMAIN e = 1..Len(e)
          /\ DOMAIN (g \o e) = 1..Len(g) + Len(e)
          /\ \A i \in 1..Len(g) : (g \o e)[i] = g[i]
          /\ \A i \in 1..Len(g) + Len(e) : (g \o e)[i] = IF i <= Len(g) THEN g[i] ELSE e[i - Len(g)]
      OBVIOUS
    <3>7. ToSet(g \o e) = ToSet(g) \cup ToSet(e)
      BY SeqConcat
    <3>8. ToSet(f[m]) = (UNION {ToSet(ss[k]) : k \in 1..m - 1}) \cup ToSet(ss[m])
      BY <3>2, <3>3, <3>4, <3>5, <3>7
    <3>9. 1..m = (1..m - 1) \cup {m}
      BY <2>0
    <3>10. ToSet(f[m]) = UNION {ToSet(ss[k]) : k \in 1..m}
      BY <3>8, <3>9
    <3> QED
      BY <2>0, <3>3, <3>4, <3>5, <3>6, <3>10
  <2> QED
    BY <2>1, <2>2
<1>5. Bad \in SUBSET Nat
  BY <1>3
<1>6. Bad = {}
  <2> HIDE DEF Bad
  <2> QED
    BY <1>4, <1>5, Least
<1>7. n # 0 => OK(n)
  <2>1. n # 0 => n \in 1..n
    BY <1>3
  <2> HIDE DEF OK
  <2> QED
    BY <1>6, <2>1
<1>8. n = 0 => ss = <<>> /\ DOMAIN ss = {} /\ ss \in Seq(E)
  OBVIOUS
<1>9. n = 0 => ToSet(ss) = {}
  BY <1>8 DEF ToSet
<1> QED
  BY <1>2, <1>3, <1>7, <1>8, <1>9

-------------------------------------------------------------------------------
(* What a comprehension selects.                                           *)

(* The sequences that Selected builds one from the other.                  *)
Picks(f, s, S) ==
  f = [i \in 0..Len(s) |-> IF i = 0 THEN <<>>
                           ELSE IF s[i] \in S THEN Append(f[i - 1], s[i]) ELSE f[i - 1]]

LEMMA PicksExists ==
  ASSUME NEW E, NEW s \in Seq(E), NEW S
  PROVE  \E f : Picks(f, s, S)
<1> DEFINE T == Seq(E)
           n == Len(s)
           a == <<>>
           g == [i \in 1..n |-> [x \in T |-> IF s[i] \in S THEN Append(x, s[i]) ELSE x]]
<1>1. g \in Steps(n, T) /\ n \in Nat /\ a \in T
  BY DEF Steps
<1>2. PICK f \in [0..n -> T] : f[0] = a /\ \A i \in 1..n : f[i] = g[i][f[i - 1]]
  <2> HIDE DEF g, T, n, a
  <2> QED
    BY <1>1, Recursion
<1>3. \A i \in 1..n : f[i] = IF s[i] \in S THEN Append(f[i - 1], s[i]) ELSE f[i - 1]
  <2> SUFFICES ASSUME NEW i \in 1..n
               PROVE  f[i] = IF s[i] \in S THEN Append(f[i - 1], s[i]) ELSE f[i - 1]
    OBVIOUS
  <2>1. f[i - 1] \in T
    <3>1. i - 1 \in 0..n
      BY <1>1
    <3> HIDE DEF T, n
    <3> QED
      BY <3>1
  <2> QED
    BY <1>2, <2>1
<1>4. \A i \in 0..n : i # 0 => i \in 1..n
  BY <1>1
<1>5. f = [i \in 0..n |-> IF i = 0 THEN <<>>
                        ELSE IF s[i] \in S THEN Append(f[i - 1], s[i]) ELSE f[i - 1]]
  <2> HIDE DEF g, T, n
  <2> QED
    BY <1>2, <1>3, <1>4
<1> QED
  BY <1>5 DEF Picks

(* The last holds the elements of s that are in S, none twice that s holds *)
(* once.                                                                   *)
LEMMA PickedFacts ==
  ASSUME NEW E, NEW s \in Seq(E), NEW S, NEW f, Picks(f, s, S)
  PROVE  /\ f[Len(s)] \in Seq(E)
         /\ ToSet(f[Len(s)]) = S \cap ToSet(s)
         /\ IsInjective(s) => IsInjective(f[Len(s)])
<1> DEFINE n == Len(s)
           OK(i) == /\ f[i] \in Seq(E)
                    /\ ToSet(f[i]) = S \cap {s[j] : j \in 1..i}
                    /\ IsInjective(s) => IsInjective(f[i])
           Bad == {i \in 0..n : ~ OK(i)}
<1>1. f = [i \in 0..Len(s) |-> IF i = 0 THEN <<>>
                               ELSE IF s[i] \in S THEN Append(f[i - 1], s[i]) ELSE f[i - 1]]
  BY DEF Picks
<1>3. n \in Nat /\ DOMAIN s = 1..n /\ \A i \in 1..n : s[i] \in E
  OBVIOUS
<1>4. ASSUME NEW m \in Bad, \A k \in Bad : m <= k PROVE FALSE
  <2>0. m \in 0..n /\ m \in Nat /\ ~ OK(m)
    BY <1>3, <1>4
  <2>1. CASE m = 0
    <3>1. f[0] = <<>>
      BY <1>1, <1>3
    <3>2. OK(0)
      BY <3>1 DEF ToSet, IsInjective
    <3> QED
      BY <2>0, <2>1, <3>2
  <2>2. CASE m # 0
    <3>1. m \in 1..n /\ m - 1 \in 0..n /\ ~ m <= m - 1
      BY <2>0, <2>2
    <3>2. OK(m - 1)
      <4>1. m - 1 \notin Bad
        <5> HIDE DEF Bad
        <5> QED
          BY <1>4, <3>1
      <4> QED
        BY <3>1, <4>1
    <3>3. f[m] = IF s[m] \in S THEN Append(f[m - 1], s[m]) ELSE f[m - 1]
      BY <1>1, <2>0, <2>2
    <3>4. PICK g \in Seq(E) : g = f[m - 1]
      BY <3>2
    <3>5. CASE s[m] \in S
      <4>1. f[m] = Append(g, s[m]) /\ s[m] \in E
        BY <1>3, <3>1, <3>3, <3>4, <3>5
      <4>2. /\ DOMAIN Append(g, s[m]) = 1..Len(g) + 1 /\ Len(g) \in Nat /\ DOMAIN g = 1..Len(g)
            /\ \A i \in 1..Len(g) : Append(g, s[m])[i] = g[i]
            /\ Append(g, s[m])[Len(g) + 1] = s[m]
            /\ Append(g, s[m]) \in Seq(E)
        BY <4>1
      <4>3. ToSet(f[m]) = ToSet(g) \cup {s[m]}
        BY <4>1, <4>2 DEF ToSet
      <4>4. {s[j] : j \in 1..m} = {s[j] : j \in 1..m - 1} \cup {s[m]}
        BY <3>1
      <4>5. ToSet(f[m]) = S \cap {s[j] : j \in 1..m}
        BY <3>2, <3>4, <3>5, <4>3, <4>4
      <4>6. ASSUME IsInjective(s) PROVE IsInjective(f[m])
        <5>1. IsInjective(g)
          BY <3>2, <3>4, <4>6
        <5>2. \A i \in DOMAIN g : g[i] # s[m]
          <6> SUFFICES ASSUME NEW i \in DOMAIN g, g[i] = s[m] PROVE FALSE
            OBVIOUS
          <6>1. g[i] \in {s[j] : j \in 1..m - 1}
            BY <3>2, <3>4 DEF ToSet
          <6>2. PICK j \in 1..m - 1 : s[j] = s[m]
            BY <6>1
          <6>3. j \in DOMAIN s /\ m \in DOMAIN s /\ j # m
            BY <1>3, <3>1
          <6> QED
            BY <4>6, <6>2, <6>3 DEF IsInjective
        <5> QED
          BY <4>1, <4>2, <5>1, <5>2 DEF IsInjective
      <4> QED
        BY <2>0, <4>1, <4>2, <4>5, <4>6
    <3>6. CASE s[m] \notin S
      <4>1. {s[j] : j \in 1..m} = {s[j] : j \in 1..m - 1} \cup {s[m]}
        BY <3>1
      <4>2. S \cap {s[j] : j \in 1..m} = S \cap {s[j] : j \in 1..m - 1}
        BY <3>6, <4>1
      <4> QED
        BY <2>0, <3>2, <3>3, <3>6, <4>2
    <3> QED
      BY <3>5, <3>6
  <2> QED
    BY <2>1, <2>2
<1>5. Bad \in SUBSET Nat
  BY <1>3
<1>6. Bad = {}
  <2> HIDE DEF Bad
  <2> QED
    BY <1>4, <1>5, Least
<1>7. OK(n)
  <2>1. n \in 0..n
    BY <1>3
  <2> HIDE DEF OK
  <2> QED
    BY <1>6, <2>1
<1>8. ToSet(s) = {s[j] : j \in 1..n}
  BY <1>3 DEF ToSet
<1> QED
  BY <1>3, <1>7, <1>8

-------------------------------------------------------------------------------
(* A function defined by recursion along the parents of a tree exists.     *)
Descends(f, n, Root, b, up, g) ==
  \A i \in 0..n : f[i] = IF i \in Root THEN b[i] ELSE g[i][f[up[i]]]

LEMMA TreeRecursion ==
  ASSUME NEW S, NEW n \in Nat, NEW Root \in SUBSET (0..n), NEW b \in [0..n -> S],
         NEW up \in [0..n -> 0..n], NEW g \in [0..n -> [S -> S]],
         \A i \in 0..n : i \in Root \/ up[i] < i
  PROVE  \E f \in [0..n -> S] : Descends(f, n, Root, b, up, g)
<1> USE DEF Descends
<1> DEFINE Solves(f, m) == \A i \in 0..m : f[i] = IF i \in Root THEN b[i] ELSE g[i][f[up[i]]]
           Bad == {m \in 0..n : ~ \E f \in [0..m -> S] : Solves(f, m)}
<1>1. SUFFICES Bad = {}
  <2>1. n \in 0..n
    OBVIOUS
  <2> QED
    BY <1>1, <2>1
<1>2. ASSUME NEW m \in Bad, \A k \in Bad : m <= k PROVE FALSE
  <2>0. m \in 0..n
    BY <1>2
  <2>1. \E f : /\ \A i \in 0..m - 1 : f[i] \in S
               /\ \A i \in 0..m - 1 : f[i] = IF i \in Root THEN b[i] ELSE g[i][f[up[i]]]
    <3>1. CASE m = 0
      BY <3>1
    <3>2. CASE m # 0
      <4>1. m - 1 \in 0..n /\ ~ m <= m - 1
        BY <2>0, <3>2
      <4>2. m - 1 \notin Bad
        <5> HIDE DEF Bad
        <5> QED
          BY <1>2, <4>1
      <4> QED
        BY <4>1, <4>2
    <3> QED
      BY <3>1, <3>2
  <2>2. PICK f : /\ \A i \in 0..m - 1 : f[i] \in S
                 /\ \A i \in 0..m - 1 : f[i] = IF i \in Root THEN b[i] ELSE g[i][f[up[i]]]
    BY <2>1
  <2> DEFINE v == IF m \in Root THEN b[m] ELSE g[m][f[up[m]]]
             h == [i \in 0..m |-> IF i = m THEN v ELSE f[i]]
  <2>3. \A i \in 0..m : i # m => i \in 0..m - 1
    BY <2>0
  <2>4. \A i \in 0..m : i \in 0..n /\ (i \notin Root => up[i] \in 0..m /\ up[i] # m /\ up[i] < i)
    BY <2>0
  <2>5. v \in S
    <3>1. m \notin Root => f[up[m]] \in S
      BY <2>0, <2>2, <2>3, <2>4
    <3> QED
      BY <2>0, <3>1
  <2> HIDE DEF v
  <2>6. h \in [0..m -> S]
    BY <2>2, <2>3, <2>5
  <2>7. \A i \in 0..m : i \notin Root => h[up[i]] = f[up[i]]
    BY <2>4
  <2>8. ASSUME NEW i \in 0..m PROVE h[i] = IF i \in Root THEN b[i] ELSE g[i][h[up[i]]]
    <3>1. CASE i = m
      BY <2>7, <3>1 DEF v
    <3>2. CASE i # m
      BY <2>2, <2>3, <2>7, <3>2
    <3> QED
      BY <3>1, <3>2
  <2> QED
    BY <1>2, <2>6, <2>8
<1>3. Bad \in SUBSET Nat
  OBVIOUS
<1> HIDE DEF Bad
<1> QED
  BY <1>2, <1>3, Least
===============================================================================
