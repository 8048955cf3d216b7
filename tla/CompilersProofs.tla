--------------------------- MODULE CompilersProofs ---------------------------
(***************************************************************************)
(* The compilers agree about any program: for any declarations and effects,*)
(* any beginning and any statements after it, and any number of            *)
(* diagnostics the native compiler keeps.                                  *)
(***************************************************************************)
EXTENDS Compilers, FiniteSetTheorems, NaturalsInduction, TLAPS

(* Lists of anything.                                                      *)
LEMMA ListFacts ==
    ASSUME NEW s, IsList(s)
    PROVE  Len(s) \in Nat /\ DOMAIN s = 1 .. Len(s)
BY DEF IsList

LEMMA AppendFacts ==
    ASSUME NEW s, IsList(s), NEW x
    PROVE  /\ IsList(Append(s, x))
           /\ Len(Append(s, x)) = Len(s) + 1
           /\ DOMAIN Append(s, x) = 1 .. Len(s) + 1
           /\ Append(s, x)[Len(s) + 1] = x
           /\ \A i \in 1 .. Len(s) : Append(s, x)[i] = s[i]
<1>1. PICK S : S = ToSet(s) \cup {x}
  OBVIOUS
<1>2. s \in Seq(S) /\ x \in S
  <2>1. Len(s) \in Nat /\ s \in [1 .. Len(s) -> ToSet(s)]
    BY DEF IsList
  <2> QED
    BY <1>1, <2>1
<1>3. /\ Append(s, x) \in Seq(S)
      /\ Len(Append(s, x)) = Len(s) + 1
      /\ DOMAIN Append(s, x) = 1 .. Len(s) + 1
      /\ Append(s, x)[Len(s) + 1] = x
      /\ \A i \in 1 .. Len(s) : Append(s, x)[i] = s[i]
  BY <1>2
<1>4. IsList(Append(s, x))
  BY <1>3 DEF IsList, ToSet
<1> QED
  BY <1>3, <1>4

LEMMA EmptyList == IsList(<<>>) /\ Len(<<>>) = 0
BY DEF IsList

LEMMA SameList ==
    ASSUME NEW s, IsList(s), NEW t, IsList(t), Len(s) = Len(t),
           \A i \in 1 .. Len(s) : s[i] = t[i]
    PROVE  s = t
<1>1. Len(s) \in Nat /\ DOMAIN s = 1 .. Len(s) /\ DOMAIN t = 1 .. Len(s)
  BY ListFacts
<1>2. s = [i \in DOMAIN s |-> s[i]] /\ t = [i \in DOMAIN t |-> t[i]]
  BY DEF IsList
<1> QED
  BY <1>1, <1>2

LEMMA ListOf ==
    ASSUME NEW n \in Nat, NEW f, f = [i \in 1 .. n |-> f[i]]
    PROVE  IsList(f) /\ Len(f) = n
<1>1. DOMAIN f = 1 .. n /\ \A i \in 1 .. n : f[i] \in ToSet(f)
  BY DEF ToSet
<1>2. f \in [1 .. n -> ToSet(f)]
  BY <1>1
<1>3. f \in Seq(ToSet(f)) /\ Len(f) = n
  BY <1>1, <1>2
<1> QED
  BY <1>3 DEF IsList

LEMMA OneItem ==
    ASSUME NEW x
    PROVE  /\ IsList(<<x>>) /\ Len(<<x>>) = 1 /\ <<x>>[1] = x /\ ToSet(<<x>>) = {x}
           /\ \A s : IsList(s) => Append(s, x) = s \o <<x>>
<1>1. IsList(<<x>>) /\ Len(<<x>>) = 1 /\ <<x>>[1] = x /\ ToSet(<<x>>) = {x}
  BY DEF IsList, ToSet
<1>2. ASSUME NEW s, IsList(s) PROVE Append(s, x) = s \o <<x>>
  <2>1. PICK S : S = ToSet(s) \cup {x}
    OBVIOUS
  <2>2. s \in Seq(S) /\ x \in S
    <3>1. Len(s) \in Nat /\ s \in [1 .. Len(s) -> ToSet(s)]
      BY <1>2 DEF IsList
    <3> QED
      BY <2>1, <3>1
  <2> QED
    BY <2>2
<1> QED
  BY <1>1, <1>2

-----------------------------------------------------------------------------
(* Induction up to a number: a set that contains zero and is closed under  *)
(* successors up to n contains all numbers up to n.                        *)
LEMMA Climbs ==
    ASSUME NEW n \in Nat, NEW S, 0 \in S, \A i \in 0 .. n - 1 : i \in S => i + 1 \in S
    PROVE  \A i \in 0 .. n : i \in S
<1>1. SUFFICES ASSUME NEW k \in 0 .. n, k \notin S PROVE FALSE
  OBVIOUS
<1> DEFINE T == {i \in 0 .. n : i \notin S}
<1>2. T \subseteq Nat /\ T # {}
  BY <1>1
<1>3. PICK R : IsWellFoundedOn(R, Nat) /\ R = {ss \in Nat \X Nat : ss[1] < ss[2]}
  BY NatLessThanWellFounded DEF OpToRel
<1> HIDE DEF T
<1>4. PICK i \in T : \A j \in T : <<j, i>> \notin R
  BY <1>2, <1>3, WFMin
<1>5. \A j \in T : ~(j < i)
  BY <1>2, <1>3, <1>4
<1>6. i \in 0 .. n /\ i \notin S
  BY <1>4 DEF T
<1>7. i # 0 /\ i - 1 \in 0 .. n - 1
  BY <1>6
<1>8. i - 1 \in 0 .. n /\ i - 1 < i
  BY <1>6, <1>7
<1>9. i - 1 \in S
  BY <1>5, <1>8 DEF T
<1>10. (i - 1) + 1 = i
  BY <1>6
<1> QED
  BY <1>6, <1>7, <1>9, <1>10

LEMMA ConcatFacts ==
    ASSUME NEW s, IsList(s), NEW t, IsList(t)
    PROVE  /\ IsList(s \o t) /\ ToSet(s \o t) = ToSet(s) \cup ToSet(t)
           /\ Len(s \o t) = Len(s) + Len(t)
           /\ \A i \in 1 .. Len(s) + Len(t) :
                 (s \o t)[i] = IF i <= Len(s) THEN s[i] ELSE t[i - Len(s)]
<1>1. /\ Len(s) \in Nat /\ DOMAIN s = 1 .. Len(s)
      /\ Len(t) \in Nat /\ DOMAIN t = 1 .. Len(t)
  BY ListFacts
<1>2. PICK S : S = ToSet(s) \cup ToSet(t)
  OBVIOUS
<1>3. s \in Seq(S) /\ t \in Seq(S)
  <2>1. s \in [1 .. Len(s) -> ToSet(s)] /\ t \in [1 .. Len(t) -> ToSet(t)]
    BY DEF IsList
  <2> QED
    BY <1>1, <1>2, <2>1
<1>4. /\ s \o t \in Seq(S) /\ Len(s \o t) = Len(s) + Len(t)
      /\ \A i \in 1 .. Len(s) + Len(t) :
            (s \o t)[i] = IF i <= Len(s) THEN s[i] ELSE t[i - Len(s)]
  BY <1>3
<1>5. DOMAIN (s \o t) = 1 .. Len(s) + Len(t)
  BY <1>4
<1>6. \A i \in 1 .. Len(s) : (s \o t)[i] = s[i] /\ i \in DOMAIN (s \o t)
  BY <1>1, <1>4, <1>5
<1>7. \A i \in 1 .. Len(t) : (s \o t)[Len(s) + i] = t[i] /\ Len(s) + i \in DOMAIN (s \o t)
  BY <1>1, <1>4, <1>5
<1>8. ToSet(s) \subseteq ToSet(s \o t)
  BY <1>1, <1>6 DEF ToSet
<1>9. ToSet(t) \subseteq ToSet(s \o t)
  BY <1>1, <1>7 DEF ToSet
<1>10. ToSet(s \o t) \subseteq S
  BY <1>4, <1>5 DEF ToSet
<1>11. IsList(s \o t)
  <2>1. PICK u : u = s \o t
    OBVIOUS
  <2>2. u \in Seq(S) /\ Len(u) \in Nat
    BY <1>1, <1>4, <2>1
  <2>3. IsList(u)
    BY <2>2 DEF IsList, ToSet
  <2> QED
    BY <2>1, <2>3
<1> QED
  BY <1>2, <1>4, <1>8, <1>9, <1>10, <1>11
LEMMA ConcatAgain ==
    ASSUME NEW a, IsList(a), NEW b, IsList(b), NEW c, IsList(c)
    PROVE  (a \o b) \o c = a \o (b \o c)
<1>1. PICK l, r, ab, bc : l = ab \o c /\ r = a \o bc /\ ab = a \o b /\ bc = b \o c
  OBVIOUS
<1>2. Len(a) \in Nat /\ Len(b) \in Nat /\ Len(c) \in Nat
  BY ListFacts
<1>3. /\ IsList(ab) /\ Len(ab) = Len(a) + Len(b)
      /\ \A i \in 1 .. Len(a) + Len(b) : ab[i] = IF i <= Len(a) THEN a[i] ELSE b[i - Len(a)]
  BY <1>1, ConcatFacts
<1>4. /\ IsList(bc) /\ Len(bc) = Len(b) + Len(c)
      /\ \A i \in 1 .. Len(b) + Len(c) : bc[i] = IF i <= Len(b) THEN b[i] ELSE c[i - Len(b)]
  BY <1>1, ConcatFacts
<1>5. /\ IsList(l) /\ Len(l) = Len(ab) + Len(c)
      /\ \A i \in 1 .. Len(ab) + Len(c) : l[i] = IF i <= Len(ab) THEN ab[i] ELSE c[i - Len(ab)]
  BY <1>1, <1>3, ConcatFacts
<1>6. /\ IsList(r) /\ Len(r) = Len(a) + Len(bc)
      /\ \A i \in 1 .. Len(a) + Len(bc) : r[i] = IF i <= Len(a) THEN a[i] ELSE bc[i - Len(a)]
  BY <1>1, <1>4, ConcatFacts
<1>7. Len(l) = Len(r)
  BY <1>2, <1>3, <1>4, <1>5, <1>6
<1>8. ASSUME NEW i \in 1 .. Len(l) PROVE l[i] = r[i]
  <2>1. CASE i <= Len(a)
    BY <1>2, <1>3, <1>4, <1>5, <1>6, <2>1
  <2>2. CASE i > Len(a) /\ i <= Len(a) + Len(b)
    <3>1. l[i] = b[i - Len(a)]
      BY <1>2, <1>3, <1>5, <2>2
    <3>2. r[i] = bc[i - Len(a)] /\ i - Len(a) \in 1 .. Len(b) + Len(c) /\ i - Len(a) <= Len(b)
      BY <1>2, <1>4, <1>6, <1>7, <2>2
    <3>3. bc[i - Len(a)] = b[i - Len(a)]
      BY <1>4, <3>2
    <3> QED
      BY <3>1, <3>2, <3>3
  <2>3. CASE i > Len(a) + Len(b)
    <3>1. l[i] = c[i - (Len(a) + Len(b))]
      BY <1>2, <1>3, <1>5, <2>3
    <3>2. r[i] = bc[i - Len(a)] /\ i - Len(a) \in 1 .. Len(b) + Len(c) /\ ~(i - Len(a) <= Len(b))
      BY <1>2, <1>3, <1>4, <1>5, <1>6, <2>3
    <3>3. bc[i - Len(a)] = c[(i - Len(a)) - Len(b)]
      BY <1>4, <3>2
    <3>4. (i - Len(a)) - Len(b) = i - (Len(a) + Len(b))
      BY <1>2
    <3> QED
      BY <3>1, <3>2, <3>3, <3>4
  <2>4. i \in Int
    OBVIOUS
  <2> QED
    BY <1>2, <2>1, <2>2, <2>3, <2>4
<1>9. l = r
  BY <1>5, <1>6, <1>7, <1>8, SameList
<1> QED
  BY <1>1, <1>9

LEMMA ConcatEmpty == \A s : IsList(s) => s \o <<>> = s /\ <<>> \o s = s
<1> SUFFICES ASSUME NEW s, IsList(s) PROVE s \o <<>> = s /\ <<>> \o s = s
  OBVIOUS
<1>1. PICK a, b, z : a = s \o z /\ b = z \o s /\ z = <<>>
  OBVIOUS
<1>2. IsList(z) /\ Len(z) = 0 /\ Len(s) \in Nat
  BY <1>1, EmptyList, ListFacts
<1>3. /\ IsList(a) /\ Len(a) = Len(s) /\ \A i \in 1 .. Len(s) : a[i] = s[i]
  BY <1>1, <1>2, ConcatFacts
<1>4. IsList(b) /\ Len(b) = Len(s) /\ \A i \in 1 .. Len(s) : b[i] = s[i]
  BY <1>1, <1>2, ConcatFacts
<1> QED
  BY <1>1, <1>3, <1>4, SameList

LEMMA FlagFacts ==
    ASSUME NEW code, NEW reported
    PROVE  /\ IsList(Flag(code, reported)) /\ ToSet(Flag(code, reported)) \subseteq {code}
           /\ Flag(code, reported) = <<>> => ~reported
<1>1. IsList(<<code>>) /\ ToSet(<<code>>) = {code} /\ <<code>> # <<>>
  BY OneItem, EmptyList
<1>2. ToSet(<<>>) = {}
  BY DEF ToSet
<1> QED
  BY <1>1, <1>2, EmptyList DEF Flag

(* Concatenating a list of lists, one after the other.                     *)
(* Concatenating a list of lists, one after the other.                     *)
Joins(lists, f, k) ==
    f = [i \in 1 .. k |-> IF i = 1 THEN lists[i] ELSE f[i - 1] \o lists[i]]
LEMMA JoinMore ==
    ASSUME NEW lists, NEW k \in Nat \ {0}, NEW f, Joins(lists, f, k), NEW x, x = f[k] \o lists[k + 1]
    PROVE  \E g : Joins(lists, g, k + 1) /\ g[k + 1] = x
<1>1. PICK g : g = [i \in 1 .. k + 1 |-> IF i = k + 1 THEN x ELSE f[i]]
  OBVIOUS
<1>2. \A i \in 1 .. k : g[i] = f[i]
  BY <1>1
<1>3. g[k + 1] = x /\ g[k] = f[k]
  <2>1. k + 1 \in 1 .. k + 1 /\ k \in 1 .. k
    OBVIOUS
  <2> QED
    BY <1>1, <1>2, <2>1
<1>4. \A i \in 1 .. k : f[i] = IF i = 1 THEN lists[i] ELSE f[i - 1] \o lists[i]
  BY DEF Joins
<1>5. ASSUME NEW i \in 1 .. k + 1
      PROVE  g[i] = IF i = 1 THEN lists[i] ELSE g[i - 1] \o lists[i]
  <2>1. CASE i = k + 1
    <3>1. i # 1 /\ i - 1 = k
      BY <2>1
    <3> QED
      BY <1>3, <2>1, <3>1
  <2>2. CASE i # k + 1 /\ i # 1
    <3>1. i \in 1 .. k /\ i - 1 \in 1 .. k
      BY <2>2
    <3> QED
      BY <1>2, <1>4, <2>2, <3>1
  <2>3. CASE i # k + 1 /\ i = 1
    <3>1. i \in 1 .. k
      BY <2>3
    <3> QED
      BY <1>2, <1>4, <2>3, <3>1
  <2> QED
    BY <2>1, <2>2, <2>3
<1>6. g = [i \in 1 .. k + 1 |-> g[i]]
  BY <1>1
<1>7. Joins(lists, g, k + 1)
  BY <1>5, <1>6 DEF Joins
<1> QED
  BY <1>3, <1>7

LEMMA JoinAll ==
    ASSUME NEW lists, NEW n \in Nat \ {0}
    PROVE  \E f : Joins(lists, f, n)
<1> DEFINE S == {k \in 0 .. n : k = 0 \/ \E f : Joins(lists, f, k)}
<1>1. 0 \in S
  OBVIOUS
<1>2. ASSUME NEW k \in 0 .. n - 1, k \in S PROVE k + 1 \in S
  <2>1. k + 1 \in 0 .. n /\ k \in Nat
    OBVIOUS
  <2>2. CASE k = 0
    <3>1. PICK f : f = [i \in 1 .. 1 |-> lists[1]]
      OBVIOUS
    <3>2. f = [i \in 1 .. 1 |-> IF i = 1 THEN lists[i] ELSE f[i - 1] \o lists[i]]
      BY <3>1
    <3>3. \E g : Joins(lists, g, 1)
      BY <3>2 DEF Joins
    <3>4. k + 1 = 1
      BY <2>2
    <3> QED
      BY <2>1, <3>3, <3>4
  <2>3. CASE k # 0
    <3>1. PICK f : Joins(lists, f, k)
      BY <1>2, <2>3
    <3>2. PICK x : x = f[k] \o lists[k + 1]
      OBVIOUS
    <3>3. \E g : Joins(lists, g, k + 1)
      BY <2>1, <2>3, <3>1, <3>2, JoinMore
    <3> QED
      BY <2>1, <3>3
  <2> QED
    BY <2>2, <2>3
<1>3. \A i \in 0 .. n : i \in S
  <2> HIDE DEF S
  <2> QED
    BY <1>1, <1>2, Climbs
<1> QED
  BY <1>3

LEMMA JoinsAgree ==
    ASSUME NEW l, NEW f, NEW k \in Nat \ {0}, Joins(l, f, k),
           NEW m, NEW g, NEW j \in Nat, k <= j, Joins(m, g, j),
           \A i \in 1 .. k : l[i] = m[i]
    PROVE  f[k] = g[k]
<1> DEFINE S == {i \in 0 .. k : i = 0 \/ f[i] = g[i]}
<1>1. 0 \in S
  OBVIOUS
<1>2. ASSUME NEW i \in 0 .. k - 1, i \in S PROVE i + 1 \in S
  <2>1. i + 1 \in 1 .. k /\ i + 1 \in 1 .. j /\ (i + 1) - 1 = i
    OBVIOUS
  <2>2. f[i + 1] = IF i + 1 = 1 THEN l[i + 1] ELSE f[(i + 1) - 1] \o l[i + 1]
    BY <2>1 DEF Joins
  <2>3. g[i + 1] = IF i + 1 = 1 THEN m[i + 1] ELSE g[(i + 1) - 1] \o m[i + 1]
    BY <2>1 DEF Joins
  <2>4. l[i + 1] = m[i + 1]
    BY <2>1
  <2>5. i + 1 # 1 => f[i] = g[i]
    BY <1>2
  <2>6. f[i + 1] = g[i + 1]
    BY <2>1, <2>2, <2>3, <2>4, <2>5
  <2> QED
    BY <2>1, <2>6
<1>3. \A i \in 0 .. k : i \in S
  <2> HIDE DEF S
  <2> QED
    BY <1>1, <1>2, Climbs
<1> QED
  BY <1>3

LEMMA FlattenNone == FlattenSeq(<<>>) = <<>>
BY EmptyList DEF FlattenSeq

LEMMA FlattenIs ==
    ASSUME NEW lists, IsList(lists), Len(lists) # 0
    PROVE  \E h : Joins(lists, h, Len(lists)) /\ FlattenSeq(lists) = h[Len(lists)]
<1>1. PICK n : n = Len(lists)
  OBVIOUS
<1>2. n \in Nat \ {0}
  BY <1>1, ListFacts
<1>3. PICK h : h = CHOOSE f : Joins(lists, f, n)
  OBVIOUS
<1>4. Joins(lists, h, n)
  BY <1>2, <1>3, JoinAll
<1>5. FlattenSeq(lists) = h[n]
  BY <1>1, <1>2, <1>3 DEF FlattenSeq, Joins
<1> QED
  BY <1>1, <1>4, <1>5

LEMMA FlattenStep ==
    ASSUME NEW lists, IsList(lists), NEW longer, IsList(longer),
           Len(longer) = Len(lists) + 1, \A i \in 1 .. Len(lists) : longer[i] = lists[i],
           IsList(longer[Len(longer)])
    PROVE  FlattenSeq(longer) = FlattenSeq(lists) \o longer[Len(longer)]
<1>1. PICK n : n = Len(lists)
  OBVIOUS
<1>2. n \in Nat /\ Len(longer) = n + 1 /\ n + 1 # 0
  BY <1>1, ListFacts
<1>3. PICK h : Joins(longer, h, n + 1) /\ FlattenSeq(longer) = h[n + 1]
  BY <1>2, FlattenIs
<1>4. h[n + 1] = IF n + 1 = 1 THEN longer[n + 1] ELSE h[(n + 1) - 1] \o longer[n + 1]
  <2>1. n + 1 \in 1 .. n + 1
    BY <1>2
  <2> QED
    BY <1>3, <2>1 DEF Joins
<1>5. CASE n = 0
  <2>1. lists = <<>>
    <3>1. PICK z : z = <<>>
      OBVIOUS
    <3>2. IsList(z) /\ Len(z) = Len(lists) /\ \A i \in 1 .. Len(lists) : lists[i] = z[i]
      BY <1>1, <1>5, <3>1, EmptyList
    <3> QED
      BY <3>1, <3>2, SameList
  <2>2. FlattenSeq(lists) \o longer[n + 1] = longer[n + 1]
    BY <1>2, <2>1, FlattenNone, ConcatEmpty
  <2>3. n + 1 = 1
    BY <1>5
  <2>4. h[n + 1] = longer[n + 1]
    BY <1>4, <2>3
  <2> QED
    BY <1>2, <1>3, <2>2, <2>4
<1>6. CASE n # 0
  <2>1. PICK f : Joins(lists, f, n) /\ FlattenSeq(lists) = f[n]
    BY <1>1, <1>6, FlattenIs
  <2>2. f[n] = h[n]
    <3>1. n \in Nat \ {0} /\ n + 1 \in Nat /\ n <= n + 1
      BY <1>2, <1>6
    <3>2. \A i \in 1 .. n : lists[i] = longer[i]
      BY <1>1
    <3> QED
      BY <1>3, <2>1, <3>1, <3>2, JoinsAgree
  <2>3. n + 1 # 1 /\ (n + 1) - 1 = n
    BY <1>2, <1>6
  <2> QED
    BY <1>2, <1>3, <1>4, <2>1, <2>2, <2>3
<1> QED
  BY <1>5, <1>6

(* The first lists of a list of lists, joined.                             *)
Upto(lists, k) == [i \in 1 .. k |-> lists[i]]
Joined(lists, k) == FlattenSeq(Upto(lists, k))
Lists(lists) == IsList(lists) /\ \A i \in 1 .. Len(lists) : IsList(lists[i])
LEMMA JoinedFacts ==
    ASSUME NEW lists, Lists(lists)
    PROVE  /\ Joined(lists, 0) = <<>>
           /\ \A k \in 0 .. Len(lists) : IsList(Joined(lists, k))
           /\ \A k \in 0 .. Len(lists) - 1 :
                 Joined(lists, k + 1) = Joined(lists, k) \o lists[k + 1]
           /\ Joined(lists, Len(lists)) = FlattenSeq(lists)
<1>1. PICK n : n = Len(lists)
  OBVIOUS
<1>2. n \in Nat /\ DOMAIN lists = 1 .. n
  BY <1>1, ListFacts DEF Lists
<1>3. ASSUME NEW k \in 0 .. n
      PROVE  /\ IsList(Upto(lists, k)) /\ Len(Upto(lists, k)) = k
             /\ \A i \in 1 .. k : Upto(lists, k)[i] = lists[i]
  <2>1. PICK f : f = Upto(lists, k)
    OBVIOUS
  <2>2. f = [i \in 1 .. k |-> f[i]] /\ \A i \in 1 .. k : f[i] = lists[i]
    BY <2>1 DEF Upto
  <2>3. k \in Nat
    BY <1>2
  <2> QED
    BY <2>1, <2>2, <2>3, ListOf
<1>4. Joined(lists, 0) = <<>>
  <2>1. Upto(lists, 0) = <<>>
    BY <1>2, <1>3, EmptyList, SameList
  <2> QED
    BY <2>1, FlattenNone DEF Joined
<1>5. ASSUME NEW k \in 0 .. n - 1
      PROVE  Joined(lists, k + 1) = Joined(lists, k) \o lists[k + 1]
  <2>1. k \in 0 .. n /\ k + 1 \in 0 .. n /\ k + 1 \in 1 .. n /\ k + 1 \in 1 .. k + 1
    BY <1>2
  <2>2. PICK s, t : s = Upto(lists, k) /\ t = Upto(lists, k + 1)
    OBVIOUS
  <2>3. IsList(s) /\ Len(s) = k /\ \A i \in 1 .. k : s[i] = lists[i]
    BY <1>3, <2>1, <2>2
  <2>4. IsList(t) /\ Len(t) = k + 1 /\ \A i \in 1 .. k + 1 : t[i] = lists[i]
    BY <1>3, <2>1, <2>2
  <2>5. \A i \in 1 .. k : i \in 1 .. k + 1
    BY <1>2
  <2>6. t[k + 1] = lists[k + 1] /\ IsList(lists[k + 1])
    BY <1>1, <2>1, <2>4 DEF Lists
  <2>7. FlattenSeq(t) = FlattenSeq(s) \o t[k + 1]
    BY <2>3, <2>4, <2>5, <2>6, FlattenStep
  <2> QED
    BY <2>2, <2>6, <2>7 DEF Joined
<1>6. \A k \in 0 .. n : IsList(Joined(lists, k))
  <2> DEFINE S == {k \in 0 .. n : IsList(Joined(lists, k))}
  <2>1. 0 \in S
    BY <1>2, <1>4, EmptyList
  <2>2. ASSUME NEW k \in 0 .. n - 1, k \in S PROVE k + 1 \in S
    <3>1. k + 1 \in 0 .. n /\ k + 1 \in 1 .. n
      BY <1>2
    <3>2. IsList(Joined(lists, k)) /\ IsList(lists[k + 1])
      BY <1>1, <2>2, <3>1 DEF Lists
    <3>3. IsList(Joined(lists, k) \o lists[k + 1])
      BY <3>2, ConcatFacts
    <3>4. IsList(Joined(lists, k + 1))
      BY <1>5, <3>3
    <3> QED
      BY <3>1, <3>4
  <2>3. \A k \in 0 .. n : k \in S
    <3> HIDE DEF S
    <3> QED
      BY <1>2, <2>1, <2>2, Climbs
  <2> QED
    BY <2>3
<1>7. Joined(lists, n) = FlattenSeq(lists)
  <2>1. n \in 0 .. n
    BY <1>2
  <2>2. Upto(lists, n) = lists
    BY <1>1, <1>3, <2>1, SameList DEF Lists
  <2> QED
    BY <2>2 DEF Joined
<1> QED
  BY <1>1, <1>4, <1>5, <1>6, <1>7

(* Joining lists of one item each.                                         *)
LEMMA Singles ==
    ASSUME NEW s, IsList(s)
    PROVE  LET each == [i \in 1 .. Len(s) |-> <<s[i]>>] IN Lists(each) /\ FlattenSeq(each) = s
<1>1. PICK n, each : n = Len(s) /\ each = [i \in 1 .. Len(s) |-> <<s[i]>>]
  OBVIOUS
<1>2. n \in Nat /\ each = [i \in 1 .. n |-> <<s[i]>>]
  BY <1>1, ListFacts
<1>3. IsList(each) /\ Len(each) = n
  BY <1>2, ListOf
<1>4. Lists(each)
  BY <1>2, <1>3, OneItem DEF Lists
<1> DEFINE S == {k \in 0 .. n : /\ Len(Joined(each, k)) = k
                                /\ \A i \in 1 .. k : Joined(each, k)[i] = s[i]}
<1>5. 0 \in S
  BY <1>2, <1>4, JoinedFacts, EmptyList
<1>6. ASSUME NEW k \in 0 .. n - 1, k \in S PROVE k + 1 \in S
  <2>1. k + 1 \in 0 .. n /\ k + 1 \in 1 .. n /\ k \in 0 .. n
    BY <1>2
  <2>2. PICK l, m, o : l = Joined(each, k) /\ m = Joined(each, k + 1) /\ o = <<s[k + 1]>>
    OBVIOUS
  <2>3. IsList(l) /\ m = l \o o
    <3>1. IsList(Joined(each, k)) /\ Joined(each, k + 1) = Joined(each, k) \o each[k + 1]
      BY <1>3, <1>4, <2>1, JoinedFacts
    <3>2. each[k + 1] = o
      BY <1>2, <2>1, <2>2
    <3> QED
      BY <2>2, <3>1, <3>2
  <2>4. IsList(o) /\ Len(o) = 1 /\ o[1] = s[k + 1]
    BY <2>2, OneItem
  <2>5. Len(l) = k /\ \A i \in 1 .. k : l[i] = s[i]
    BY <1>6, <2>2
  <2>6. Len(m) = k + 1 /\ \A i \in 1 .. k + 1 : m[i] = IF i <= k THEN l[i] ELSE o[i - k]
    <3>1. /\ Len(m) = Len(l) + Len(o)
          /\ \A i \in 1 .. Len(l) + Len(o) : m[i] = IF i <= Len(l) THEN l[i] ELSE o[i - Len(l)]
      BY <2>3, <2>4, ConcatFacts
    <3> QED
      BY <2>4, <2>5, <3>1
  <2>7. ASSUME NEW i \in 1 .. k + 1 PROVE m[i] = s[i]
    <3>1. CASE i <= k
      BY <2>5, <2>6, <3>1
    <3>2. CASE i = k + 1
      <4>1. ~(i <= k) /\ i - k = 1
        BY <3>2
      <4> QED
        BY <2>4, <2>6, <3>2, <4>1
    <3> QED
      BY <3>1, <3>2
  <2> QED
    BY <2>1, <2>2, <2>6, <2>7
<1>7. \A k \in 0 .. n : k \in S
  <2> HIDE DEF S
  <2> QED
    BY <1>2, <1>5, <1>6, Climbs
<1>8. n \in 0 .. n
  BY <1>2
<1>9. PICK j : j = Joined(each, n)
  OBVIOUS
<1>10. IsList(j) /\ Len(j) = n /\ \A i \in 1 .. n : j[i] = s[i]
  BY <1>3, <1>4, <1>7, <1>8, <1>9, JoinedFacts
<1>11. j = s
  BY <1>1, <1>10, SameList
<1>12. FlattenSeq(each) = s
  BY <1>3, <1>4, <1>9, <1>11, JoinedFacts
<1> QED
  BY <1>1, <1>4, <1>12

-----------------------------------------------------------------------------
(* Lists of codes: those that are left out, and those that are kept.       *)
Flags(codes, dropped) == [i \in DOMAIN codes |-> Flag(codes[i], codes[i] \notin dropped)]
LEMMA FlagsFacts ==
    ASSUME NEW codes, IsList(codes), NEW dropped
    PROVE  /\ Lists(Flags(codes, dropped)) /\ Len(Flags(codes, dropped)) = Len(codes)
           /\ Without(codes, dropped) = FlattenSeq(Flags(codes, dropped))
<1>1. PICK n, f : n = Len(codes) /\ f = Flags(codes, dropped)
  OBVIOUS
<1>2. n \in Nat /\ f = [i \in 1 .. n |-> Flag(codes[i], codes[i] \notin dropped)]
  BY <1>1, ListFacts DEF Flags
<1>3. IsList(f) /\ Len(f) = n
  BY <1>2, ListOf
<1>4. Lists(f)
  BY <1>2, <1>3, FlagFacts DEF Lists
<1>5. Without(codes, dropped) = FlattenSeq(f)
  BY <1>1 DEF Without, Flags
<1> QED
  BY <1>1, <1>3, <1>4, <1>5

LEMMA WithoutConcat ==
    ASSUME NEW a, NEW b, NEW dropped, IsList(a), IsList(b)
    PROVE  /\ IsList(Without(a, dropped)) /\ IsList(Without(b, dropped))
           /\ Without(a \o b, dropped) = Without(a, dropped) \o Without(b, dropped)
<1>1. PICK c, f, g, h : /\ c = a \o b /\ f = Flags(a, dropped) /\ g = Flags(b, dropped)
                        /\ h = Flags(c, dropped)
  OBVIOUS
<1>2. PICK m, n : m = Len(a) /\ n = Len(b)
  OBVIOUS
<1>3. m \in Nat /\ n \in Nat /\ DOMAIN a = 1 .. m /\ DOMAIN b = 1 .. n
  BY <1>2, ListFacts
<1>4. /\ IsList(c) /\ Len(c) = m + n /\ DOMAIN c = 1 .. m + n
      /\ \A i \in 1 .. m + n : c[i] = IF i <= m THEN a[i] ELSE b[i - m]
  BY <1>1, <1>2, ConcatFacts, ListFacts
<1>5. /\ Lists(f) /\ Len(f) = m /\ Without(a, dropped) = FlattenSeq(f)
      /\ Lists(g) /\ Len(g) = n /\ Without(b, dropped) = FlattenSeq(g)
      /\ Lists(h) /\ Len(h) = m + n /\ Without(c, dropped) = FlattenSeq(h)
  BY <1>1, <1>2, <1>4, FlagsFacts
<1>6. \A i \in 1 .. m : h[i] = f[i]
  <2>1. \A i \in 1 .. m : i \in 1 .. m + n /\ c[i] = a[i]
    BY <1>3, <1>4
  <2> QED
    BY <1>1, <1>3, <1>4, <2>1 DEF Flags
<1>7. \A i \in 1 .. n : h[m + i] = g[i]
  <2>1. \A i \in 1 .. n : m + i \in 1 .. m + n /\ c[m + i] = b[i]
    <3>1. \A i \in 1 .. n : m + i \in 1 .. m + n /\ ~(m + i <= m) /\ (m + i) - m = i
      BY <1>3
    <3> QED
      BY <1>4, <3>1
  <2> QED
    BY <1>1, <1>3, <1>4, <2>1 DEF Flags
<1>8. PICK fa : fa = FlattenSeq(f)
  OBVIOUS
<1>9. IsList(fa) /\ Joined(f, m) = fa
  <2>1. m \in 0 .. m
    BY <1>3
  <2> QED
    BY <1>5, <1>8, <2>1, JoinedFacts
<1> DEFINE S == {k \in 0 .. n : Joined(h, m + k) = fa \o Joined(g, k)}
<1>10. 0 \in S
  <2>1. Upto(h, m) = Upto(f, m)
    BY <1>6 DEF Upto
  <2>2. Joined(h, m + 0) = fa
    BY <1>3, <1>9, <2>1 DEF Joined
  <2>3. Joined(g, 0) = <<>>
    BY <1>5, JoinedFacts
  <2>4. fa \o Joined(g, 0) = fa
    BY <1>9, <2>3, ConcatEmpty
  <2>5. 0 \in 0 .. n
    BY <1>3
  <2> QED
    BY <2>2, <2>4, <2>5
<1>11. ASSUME NEW k \in 0 .. n - 1, k \in S PROVE k + 1 \in S
  <2>1. k + 1 \in 0 .. n /\ k + 1 \in 1 .. n /\ k \in 0 .. n
    BY <1>3
  <2>2. m + k \in 0 .. (m + n) - 1 /\ (m + k) + 1 = m + (k + 1)
    BY <1>3
  <2>3. Joined(h, (m + k) + 1) = Joined(h, m + k) \o h[(m + k) + 1]
    BY <1>5, <2>2, JoinedFacts
  <2>4. PICK x, y : x = Joined(g, k) /\ y = g[k + 1]
    OBVIOUS
  <2>5. IsList(x) /\ IsList(y) /\ Joined(g, k + 1) = x \o y
    <3>1. IsList(Joined(g, k)) /\ Joined(g, k + 1) = Joined(g, k) \o g[k + 1]
      BY <1>5, <2>1, JoinedFacts
    <3>2. IsList(g[k + 1])
      BY <1>5, <2>1 DEF Lists
    <3> QED
      BY <2>4, <3>1, <3>2
  <2>6. Joined(h, m + k) = fa \o x
    BY <1>11, <2>4
  <2>7. h[(m + k) + 1] = y
    BY <1>7, <2>1, <2>2, <2>4
  <2>8. (fa \o x) \o y = fa \o (x \o y)
    <3>1. IsList(fa) /\ IsList(x) /\ IsList(y)
      BY <1>9, <2>5
    <3> QED
      BY <3>1, ConcatAgain
  <2> QED
    BY <2>1, <2>2, <2>3, <2>5, <2>6, <2>7, <2>8
<1>12. \A k \in 0 .. n : k \in S
  <2> HIDE DEF S
  <2> QED
    BY <1>3, <1>10, <1>11, Climbs
<1>13. n \in 0 .. n /\ m + n \in 0 .. m + n
  BY <1>3
<1>14. Joined(h, m + n) = fa \o Joined(g, n)
  BY <1>12, <1>13
<1>15. FlattenSeq(h) = fa \o FlattenSeq(g) /\ IsList(FlattenSeq(g))
  BY <1>5, <1>13, <1>14, JoinedFacts
<1> QED
  BY <1>1, <1>5, <1>8, <1>9, <1>15

LEMMA WithoutFlag ==
    ASSUME NEW code, NEW reported, NEW dropped
    PROVE  Without(Flag(code, reported), dropped) = Flag(code, reported /\ code \notin dropped)
<1>1. PICK s : s = Flag(code, reported)
  OBVIOUS
<1>2. IsList(s)
  BY <1>1, FlagFacts
<1>3. CASE reported
  <2>1. s = <<code>> /\ Len(s) = 1 /\ s[1] = code
    BY <1>1, <1>3, OneItem DEF Flag
  <2>2. PICK f : f = Flags(s, dropped)
    OBVIOUS
  <2>3. Lists(f) /\ Len(f) = 1 /\ Without(s, dropped) = FlattenSeq(f)
    BY <1>2, <2>1, <2>2, FlagsFacts
  <2>4. f[1] = Flag(code, code \notin dropped)
    BY <1>2, <2>1, <2>2, ListFacts DEF Flags
  <2>5. /\ Joined(f, 0) = <<>> /\ Joined(f, 1) = FlattenSeq(f)
        /\ Joined(f, 1) = Joined(f, 0) \o f[1]
    <3>1. 0 \in 0 .. 1 - 1 /\ 0 + 1 = 1
      OBVIOUS
    <3>2. Joined(f, 0 + 1) = Joined(f, 0) \o f[0 + 1]
      BY <2>3, <3>1, JoinedFacts
    <3> QED
      BY <2>3, <3>1, <3>2, JoinedFacts
  <2>6. IsList(f[1]) /\ <<>> \o f[1] = f[1]
    BY <2>4, FlagFacts, ConcatEmpty
  <2>7. FlattenSeq(f) = f[1]
    BY <2>5, <2>6
  <2> QED
    BY <1>1, <1>3, <2>3, <2>4, <2>7 DEF Flag
<1>4. CASE ~reported
  <2>1. s = <<>>
    BY <1>1, <1>4 DEF Flag
  <2>2. PICK f : f = Flags(s, dropped)
    OBVIOUS
  <2>3. Lists(f) /\ Len(f) = 0 /\ Without(s, dropped) = FlattenSeq(f)
    BY <1>2, <2>1, <2>2, FlagsFacts, EmptyList
  <2>4. FlattenSeq(f) = <<>>
    BY <2>3, JoinedFacts
  <2> QED
    BY <1>1, <1>4, <2>3, <2>4 DEF Flag
<1> QED
  BY <1>3, <1>4

LEMMA WithoutMore ==
    ASSUME NEW codes, NEW code, NEW reported, NEW dropped, IsList(codes)
    PROVE  /\ IsList(Without(codes, dropped))
           /\ Without(codes \o Flag(code, reported), dropped) =
                 IF reported /\ code \notin dropped
                 THEN Append(Without(codes, dropped), code)
                 ELSE Without(codes, dropped)
<1>1. PICK flag : flag = Flag(code, reported)
  OBVIOUS
<1>2. IsList(flag)
  BY <1>1, FlagFacts
<1>3. PICK kept, rest : kept = Without(codes, dropped) /\ rest = Without(flag, dropped)
  OBVIOUS
<1>4. IsList(kept) /\ Without(codes \o flag, dropped) = kept \o rest
  <2>1. /\ IsList(Without(codes, dropped))
        /\ Without(codes \o flag, dropped) = Without(codes, dropped) \o Without(flag, dropped)
    BY <1>2, WithoutConcat
  <2> QED
    BY <1>3, <2>1
<1>5. CASE reported /\ code \notin dropped
  <2>1. rest = <<code>>
    BY <1>1, <1>3, <1>5, WithoutFlag DEF Flag
  <2>2. kept \o <<code>> = Append(kept, code)
    BY <1>4, OneItem
  <2>3. Without(codes \o flag, dropped) = Append(kept, code)
    BY <1>4, <2>1, <2>2
  <2> QED
    BY <1>1, <1>3, <1>4, <1>5, <2>3, Zenon
<1>6. CASE ~(reported /\ code \notin dropped)
  <2>1. rest = <<>>
    BY <1>1, <1>3, <1>6, WithoutFlag DEF Flag
  <2> QED
    BY <1>1, <1>3, <1>4, <1>6, <2>1, ConcatEmpty
<1> QED
  BY <1>5, <1>6

LEMMA WithoutNone ==
    ASSUME NEW codes, IsList(codes), NEW dropped, ToSet(codes) \cap dropped = {}
    PROVE  Without(codes, dropped) = codes
<1>1. PICK n : n = Len(codes)
  OBVIOUS
<1>2. n \in Nat /\ DOMAIN codes = 1 .. n
  BY <1>1, ListFacts
<1>3. \A i \in 1 .. n : codes[i] \notin dropped
  BY <1>2 DEF ToSet
<1>4. Flags(codes, dropped) = [i \in 1 .. n |-> <<codes[i]>>]
  BY <1>2, <1>3 DEF Flags, Flag
<1> QED
  BY <1>1, <1>4, FlagsFacts, Singles

LEMMA WithoutAll ==
    ASSUME NEW codes, IsList(codes), NEW dropped, ToSet(codes) \subseteq dropped
    PROVE  Without(codes, dropped) = <<>>
<1>1. PICK n, f : n = Len(codes) /\ f = Flags(codes, dropped)
  OBVIOUS
<1>2. n \in Nat /\ DOMAIN codes = 1 .. n /\ Lists(f) /\ Len(f) = n
  BY <1>1, ListFacts, FlagsFacts
<1>3. \A i \in 1 .. n : f[i] = <<>>
  BY <1>1, <1>2 DEF ToSet, Flags, Flag
<1> DEFINE S == {k \in 0 .. n : Joined(f, k) = <<>>}
<1>4. 0 \in S
  BY <1>2, JoinedFacts
<1>5. ASSUME NEW k \in 0 .. n - 1, k \in S PROVE k + 1 \in S
  <2>1. k + 1 \in 0 .. n /\ k + 1 \in 1 .. n
    BY <1>2
  <2>2. Joined(f, k + 1) = Joined(f, k) \o f[k + 1]
    BY <1>2, JoinedFacts
  <2>3. <<>> \o <<>> = <<>>
    BY EmptyList, ConcatEmpty
  <2> QED
    BY <1>3, <1>5, <2>1, <2>2, <2>3
<1>6. \A k \in 0 .. n : k \in S
  <2> HIDE DEF S
  <2> QED
    BY <1>2, <1>4, <1>5, Climbs
<1>7. n \in 0 .. n
  BY <1>2
<1> QED
  BY <1>1, <1>2, <1>6, <1>7, JoinedFacts, FlagsFacts

(* One code more, when only so many are kept.                              *)
LEMMA CappedMore ==
    ASSUME NEW codes, IsList(codes), NEW code
    PROVE  LET kept == Capped(codes) IN
           /\ IsList(kept)
           /\ Capped(Append(codes, code)) =
                 IF Len(kept) < MaxDiagnostics
                 THEN Append(kept, code)
                 ELSE [kept EXCEPT ![MaxDiagnostics] = "F0002"]
<1>1. PICK n, max, further, kept :
          /\ n = Len(codes) /\ max = MaxDiagnostics
          /\ further = Append(codes, code) /\ kept = Capped(codes)
  OBVIOUS
<1>2. n \in Nat /\ max \in Nat \ {0} /\ DOMAIN codes = 1 .. n
  BY <1>1, ListFacts, CompilersAssumption
<1>3. IsList(further) /\ Len(further) = n + 1 /\ \A i \in 1 .. n : further[i] = codes[i]
  BY <1>1, AppendFacts
<1>4. ASSUME NEW s, IsList(s), max - 1 <= Len(s)
      PROVE  LET t == Append(SubSeq(s, 1, max - 1), "F0002") IN
             /\ IsList(t) /\ Len(t) = max /\ t[max] = "F0002"
             /\ \A i \in 1 .. max - 1 : t[i] = s[i]
  <2>1. PICK S : S = ToSet(s)
    OBVIOUS
  <2>2. s \in Seq(S) /\ Len(s) \in Nat
    BY <1>4, <2>1 DEF IsList
  <2>3. PICK u : u = SubSeq(s, 1, max - 1)
    OBVIOUS
  <2>4. u \in Seq(S) /\ Len(u) = max - 1 /\ \A i \in 1 .. max - 1 : u[i] = s[i]
    BY <1>2, <1>4, <2>2, <2>3
  <2>5. u = [i \in 1 .. max - 1 |-> u[i]] /\ max - 1 \in Nat
    BY <1>2, <2>4
  <2>6. IsList(u) /\ Len(u) = max - 1
    BY <2>5, ListOf
  <2>7. PICK t : t = Append(u, "F0002")
    OBVIOUS
  <2>8. /\ IsList(t) /\ Len(t) = max /\ t[max] = "F0002"
        /\ \A i \in 1 .. max - 1 : t[i] = u[i]
    <3>1. (max - 1) + 1 = max
      BY <1>2
    <3> QED
      BY <2>6, <2>7, <3>1, AppendFacts
  <2> QED
    BY <2>3, <2>4, <2>7, <2>8
<1>5. CASE n < max
  <2>1. kept = codes /\ Capped(further) = further
    BY <1>1, <1>2, <1>3, <1>5 DEF Capped
  <2> QED
    BY <1>1, <1>5, <2>1
<1>6. CASE n >= max
  <2>1. PICK t : t = Append(SubSeq(further, 1, max - 1), "F0002")
    OBVIOUS
  <2>2. Capped(further) = t
    BY <1>1, <1>2, <1>3, <1>6, <2>1 DEF Capped
  <2>3. /\ IsList(t) /\ Len(t) = max /\ t[max] = "F0002"
        /\ \A i \in 1 .. max - 1 : t[i] = further[i]
    BY <1>2, <1>3, <1>4, <1>6, <2>1
  <2>4. \A i \in 1 .. max - 1 : i \in 1 .. n
    BY <1>2, <1>6
  <2>5. IsList(kept) /\ Len(kept) = max /\ \A i \in 1 .. max - 1 : kept[i] = codes[i]
    <3>1. CASE n = max
      BY <1>1, <1>2, <2>4, <3>1 DEF Capped
    <3>2. CASE n > max
      <4>1. kept = Append(SubSeq(codes, 1, max - 1), "F0002")
        BY <1>1, <1>2, <3>2 DEF Capped
      <4>2. max - 1 <= Len(codes)
        BY <1>1, <1>2, <3>2
      <4> QED
        BY <1>4, <4>1, <4>2
    <3> QED
      BY <1>2, <1>6, <3>1, <3>2
  <2>6. PICK u : u = [kept EXCEPT ![max] = "F0002"]
    OBVIOUS
  <2>7. DOMAIN kept = 1 .. max
    BY <2>5, ListFacts
  <2>8. u = [i \in 1 .. max |-> IF i = max THEN "F0002" ELSE kept[i]]
    BY <2>5, <2>6, <2>7 DEF IsList
  <2>9. u = [i \in 1 .. max |-> u[i]]
    BY <2>8
  <2>10. IsList(u) /\ Len(u) = max
    BY <1>2, <2>9, ListOf
  <2>11. \A i \in 1 .. max : u[i] = t[i]
    <3>1. ASSUME NEW i \in 1 .. max PROVE u[i] = t[i]
      <4>1. CASE i = max
        BY <2>3, <2>8, <4>1
      <4>2. CASE i # max
        <5>1. i \in 1 .. max - 1
          BY <1>2, <4>2
        <5>2. u[i] = kept[i]
          BY <2>8, <4>2
        <5>3. i \in 1 .. n
          BY <2>4, <5>1
        <5>4. kept[i] = codes[i] /\ t[i] = further[i] /\ further[i] = codes[i]
          BY <1>3, <2>3, <2>5, <5>1, <5>3
        <5> QED
          BY <5>2, <5>4
      <4> QED
        BY <4>1, <4>2
    <3> QED
      BY <3>1
  <2>12. u = t
    BY <2>3, <2>10, <2>11, SameList
  <2>13. ~(Len(kept) < max)
    BY <1>2, <2>5
  <2> QED
    BY <1>1, <2>2, <2>5, <2>6, <2>12, <2>13
<1> QED
  BY <1>2, <1>5, <1>6

-----------------------------------------------------------------------------
(* Native checkers, and what becomes of one: the codes it adds to those it *)
(* has told of, and the rows it adds to its table, in which the rows that  *)
(* are pending have a number and no entry yet.                             *)
IsNative(n) ==
    /\ n = [stage |-> n.stage, env |-> n.env, used |-> n.used, consumed |-> n.consumed,
            errors |-> n.errors, snapshots |-> n.snapshots, selections |-> n.selections,
            resource |-> n.resource, base |-> n.base, nodes |-> n.nodes,
            expressions |-> n.expressions]
    /\ n.stage \in Native!Stages
SameView(n, m) ==
    m.stage = n.stage /\ m.env = n.env /\ m.base = n.base /\ m.resource = n.resource
SameBooks(n, m) ==
    /\ m.used = n.used /\ m.consumed = n.consumed
    /\ m.snapshots = n.snapshots /\ m.selections = n.selections
SameOutput(n, m) ==
    m.errors = n.errors /\ m.nodes = n.nodes /\ m.expressions = n.expressions

Told(n, codes) == n.errors = Capped(Without(codes, Deferred[n.stage]))
Plain ==
    {"F3003", "F3004", "F3005", "F3006", "F3100", "F3101", "F3103", "F3105", "F3106", "F3107",
     "F3203", "F3204", "F3205", "F3206", "F3208", "F3209", "F3210", "F3300"}
Codes == Plain \cup Lineage \cup Ownership \cup Permissions
Ordinary(codes) == IsList(codes) /\ ToSet(codes) \subseteq Codes
Adds(n, m, codes) ==
    /\ Ordinary(codes)
    /\ \A told : IsList(told) /\ Told(n, told) => Told(m, told \o codes)

Entry(types, i) == [node |-> i - 1, op |-> types[i].op, type |-> types[i].type]
Table(n, types, pending) ==
    /\ IsList(types) /\ IsList(n.expressions) /\ n.nodes = Len(types)
    /\ pending \subseteq 0 .. n.nodes - 1
    /\ \A row : row \in ToSet(n.expressions) <=>
                   \E i \in 1 .. n.nodes : i - 1 \notin pending /\ row = Entry(types, i)
    /\ Len(n.expressions) + Cardinality(pending) = n.nodes
Lays(n, m, rows) ==
    /\ IsList(rows)
    /\ \A types, pending : Table(n, types, pending) => Table(m, types \o rows, pending)

Moves(n, m, codes, rows) ==
    IsNative(m) /\ SameView(n, m) /\ Adds(n, m, codes) /\ Lays(n, m, rows)
Steps(n, m, codes, rows) == Moves(n, m, codes, rows) /\ SameBooks(n, m)

LEMMA CodesFacts ==
    /\ Codes \cap Declarative = {}
    /\ \A stage \in Native!Stages :
          /\ \A code \in Plain : code \notin Deferred[stage]
          /\ \A code \in Lineage :
                code \in Deferred[stage] <=> stage \notin {"lineage", "ownership"}
          /\ \A code \in Ownership : code \in Deferred[stage] <=> stage # "ownership"
          /\ \A code \in Permissions : code \in Deferred[stage] <=> stage = "types"
<1>1. Codes \cap Declarative = {}
  BY DEF Codes, Plain, Lineage, Ownership, Permissions, Declarative
<1>2. /\ Plain \cap (Permissions \cup Lineage \cup Ownership) = {}
      /\ Lineage \cap Ownership = {} /\ Lineage \cap Permissions = {}
      /\ Ownership \cap Permissions = {}
  BY DEF Plain, Lineage, Ownership, Permissions
<1>3. /\ Deferred["types"] = Permissions \cup Lineage \cup Ownership
      /\ Deferred["effects"] = Lineage \cup Ownership
      /\ Deferred["lineage"] = Ownership /\ Deferred["ownership"] = {}
  BY DEF Deferred
<1>4. ASSUME NEW stage \in Native!Stages
      PROVE  stage = "types" \/ stage = "effects" \/ stage = "lineage" \/ stage = "ownership"
  BY DEF Native!Stages
<1> HIDE DEF Deferred, Plain, Lineage, Ownership, Permissions
<1>5. ASSUME NEW stage \in Native!Stages
      PROVE  /\ \A code \in Plain : code \notin Deferred[stage]
             /\ \A code \in Lineage :
                   code \in Deferred[stage] <=> stage \notin {"lineage", "ownership"}
             /\ \A code \in Ownership : code \in Deferred[stage] <=> stage # "ownership"
             /\ \A code \in Permissions : code \in Deferred[stage] <=> stage = "types"
  <2>1. CASE stage = "types"
    BY <1>2, <1>3, <2>1
  <2>2. CASE stage = "effects"
    BY <1>2, <1>3, <2>2
  <2>3. CASE stage = "lineage"
    BY <1>2, <1>3, <2>3
  <2>4. CASE stage = "ownership"
    BY <1>2, <1>3, <2>4
  <2> QED
    BY <1>4, <2>1, <2>2, <2>3, <2>4
<1> QED
  BY <1>1, <1>5

LEMMA MovesFurther ==
    ASSUME NEW n, NEW m, NEW k, NEW a, NEW b, NEW x, NEW y, Moves(n, m, a, x), Moves(m, k, b, y)
    PROVE  Moves(n, k, a \o b, x \o y)
<1>1. IsNative(k) /\ SameView(n, k)
  BY DEF Moves, SameView
<1>2. Adds(n, k, a \o b)
  <2>1. IsList(a) /\ IsList(b) /\ ToSet(a) \subseteq Codes /\ ToSet(b) \subseteq Codes
    BY DEF Moves, Adds, Ordinary
  <2>2. Ordinary(a \o b)
    BY <2>1, ConcatFacts DEF Ordinary
  <2>3. ASSUME NEW told, IsList(told), Told(n, told) PROVE Told(k, told \o (a \o b))
    <3>1. Told(m, told \o a) /\ IsList(told \o a)
      BY <2>1, <2>3, ConcatFacts DEF Moves, Adds
    <3>2. Told(k, (told \o a) \o b)
      BY <3>1 DEF Moves, Adds
    <3>3. (told \o a) \o b = told \o (a \o b)
      BY <2>1, <2>3, ConcatAgain
    <3> QED
      BY <3>2, <3>3
  <2> QED
    BY <2>2, <2>3 DEF Adds
<1>3. Lays(n, k, x \o y)
  <2>1. IsList(x) /\ IsList(y)
    BY DEF Moves, Lays
  <2>2. ASSUME NEW types, NEW pending, Table(n, types, pending)
        PROVE  Table(k, types \o (x \o y), pending)
    <3>1. Table(m, types \o x, pending)
      BY <2>2 DEF Moves, Lays
    <3>2. Table(k, (types \o x) \o y, pending)
      BY <3>1 DEF Moves, Lays
    <3>3. IsList(types)
      BY <2>2 DEF Table
    <3>4. (types \o x) \o y = types \o (x \o y)
      BY <2>1, <3>3, ConcatAgain
    <3> QED
      BY <3>2, <3>4
  <2> QED
    BY <2>1, <2>2, ConcatFacts DEF Lays
<1> QED
  BY <1>1, <1>2, <1>3 DEF Moves

LEMMA NotedAfter ==
    ASSUME NEW n, NEW m, NEW k, NEW a, NEW b, NEW x, Moves(n, m, a, x), Moves(m, k, b, <<>>)
    PROVE  Moves(n, k, a \o b, x)
<1>1. Moves(n, k, a \o b, x \o <<>>)
  BY MovesFurther
<1>2. IsList(x)
  BY DEF Moves, Lays
<1> QED
  BY <1>1, <1>2, ConcatEmpty

LEMMA ReadAfter ==
    ASSUME NEW n, NEW m, NEW k, NEW a, NEW b, NEW y, Moves(n, m, a, <<>>), Moves(m, k, b, y)
    PROVE  Moves(n, k, a \o b, y)
<1>1. Moves(n, k, a \o b, <<>> \o y)
  BY MovesFurther
<1>2. IsList(y)
  BY DEF Moves, Lays
<1> QED
  BY <1>1, <1>2, ConcatEmpty

LEMMA LaidAfter ==
    ASSUME NEW n, NEW m, NEW k, NEW a, NEW x, NEW y, Moves(n, m, a, x), Moves(m, k, <<>>, y)
    PROVE  Moves(n, k, a, x \o y)
<1>1. Moves(n, k, a \o <<>>, x \o y)
  BY MovesFurther
<1>2. IsList(a)
  BY DEF Moves, Adds, Ordinary
<1> QED
  BY <1>1, <1>2, ConcatEmpty

LEMMA BookedAfter ==
    ASSUME NEW n, NEW m, NEW k, NEW a, NEW x, Moves(n, m, a, x),
           IsNative(k), SameView(m, k), SameOutput(m, k)
    PROVE  Moves(n, k, a, x)
<1>1. SameView(n, k)
  BY DEF Moves, SameView
<1>2. \A told : Told(m, told) => Told(k, told)
  BY DEF Told, SameView, SameOutput
<1>3. \A types, pending : Table(m, types, pending) => Table(k, types, pending)
  BY DEF Table, SameOutput
<1> QED
  BY <1>1, <1>2, <1>3 DEF Moves, Adds, Lays

LEMMA NothingMoves ==
    ASSUME NEW n, IsNative(n)
    PROVE  Steps(n, n, <<>>, <<>>)
<1>1. SameView(n, n) /\ SameBooks(n, n)
  BY DEF SameView, SameBooks
<1>2. Ordinary(<<>>)
  BY EmptyList DEF Ordinary, ToSet
<1>3. Adds(n, n, <<>>)
  BY <1>2, ConcatEmpty DEF Adds
<1>4. Lays(n, n, <<>>)
  BY EmptyList, ConcatEmpty DEF Lays, Table
<1> QED
  BY <1>1, <1>3, <1>4 DEF Steps, Moves

(* Reporting one code, if the stage does not defer it.                     *)
LEMMA ErrorAdds ==
    ASSUME NEW n, IsNative(n), NEW code, code \in Codes, NEW wrong, NEW reported,
           wrong => reported /\ code \notin Deferred[n.stage],
           ~wrong => ~reported \/ code \in Deferred[n.stage]
    PROVE  Steps(n, Native!ErrorIf(n, code, wrong), Flag(code, reported), <<>>)
<1>1. PICK m, flag, D : /\ m = Native!ErrorIf(n, code, wrong) /\ flag = Flag(code, reported)
                        /\ D = Deferred[n.stage]
  OBVIOUS
<1>2. IsNative(m) /\ SameView(n, m) /\ SameBooks(n, m) /\ m.nodes = n.nodes
        /\ m.expressions = n.expressions
  <2>1. m = n \/ \E errors : m = [n EXCEPT !.errors = errors]
    BY <1>1 DEF Native!ErrorIf, Native!Error
  <2> QED
    BY <2>1 DEF IsNative, SameView, SameBooks
<1>3. IsList(flag) /\ ToSet(flag) \subseteq Codes
  BY <1>1, FlagFacts
<1>4. ASSUME NEW told, IsList(told), Told(n, told) PROVE Told(m, told \o flag)
  <2>1. PICK kept : kept = Without(told, D)
    OBVIOUS
  <2>2. n.errors = Capped(kept) /\ m.stage = n.stage /\ IsList(kept)
    BY <1>1, <1>2, <1>4, <2>1, WithoutMore DEF Told, SameView
  <2>3. CASE wrong
    <3>1. reported /\ code \notin D
      BY <1>1, <2>3
    <3>2. Without(told \o Flag(code, reported), D) =
             IF reported /\ code \notin D
             THEN Append(Without(told, D), code)
             ELSE Without(told, D)
      BY <1>4, WithoutMore
    <3>3. Without(told \o flag, D) = Append(kept, code)
      BY <1>1, <2>1, <3>1, <3>2
    <3>4. m.errors = IF Len(n.errors) < MaxDiagnostics
                     THEN Append(n.errors, code)
                     ELSE [n.errors EXCEPT ![MaxDiagnostics] = "F0002"]
      BY <1>1, <2>3 DEF Native!ErrorIf, Native!Error, IsNative
    <3>5. m.errors = Capped(Append(kept, code))
      BY <2>2, <3>4, CappedMore
    <3> QED
      BY <1>1, <2>2, <3>3, <3>5 DEF Told
  <2>4. CASE ~wrong
    <3>1. Without(told \o flag, D) = kept
      BY <1>1, <1>4, <2>1, <2>4, WithoutMore
    <3>2. m.errors = n.errors
      BY <1>1, <2>4 DEF Native!ErrorIf
    <3> QED
      BY <1>1, <2>2, <3>1, <3>2 DEF Told
  <2> QED
    BY <2>3, <2>4
<1>5. Adds(n, m, flag)
  BY <1>3, <1>4 DEF Adds, Ordinary
<1>6. Lays(n, m, <<>>)
  <2>1. \A types, pending : Table(n, types, pending) => Table(m, types, pending)
    BY <1>2 DEF Table
  <2> QED
    BY <2>1, EmptyList, ConcatEmpty DEF Lays, Table
<1> QED
  BY <1>1, <1>2, <1>5, <1>6 DEF Steps, Moves

LEMMA PlainError ==
    ASSUME NEW n, IsNative(n), NEW code, code \in Plain, NEW wrong, NEW reported,
           wrong <=> reported
    PROVE  Steps(n, Native!ErrorIf(n, code, wrong), Flag(code, reported), <<>>)
<1>1. code \in Codes /\ code \notin Deferred[n.stage]
  BY CodesFacts DEF Codes, IsNative
<1> QED
  BY <1>1, ErrorAdds

LEMMA LineageError ==
    ASSUME NEW n, IsNative(n), NEW code, code \in Lineage, NEW wrong, NEW reported,
           wrong <=> Native!LineageEnabled(n) /\ reported
    PROVE  Steps(n, Native!ErrorIf(n, code, wrong), Flag(code, reported), <<>>)
<1>1. code \in Codes /\ (code \notin Deferred[n.stage] <=> Native!LineageEnabled(n))
  BY CodesFacts DEF Codes, IsNative, Native!LineageEnabled
<1> QED
  BY <1>1, ErrorAdds

LEMMA OwnershipError ==
    ASSUME NEW n, IsNative(n), NEW code, code \in Ownership, NEW wrong, NEW reported,
           wrong <=> Native!OwnershipEnabled(n) /\ reported
    PROVE  Steps(n, Native!ErrorIf(n, code, wrong), Flag(code, reported), <<>>)
<1>1. code \in Codes /\ (code \notin Deferred[n.stage] <=> Native!OwnershipEnabled(n))
  BY CodesFacts DEF Codes, IsNative, Native!OwnershipEnabled
<1> QED
  BY <1>1, ErrorAdds

LEMMA PermissionError ==
    ASSUME NEW n, IsNative(n), NEW code, code \in Permissions, NEW wrong, NEW reported,
           wrong <=> Native!EffectsEnabled(n) /\ reported
    PROVE  Steps(n, Native!ErrorIf(n, code, wrong), Flag(code, reported), <<>>)
<1>1. code \in Codes /\ (code \notin Deferred[n.stage] <=> Native!EffectsEnabled(n))
  BY CodesFacts DEF Codes, IsNative, Native!EffectsEnabled
<1> QED
  BY <1>1, ErrorAdds

-----------------------------------------------------------------------------
(* Types: what the native checker has for a binding of the reference.      *)
Typed(b) ==
    [kind |-> b.kind, resource |-> Native!Resolve(b.resource), metrics |-> b.metrics,
     lineage |-> b.lineage, selection |-> b.selection]
IsBinding(b) ==
    /\ b = Binding(b.kind, b.resource, b.metrics, b.lineage, b.selection)
    /\ b.kind \in ValueKinds

LEMMA ResourceFacts ==
    /\ \A x, y : Native!Resolve(x) = Native!Resolve(y) <=> x = y
    /\ \A x : Native!Resolve(x).name = x /\ (Native!Resolve(x).known <=> x = Catalog)
    /\ Native!NoResource = Native!Resolve(None)
    /\ Native!ErrorResource = Native!Resolve("<error>")
    /\ None # "<error>"
BY NoneIsNothing DEF Native!Resolve, Native!NoResource, Native!ErrorResource

LEMMA BindingFacts ==
    ASSUME NEW kind, NEW resource, NEW metrics, NEW lineage, NEW selection
    PROVE  LET b == Binding(kind, resource, metrics, lineage, selection) IN
           /\ b.kind = kind /\ b.resource = resource /\ b.metrics = metrics
           /\ b.lineage = lineage /\ b.selection = selection
           /\ kind \in ValueKinds => IsBinding(b)
           /\ Typed(b) = [kind |-> kind, resource |-> Native!Resolve(resource),
                          metrics |-> metrics, lineage |-> lineage, selection |-> selection]
BY DEF Binding, IsBinding, Typed

LEMMA ScalarFacts ==
    ASSUME NEW kind
    PROVE  /\ Scalar(kind) = Binding(kind, None, <<>>, None, None)
           /\ Typed(Scalar(kind)) = Native!Scalar(kind)
           /\ kind \in ValueKinds => IsBinding(Scalar(kind))
BY BindingFacts, ResourceFacts DEF Scalar, Native!Scalar, Native!Type

LEMMA TypedFacts ==
    ASSUME NEW b
    PROVE  /\ Typed(b).kind = b.kind /\ Typed(b).metrics = b.metrics
           /\ Typed(b).lineage = b.lineage /\ Typed(b).selection = b.selection
           /\ Typed(b).resource = Native!Resolve(b.resource)
           /\ \A op : Native!Report(Typed(b)) = Described(op, b).type
BY DEF Typed, Described, Native!Report, Native!Resolve

(* A native checker that stands where the reference does.                  *)
Inside(n, branch) ==
    \/ branch = NoBranch /\ n.base = Native!NoBase /\ n.resource = Native!NoResource
    \/ /\ IsBinding(branch.base) /\ branch.resource # None
       /\ n.base = Typed(branch.base) /\ n.resource = Native!Resolve(branch.resource)
Sees(n, c, branch) ==
    /\ IsNative(n)
    /\ \A name \in DOMAIN c.env : IsBinding(c.env[name])
    /\ n.env = [name \in DOMAIN c.env |-> Typed(c.env[name])]
    /\ n.consumed = IF Native!OwnershipEnabled(n) THEN c.consumed ELSE {}
    /\ None \notin c.consumed
    /\ Inside(n, branch)

LEMMA InsideFacts ==
    ASSUME NEW n, NEW branch, Inside(n, branch)
    PROVE  /\ Native!InBranch(n) <=> branch # NoBranch
           /\ branch # NoBranch =>
                 /\ IsBinding(branch.base) /\ branch.resource # None
                 /\ n.base = Typed(branch.base) /\ n.resource = Native!Resolve(branch.resource)
           /\ branch = NoBranch => n.resource = Native!NoResource
<1>1. CASE branch = NoBranch /\ n.base = Native!NoBase /\ n.resource = Native!NoResource
  BY <1>1 DEF Native!InBranch
<1>2. CASE /\ IsBinding(branch.base) /\ branch.resource # None
           /\ n.base = Typed(branch.base) /\ n.resource = Native!Resolve(branch.resource)
  <2>1. branch # NoBranch
    BY <1>2 DEF NoBranch, Branch
  <2>2. n.base.kind \in ValueKinds /\ Native!NoBase.kind = None
    BY <1>2, TypedFacts DEF IsBinding, Native!NoBase, Native!Scalar, Native!Type
  <2>3. n.base # Native!NoBase
    BY <2>2, NoneIsNothing
  <2> QED
    BY <1>2, <2>1, <2>3 DEF Native!InBranch
<1> QED
  BY <1>1, <1>2 DEF Inside

LEMMA SeesFurther ==
    ASSUME NEW n, NEW c, NEW branch, Sees(n, c, branch), NEW m, IsNative(m),
           SameView(n, m), m.consumed = n.consumed
    PROVE  Sees(m, c, branch)
BY DEF Sees, SameView, Inside, Native!OwnershipEnabled

LEMMA SeesAfter ==
    ASSUME NEW n, NEW c, NEW branch, Sees(n, c, branch), NEW m, NEW codes, NEW rows,
           Steps(n, m, codes, rows)
    PROVE  Sees(m, c, branch) /\ IsNative(m) /\ SameView(n, m) /\ SameBooks(n, m)
<1>1. IsNative(m) /\ SameView(n, m) /\ SameBooks(n, m) /\ m.consumed = n.consumed
  BY DEF Steps, Moves, SameBooks
<1> QED
  BY <1>1, SeesFurther

LEMMA LookupTyped ==
    ASSUME NEW n, NEW c, NEW branch, Sees(n, c, branch), NEW name
    PROVE  /\ Native!TypeOfVar(n, name) = Typed(Lookup(c, name)) /\ IsBinding(Lookup(c, name))
           /\ DOMAIN n.env = DOMAIN c.env
<1>1. IsBinding(Scalar("error")) /\ Typed(Scalar("error")) = Native!Scalar("error")
  BY ScalarFacts DEF ValueKinds
<1> QED
  BY <1>1 DEF Sees, Native!TypeOfVar, Lookup

(* Numbering an expression leaves its row pending, describing it settles it.*)
LEMMA NumberFacts ==
    ASSUME NEW n, IsNative(n)
    PROVE  LET m == Native!Number(n) IN
           /\ IsNative(m) /\ SameView(n, m) /\ SameBooks(n, m)
           /\ m.errors = n.errors /\ m.nodes = n.nodes + 1 /\ m.expressions = n.expressions
BY DEF IsNative, Native!Number, SameView, SameBooks

LEMMA DescribeFacts ==
    ASSUME NEW n, IsNative(n), NEW node, NEW op, NEW type
    PROVE  LET m == Native!Describe(n, node, op, type) IN
           /\ IsNative(m) /\ SameView(n, m) /\ SameBooks(n, m)
           /\ m.errors = n.errors /\ m.nodes = n.nodes
           /\ m.expressions =
                 Append(n.expressions, [node |-> node, op |-> op, type |-> Native!Report(type)])
<1>1. PICK rows : rows = Append(n.expressions, [node |-> node, op |-> op, type |-> Native!Report(type)])
  OBVIOUS
<1>2. Native!Describe(n, node, op, type) = [n EXCEPT !.expressions = rows]
  BY <1>1 DEF Native!Describe
<1>3. LET m == [n EXCEPT !.expressions = rows] IN
      /\ IsNative(m) /\ SameView(n, m) /\ SameBooks(n, m)
      /\ m.errors = n.errors /\ m.nodes = n.nodes /\ m.expressions = rows
  BY DEF IsNative, SameView, SameBooks
<1> QED
  BY <1>1, <1>2, <1>3

LEMMA NumberedTable ==
    ASSUME NEW n, NEW types, NEW pending, Table(n, types, pending), NEW row,
           NEW m, m.nodes = n.nodes + 1, m.expressions = n.expressions
    PROVE  Table(m, types \o <<row>>, pending \cup {n.nodes})
<1>1. PICK t, k, p : t = types \o <<row>> /\ k = Len(types) /\ p = pending \cup {k}
  OBVIOUS
<1>2. k \in Nat /\ n.nodes = k /\ IsList(types) /\ pending \subseteq 0 .. k - 1
  BY <1>1, ListFacts DEF Table
<1>3. IsList(<<row>>) /\ Len(<<row>>) = 1
  BY OneItem
<1>4. IsList(t) /\ Len(t) = k + 1 /\ \A i \in 1 .. k : t[i] = types[i]
  <2>1. \A i \in 1 .. k : i \in 1 .. k + 1 /\ i <= k
    BY <1>2
  <2> QED
    BY <1>1, <1>2, <1>3, <2>1, ConcatFacts
<1>5. IsFiniteSet(pending) /\ k \notin pending
  <2>1. IsFiniteSet(0 .. k - 1) /\ k \notin 0 .. k - 1
    BY <1>2, FS_Interval
  <2> QED
    BY <1>2, <2>1, FS_Subset
<1>6. Cardinality(p) = Cardinality(pending) + 1 /\ Cardinality(pending) \in Nat
  BY <1>1, <1>5, FS_AddElement, FS_CardinalityType
<1>7. p \subseteq 0 .. (k + 1) - 1
  BY <1>1, <1>2
<1>8. Len(m.expressions) + Cardinality(p) = m.nodes
  <2>1. Len(n.expressions) + Cardinality(pending) = k /\ Len(n.expressions) \in Nat
    BY <1>2, ListFacts DEF Table
  <2> QED
    BY <1>2, <1>6, <2>1
<1>9. ASSUME NEW i
      PROVE  i \in 1 .. k + 1 /\ i - 1 \notin p <=> i \in 1 .. k /\ i - 1 \notin pending
  BY <1>1, <1>2
<1>10. \A i \in 1 .. k : Entry(t, i) = Entry(types, i)
  BY <1>4 DEF Entry
<1>11. \A x : x \in ToSet(m.expressions) <=>
                 \E i \in 1 .. m.nodes : i - 1 \notin p /\ x = Entry(t, i)
  <2>1. \A x : x \in ToSet(n.expressions) <=>
                 \E i \in 1 .. k : i - 1 \notin pending /\ x = Entry(types, i)
    BY <1>2 DEF Table
  <2>2. m.expressions = n.expressions /\ m.nodes = k + 1
    BY <1>2
  <2> QED
    BY <1>9, <1>10, <2>1, <2>2
<1>12. Table(m, t, p)
  <2>1. IsList(m.expressions) /\ m.nodes = Len(t) /\ p \subseteq 0 .. m.nodes - 1
    BY <1>2, <1>4, <1>7 DEF Table
  <2> QED
    BY <1>4, <1>8, <1>11, <2>1 DEF Table
<1> QED
  BY <1>1, <1>2, <1>12

LEMMA DescribedTable ==
    ASSUME NEW n, NEW types, NEW pending, Table(n, types, pending), NEW node \in pending,
           NEW m, m.nodes = n.nodes,
           m.expressions = Append(n.expressions, Entry(types, node + 1))
    PROVE  Table(m, types, pending \ {node})
<1>1. PICK k, p, row, list :
          /\ k = Len(types) /\ p = pending \ {node} /\ row = Entry(types, node + 1)
          /\ list = n.expressions
  OBVIOUS
<1>2. k \in Nat /\ n.nodes = k /\ IsList(types) /\ pending \subseteq 0 .. k - 1 /\ IsList(list)
  BY <1>1, ListFacts DEF Table
<1>3. IsFiniteSet(pending)
  <2>1. IsFiniteSet(0 .. k - 1)
    BY <1>2, FS_Interval
  <2> QED
    BY <1>2, <2>1, FS_Subset
<1>4. Cardinality(p) = Cardinality(pending) - 1 /\ Cardinality(pending) \in Nat
  BY <1>1, <1>3, FS_RemoveElement, FS_CardinalityType
<1>5. /\ IsList(m.expressions) /\ Len(m.expressions) = Len(list) + 1
      /\ ToSet(m.expressions) = ToSet(list) \cup {row}
  <2>1. m.expressions = list \o <<row>>
    BY <1>1, <1>2, OneItem
  <2>2. PICK one : one = <<row>>
    OBVIOUS
  <2>3. IsList(one) /\ Len(one) = 1 /\ ToSet(one) = {row}
    BY <2>2, OneItem
  <2> QED
    BY <1>2, <2>1, <2>2, <2>3, ConcatFacts
<1>6. Len(m.expressions) + Cardinality(p) = m.nodes
  <2>1. Len(list) + Cardinality(pending) = k /\ Len(list) \in Nat
    BY <1>1, <1>2, ListFacts DEF Table
  <2> QED
    BY <1>2, <1>4, <1>5, <2>1
<1>7. node + 1 \in 1 .. k /\ node \in Int /\ (node + 1) - 1 = node
  BY <1>2
<1>8. ASSUME NEW i \in 1 .. k
      PROVE  i - 1 \notin p <=> i - 1 \notin pending \/ i = node + 1
  BY <1>1, <1>7
<1>9. \A x : x \in ToSet(m.expressions) <=>
                 \E i \in 1 .. m.nodes : i - 1 \notin p /\ x = Entry(types, i)
  <2>1. \A x : x \in ToSet(list) <=>
                 \E i \in 1 .. k : i - 1 \notin pending /\ x = Entry(types, i)
    BY <1>1, <1>2 DEF Table
  <2>2. m.nodes = k
    BY <1>2
  <2> QED
    BY <1>1, <1>5, <1>7, <1>8, <2>1, <2>2
<1>10. p \subseteq 0 .. m.nodes - 1
  BY <1>1, <1>2
<1>11. Table(m, types, p)
  BY <1>2, <1>1, <1>5, <1>6, <1>9, <1>10 DEF Table
<1> QED
  BY <1>1, <1>11

(* An expression that is numbered, looked at and described.                *)
LEMMA WholeExpression ==
    ASSUME NEW n, IsNative(n), NEW v, NEW codes, NEW rows,
           Moves(Native!Number(n), v, codes, rows),
           NEW op, NEW type, NEW b, Native!Report(type) = Described(op, b).type
    PROVE  LET m == Native!Describe(v, n.nodes, op, type) IN
           /\ Moves(n, m, codes, <<Described(op, b)>> \o rows) /\ SameBooks(v, m)
<1>1. PICK a, m, own, one : /\ a = Native!Number(n) /\ own = Described(op, b) /\ one = <<own>>
                            /\ m = Native!Describe(v, n.nodes, op, type)
  OBVIOUS
<1>2. /\ SameView(n, a) /\ a.errors = n.errors /\ a.nodes = n.nodes + 1
      /\ a.expressions = n.expressions
  BY <1>1, NumberFacts
<1>3. IsNative(v) /\ SameView(a, v) /\ Adds(a, v, codes) /\ Lays(a, v, rows)
  BY <1>1 DEF Moves
<1>4. /\ IsNative(m) /\ SameView(v, m) /\ SameBooks(v, m)
      /\ m.errors = v.errors /\ m.nodes = v.nodes
      /\ m.expressions =
            Append(v.expressions, [node |-> n.nodes, op |-> op, type |-> Native!Report(type)])
  BY <1>1, <1>3, DescribeFacts
<1>5. own.op = op /\ own.type = Native!Report(type)
  BY <1>1 DEF Described
<1>6. SameView(n, m)
  BY <1>2, <1>3, <1>4 DEF SameView
<1>7. Adds(n, m, codes)
  <2>1. ASSUME NEW told, IsList(told), Told(n, told) PROVE Told(m, told \o codes)
    <3>1. Told(a, told)
      BY <1>2, <2>1 DEF Told, SameView
    <3>2. Told(v, told \o codes)
      BY <1>3, <2>1, <3>1 DEF Adds
    <3> QED
      BY <1>4, <3>2 DEF Told, SameView
  <2> QED
    BY <1>3, <2>1 DEF Adds
<1>8. IsList(rows) /\ IsList(one) /\ Len(one) = 1 /\ one[1] = own
  BY <1>1, <1>3, OneItem DEF Lays
<1>9. ASSUME NEW types, NEW pending, Table(n, types, pending)
      PROVE  Table(m, types \o (one \o rows), pending)
  <2>1. PICK s, t, p : s = types \o one /\ t = s \o rows /\ p = pending \cup {n.nodes}
    OBVIOUS
  <2>2. Table(a, s, p)
    BY <1>1, <1>2, <1>9, <2>1, NumberedTable
  <2>3. Table(v, t, p)
    BY <1>3, <2>1, <2>2 DEF Lays
  <2>4. IsList(types) /\ n.nodes = Len(types) /\ n.nodes \in Nat /\ pending \subseteq 0 .. n.nodes - 1
    BY <1>9, ListFacts DEF Table
  <2>5. IsList(s) /\ Len(s) = n.nodes + 1 /\ s[n.nodes + 1] = own
    <3>1. n.nodes + 1 \in 1 .. n.nodes + 1 /\ ~(n.nodes + 1 <= n.nodes) /\ (n.nodes + 1) - n.nodes = 1
      BY <2>4
    <3>2. /\ IsList(s) /\ Len(s) = Len(types) + Len(one)
          /\ \A i \in 1 .. Len(types) + Len(one) :
                s[i] = IF i <= Len(types) THEN types[i] ELSE one[i - Len(types)]
      BY <1>8, <2>1, <2>4, ConcatFacts
    <3> QED
      BY <1>8, <2>4, <3>1, <3>2
  <2>6. t[n.nodes + 1] = own
    <3>1. Len(rows) \in Nat
      BY <1>8, ListFacts
    <3>2. n.nodes + 1 \in 1 .. Len(s) + Len(rows) /\ n.nodes + 1 <= Len(s)
      BY <2>4, <2>5, <3>1
    <3> QED
      BY <1>8, <2>1, <2>5, <3>2, ConcatFacts
  <2>7. m.expressions = Append(v.expressions, Entry(t, n.nodes + 1))
    <3>1. (n.nodes + 1) - 1 = n.nodes
      BY <2>4
    <3> QED
      BY <1>4, <1>5, <2>6, <3>1 DEF Entry
  <2>8. Table(m, t, p \ {n.nodes})
    BY <1>4, <2>1, <2>3, <2>7, DescribedTable
  <2>9. p \ {n.nodes} = pending
    <3>1. n.nodes \notin 0 .. n.nodes - 1
      BY <2>4
    <3> QED
      BY <2>1, <2>4, <3>1
  <2>10. t = types \o (one \o rows)
    BY <1>8, <2>1, <2>4, ConcatAgain
  <2> QED
    BY <2>8, <2>9, <2>10
<1>10. Lays(n, m, one \o rows)
  BY <1>8, <1>9, ConcatFacts DEF Lays
<1> QED
  BY <1>1, <1>4, <1>6, <1>7, <1>10 DEF Moves

LEMMA VariableSteps ==
    ASSUME NEW n, NEW c, NEW branch, Sees(n, c, branch), NEW name
    PROVE  Steps(n, Native!Variable(n, name), ReadErrors(c, name), <<>>)
<1>1. PICK a, m, f, g :
          /\ a = Native!ErrorIf(n, "F3004", name \notin DOMAIN n.env)
          /\ m = Native!Variable(n, name)
          /\ f = Flag("F3004", name \notin DOMAIN c.env)
          /\ g = Flag("F3400", Lookup(c, name).selection \in c.consumed)
  OBVIOUS
<1>2. IsNative(n) /\ DOMAIN n.env = DOMAIN c.env
  BY LookupTyped DEF Sees
<1>3. Steps(n, a, f, <<>>)
  <2>1. "F3004" \in Plain
    BY DEF Plain
  <2> QED
    BY <1>1, <1>2, <2>1, PlainError
<1>4. IsNative(a) /\ SameView(n, a) /\ SameBooks(n, a)
  BY <1>3 DEF Steps, Moves
<1>5. Sees(a, c, branch)
  BY <1>4, SeesFurther DEF SameBooks
<1>6. PICK spent : spent = (/\ Native!OwnershipEnabled(n)
                            /\ Native!TypeOfVar(n, name).selection # None
                            /\ Native!TypeOfVar(n, name).selection \in n.consumed)
  OBVIOUS
<1>7. m = Native!ErrorIf(a, "F3400", spent)
  BY <1>1, <1>6 DEF Native!Variable
<1>8. spent <=> Native!OwnershipEnabled(a) /\ Lookup(c, name).selection \in c.consumed
  <2>1. Native!TypeOfVar(n, name).selection = Lookup(c, name).selection
    BY LookupTyped, TypedFacts
  <2>2. Native!OwnershipEnabled(a) <=> Native!OwnershipEnabled(n)
    BY <1>4 DEF Native!OwnershipEnabled, SameView
  <2>3. Native!OwnershipEnabled(n) => n.consumed = c.consumed
    BY DEF Sees
  <2>4. None \notin c.consumed
    BY DEF Sees
  <2> QED
    BY <1>6, <2>1, <2>2, <2>3, <2>4
<1>9. Steps(a, m, g, <<>>)
  <2>1. "F3400" \in Ownership
    BY DEF Ownership
  <2> QED
    BY <1>1, <1>4, <1>7, <1>8, <2>1, OwnershipError
<1>10. Moves(n, m, f \o g, <<>>)
  BY <1>3, <1>9, NotedAfter DEF Steps
<1>11. SameBooks(n, m)
  BY <1>4, <1>9 DEF Steps, SameBooks
<1>12. ReadErrors(c, name) = f \o g
  BY <1>1 DEF ReadErrors
<1> QED
  BY <1>1, <1>10, <1>11, <1>12 DEF Steps

LEMMA ReadSteps ==
    ASSUME NEW n, NEW c, NEW branch, Sees(n, c, branch), NEW name
    PROVE  Steps(n, Native!Read(n, name), ReadErrors(c, name), <<Described("var", Lookup(c, name))>>)
<1>1. PICK a, v, type, m :
          /\ a = Native!Number(n) /\ v = Native!Variable(a, name)
          /\ type = Native!TypeOfVar(n, name)
          /\ m = Native!Describe(v, n.nodes, "var", type)
  OBVIOUS
<1>2. Native!Read(n, name) = m
  BY <1>1 DEF Native!Read
<1>3. IsNative(n) /\ IsNative(a) /\ SameView(n, a) /\ SameBooks(n, a)
  BY <1>1, NumberFacts DEF Sees
<1>4. Sees(a, c, branch)
  BY <1>3, SeesFurther DEF SameBooks
<1>5. Steps(a, v, ReadErrors(c, name), <<>>)
  BY <1>1, <1>4, VariableSteps
<1>6. Native!Report(type) = Described("var", Lookup(c, name)).type
  BY <1>1, LookupTyped, TypedFacts
<1>7. PICK one : one = <<Described("var", Lookup(c, name))>>
  OBVIOUS
<1>8. Moves(n, m, ReadErrors(c, name), one \o <<>>) /\ SameBooks(v, m)
  BY <1>1, <1>3, <1>5, <1>6, <1>7, WholeExpression DEF Steps
<1>9. one \o <<>> = one
  BY <1>7, OneItem, ConcatEmpty
<1>10. SameBooks(n, m)
  BY <1>3, <1>5, <1>8 DEF Steps, SameBooks
<1> QED
  BY <1>2, <1>7, <1>8, <1>9, <1>10 DEF Steps

LEMMA LiteralSteps ==
    ASSUME NEW n, IsNative(n), NEW kind
    PROVE  Steps(n, Native!Literal(n, kind), <<>>, <<Described(kind, Scalar(kind))>>)
<1>1. PICK a, type, m :
          /\ a = Native!Number(n) /\ type = Native!Scalar(kind)
          /\ m = Native!Describe(a, n.nodes, kind, type)
  OBVIOUS
<1>2. Native!Literal(n, kind) = m
  BY <1>1 DEF Native!Literal
<1>3. IsNative(a) /\ SameView(n, a) /\ SameBooks(n, a)
  BY <1>1, NumberFacts
<1>4. Moves(a, a, <<>>, <<>>)
  BY <1>3, NothingMoves DEF Steps
<1>5. Native!Report(type) = Described(kind, Scalar(kind)).type
  BY <1>1, ScalarFacts, TypedFacts
<1>6. PICK one : one = <<Described(kind, Scalar(kind))>>
  OBVIOUS
<1>7. Moves(n, m, <<>>, one \o <<>>) /\ SameBooks(a, m)
  BY <1>1, <1>4, <1>5, <1>6, WholeExpression
<1>8. one \o <<>> = one
  BY <1>6, OneItem, ConcatEmpty
<1>9. SameBooks(n, m)
  BY <1>3, <1>7 DEF SameBooks
<1> QED
  BY <1>2, <1>6, <1>7, <1>8, <1>9 DEF Steps

LEMMA OriginSteps ==
    ASSUME NEW n, IsNative(n), NEW left, NEW right
    PROVE  Steps(n, Native!SameOrigin(n, Typed(left), Typed(right)),
                 Flag("F3301", ~SameOrigin(left, right)), <<>>)
<1>1. PICK apart : apart = (/\ Native!LineageEnabled(n)
                            /\ (\/ Typed(left).resource # Typed(right).resource
                                \/ Typed(left).lineage # Typed(right).lineage))
  OBVIOUS
<1>2. Native!SameOrigin(n, Typed(left), Typed(right)) = Native!ErrorIf(n, "F3301", apart)
  BY <1>1 DEF Native!SameOrigin
<1>3. apart <=> Native!LineageEnabled(n) /\ ~SameOrigin(left, right)
  BY <1>1, TypedFacts, ResourceFacts DEF SameOrigin
<1>4. "F3301" \in Lineage
  BY DEF Lineage
<1> QED
  BY <1>2, <1>3, <1>4, LineageError

-----------------------------------------------------------------------------
(* What both have in common, and rows of operands.                         *)
LEMMA SameLanguage ==
    /\ Native!Methods = Methods /\ Native!Result = Result /\ Native!Arity = Arity
    /\ Native!States = States /\ Native!BranchForbidden = BranchForbidden
    /\ Native!TypeNames = TypeNames /\ Native!Unplaced = Unplaced
    /\ \A s : Native!ToSet(s) = ToSet(s)
    /\ \A body : Native!MetricsOf(body) = MetricsOf(body)
    /\ \A body : Native!Simulations(body) = Simulations(body)
    /\ \A body, i : Native!Measured(body, i) = Measured(body, i)
<1>1. /\ Native!Methods = Methods /\ Native!Result = Result /\ Native!Arity = Arity
      /\ Native!States = States /\ Native!BranchForbidden = BranchForbidden
      /\ Native!TypeNames = TypeNames /\ Native!Unplaced = Unplaced
  BY DEF Native!Methods, Methods, Native!Result, Result, Native!Arity, Arity, Native!States,
         States, Native!BranchForbidden, BranchForbidden, Native!TypeNames, TypeNames,
         Native!Unplaced, Unplaced
<1>2. \A s : Native!ToSet(s) = ToSet(s)
  BY DEF Native!ToSet, ToSet
<1>3. \A body : Native!MetricsOf(body) = MetricsOf(body)
  BY DEF Native!MetricsOf, MetricsOf, Native!Named, Named, Native!FlattenSeq, FlattenSeq
<1>4. \A body : Native!Simulations(body) = Simulations(body)
  <2>1. \A body, op : Native!Having(body, op) = Having(body, op)
    BY DEF Native!Having, Having
  <2>2. \A body : Native!Nested(body) = Nested(body)
    BY <2>1 DEF Native!Nested, Nested
  <2> QED
    BY <2>1, <2>2 DEF Native!Simulations, Simulations, Native!Cardinality, Cardinality
<1>5. \A body, i : Native!Measured(body, i) = Measured(body, i)
  BY <1>2, <1>3 DEF Native!Measured, Measured
<1> QED
  BY <1>1, <1>2, <1>3, <1>4, <1>5

OperandRows(c, names) == [i \in DOMAIN names |-> Described("var", Lookup(c, names[i]))]
LiteralRows(kinds) == [i \in DOMAIN kinds |-> Described(kinds[i], Scalar(kinds[i]))]
LEMMA RowsFacts ==
    ASSUME NEW c
    PROVE  /\ OperandRows(c, <<>>) = <<>> /\ LiteralRows(<<>>) = <<>>
           /\ \A a : OperandRows(c, <<a>>) = <<Described("var", Lookup(c, a))>>
           /\ \A a, b : OperandRows(c, <<a, b>>) =
                           <<Described("var", Lookup(c, a))>> \o <<Described("var", Lookup(c, b))>>
           /\ \A a, b : LiteralRows(<<a, b>>) =
                           <<Described(a, Scalar(a))>> \o <<Described(b, Scalar(b))>>
<1>1. OperandRows(c, <<>>) = <<>> /\ LiteralRows(<<>>) = <<>>
  BY DEF OperandRows, LiteralRows
<1>2. \A a : OperandRows(c, <<a>>) = <<Described("var", Lookup(c, a))>>
  BY DEF OperandRows
<1>3. ASSUME NEW x, NEW y PROVE <<x>> \o <<y>> = <<x, y>>
  <2>1. PICK a, b, l, t : a = <<x>> /\ b = <<y>> /\ l = a \o b /\ t = <<x, y>>
    OBVIOUS
  <2>2. IsList(a) /\ Len(a) = 1 /\ a[1] = x /\ IsList(b) /\ Len(b) = 1 /\ b[1] = y
    BY <2>1, OneItem
  <2>3. IsList(l) /\ Len(l) = 2 /\ \A i \in 1 .. 2 : l[i] = IF i <= 1 THEN a[i] ELSE b[i - 1]
    <3>1. /\ IsList(l) /\ Len(l) = Len(a) + Len(b)
          /\ \A i \in 1 .. Len(a) + Len(b) : l[i] = IF i <= Len(a) THEN a[i] ELSE b[i - Len(a)]
      <4>1. /\ IsList(a \o b) /\ Len(a \o b) = Len(a) + Len(b)
            /\ \A i \in 1 .. Len(a) + Len(b) :
                  (a \o b)[i] = IF i <= Len(a) THEN a[i] ELSE b[i - Len(a)]
        BY <2>2, ConcatFacts
      <4> QED
        BY <2>1, <4>1
    <3> QED
      BY <2>2, <3>1
  <2>4. IsList(t) /\ Len(t) = 2 /\ t[1] = x /\ t[2] = y
    BY <2>1 DEF IsList, ToSet
  <2>5. l[1] = x /\ l[2] = y
    BY <2>2, <2>3
  <2>6. \A i \in 1 .. 2 : i = 1 \/ i = 2
    OBVIOUS
  <2>7. l = t
    BY <2>3, <2>4, <2>5, <2>6, SameList
  <2> QED
    BY <2>1, <2>7
<1>4. \A a, b : OperandRows(c, <<a, b>>) = <<Described("var", Lookup(c, a)), Described("var", Lookup(c, b))>>
  BY DEF OperandRows
<1>5. \A a, b : LiteralRows(<<a, b>>) = <<Described(a, Scalar(a)), Described(b, Scalar(b))>>
  BY DEF LiteralRows
<1>6. ASSUME NEW a, NEW b
      PROVE  OperandRows(c, <<a, b>>) =
                <<Described("var", Lookup(c, a))>> \o <<Described("var", Lookup(c, b))>>
  <2>1. PICK x, y : x = Described("var", Lookup(c, a)) /\ y = Described("var", Lookup(c, b))
    OBVIOUS
  <2>2. <<x>> \o <<y>> = <<x, y>>
    BY <1>3
  <2> QED
    BY <1>4, <2>1, <2>2
<1>7. ASSUME NEW a, NEW b
      PROVE  LiteralRows(<<a, b>>) = <<Described(a, Scalar(a))>> \o <<Described(b, Scalar(b))>>
  <2>1. PICK x, y : x = Described(a, Scalar(a)) /\ y = Described(b, Scalar(b))
    OBVIOUS
  <2>2. <<x>> \o <<y>> = <<x, y>>
    BY <1>3
  <2> QED
    BY <1>5, <2>1, <2>2
<1> QED
  BY <1>1, <1>2, <1>6, <1>7

LEMMA OperandRowsList ==
    ASSUME NEW c, NEW names, IsList(names)
    PROVE  IsList(OperandRows(c, names)) /\ Len(OperandRows(c, names)) = Len(names)
<1>1. PICK n, f : n = Len(names) /\ f = OperandRows(c, names)
  OBVIOUS
<1>2. n \in Nat /\ f = [i \in 1 .. n |-> f[i]]
  BY <1>1, ListFacts DEF OperandRows
<1> QED
  BY <1>1, <1>2, ListOf

LEMMA FlattenOne ==
    ASSUME NEW s, IsList(s)
    PROVE  FlattenSeq(<<s>>) = s
<1>1. PICK l : l = <<s>>
  OBVIOUS
<1>2. IsList(l) /\ Len(l) = 1 /\ l[1] = s
  BY <1>1, OneItem
<1>3. Lists(l)
  BY <1>2 DEF Lists
<1>4. 0 \in 0 .. 1 - 1 /\ 0 + 1 = 1
  OBVIOUS
<1>5. Joined(l, 0 + 1) = Joined(l, 0) \o l[0 + 1] /\ Joined(l, 0) = <<>> /\ Joined(l, 1) = FlattenSeq(l)
  BY <1>2, <1>3, <1>4, JoinedFacts
<1>6. <<>> \o s = s
  BY ConcatEmpty
<1> QED
  BY <1>1, <1>2, <1>4, <1>5, <1>6

(* The loops of both checkers, each of which makes one checker after the   *)
(* other: reading operands, comparing their origins, reporting a code so   *)
(* many times, and going through a body at one of the levels.              *)
Twice(e, i) == e.body[i].kind = "measure" /\ e.body[i].name \in Measured(e.body, i)
AtLevel(level, c, s, branch) ==
    CASE level = 1 -> InnerStatement(c, s, branch)
      [] level = 2 -> BranchStatement(c, s, branch)
      [] level = 3 -> StatementWith(CheckBody, c, s, branch)
NativeAtLevel(level, n, s) ==
    CASE level = 1 -> Native!Innermost(n, s)
      [] level = 2 -> Native!BranchStatement(n, s)
      [] level = 3 -> Native!Statement(n, s)
Goes(loop, x, i) ==
    CASE loop.of = "reads" -> Native!Read(x, loop.names[i])
      [] loop.of = "origins" ->
            Native!ArgumentOrigin(x, loop.e, Native!TypeOfVar(loop.n, loop.e.args[i]))
      [] loop.of = "errors" -> Native!Error(x, loop.code)
      [] loop.of = "native" ->
            Native!ErrorIf(NativeAtLevel(loop.level, x, loop.e.body[i]), "F3209", Twice(loop.e, i))
      [] loop.of = "reference" ->
            Reported(AtLevel(loop.level, x, loop.e.body[i], loop.branch),
                     Flag("F3209", Twice(loop.e, i)))
Looped(loop, start, f, k) ==
    f = [i \in 0 .. k |-> IF i = 0 THEN start ELSE Goes(loop, f[i - 1], i)]
LEMMA Loops ==
    ASSUME NEW loop, NEW start, NEW n \in Nat
    PROVE  \E f : Looped(loop, start, f, n)
<1> DEFINE S == {k \in 0 .. n : \E f : Looped(loop, start, f, k)}
<1>1. 0 \in S
  <2>1. PICK f : f = [i \in 0 .. 0 |-> start]
    OBVIOUS
  <2>2. f = [i \in 0 .. 0 |-> IF i = 0 THEN start ELSE Goes(loop, f[i - 1], i)]
    BY <2>1
  <2> QED
    BY <2>2 DEF Looped
<1>2. ASSUME NEW k \in 0 .. n - 1, k \in S PROVE k + 1 \in S
  <2>1. PICK f : Looped(loop, start, f, k)
    BY <1>2
  <2>2. PICK x : x = Goes(loop, f[k], k + 1)
    OBVIOUS
  <2>3. k \in Nat
    OBVIOUS
  <2>4. PICK g : g = [i \in 0 .. k + 1 |-> IF i = k + 1 THEN x ELSE f[i]]
    OBVIOUS
  <2>5. g = [i \in 0 .. k + 1 |-> g[i]] /\ (\A i \in 0 .. k : g[i] = f[i]) /\ g[k + 1] = x
    <3>1. g = [i \in 0 .. k + 1 |-> g[i]]
      BY <2>4
    <3>2. g[k + 1] = x
      BY <2>3, <2>4
    <3>3. \A i \in 0 .. k : i # k + 1 /\ i \in 0 .. k + 1
      BY <2>3
    <3>4. \A i \in 0 .. k : g[i] = f[i]
      BY <2>4, <3>3
    <3> QED
      BY <3>1, <3>2, <3>4
  <2>6. ASSUME NEW i \in 0 .. k + 1
        PROVE  g[i] = IF i = 0 THEN start ELSE Goes(loop, g[i - 1], i)
    <3>1. CASE i = k + 1
      <4>1. i # 0 /\ i - 1 = k /\ k \in 0 .. k
        BY <3>1
      <4>2. g[k] = f[k]
        BY <2>5, <4>1
      <4> QED
        BY <2>2, <2>5, <3>1, <4>1, <4>2
    <3>2. CASE i # k + 1
      <4>1. i \in 0 .. k /\ (i # 0 => i - 1 \in 0 .. k)
        BY <3>2
      <4>2. g[i] = f[i] /\ (i # 0 => g[i - 1] = f[i - 1])
        BY <2>5, <4>1
      <4>3. f[i] = IF i = 0 THEN start ELSE Goes(loop, f[i - 1], i)
        BY <2>1, <4>1 DEF Looped
      <4> QED
        BY <4>2, <4>3
    <3> QED
      BY <3>1, <3>2
  <2>7. Looped(loop, start, g, k + 1)
    BY <2>5, <2>6 DEF Looped
  <2> QED
    BY <2>7
<1>3. \A i \in 0 .. n : i \in S
  <2> HIDE DEF S
  <2> QED
    BY <1>1, <1>2, Climbs
<1> QED
  BY <1>3

LEMMA LoopFacts ==
    ASSUME NEW loop, NEW start, NEW n \in Nat, NEW f, Looped(loop, start, f, n)
    PROVE  f[0] = start /\ \A i \in 0 .. n - 1 : f[i + 1] = Goes(loop, f[i], i + 1)
<1>1. f[0] = start
  BY DEF Looped
<1>2. ASSUME NEW i \in 0 .. n - 1 PROVE f[i + 1] = Goes(loop, f[i], i + 1)
  <2>1. i + 1 \in 0 .. n /\ i + 1 # 0 /\ (i + 1) - 1 = i
    OBVIOUS
  <2> QED
    BY <2>1 DEF Looped
<1> QED
  BY <1>1, <1>2

LEMMA ReadsSteps ==
    ASSUME NEW n, NEW c, NEW branch, Sees(n, c, branch), NEW names, IsList(names)
    PROVE  Steps(n, Native!Reads(n, names),
                 FlattenSeq([i \in DOMAIN names |-> ReadErrors(c, names[i])]),
                 OperandRows(c, names))
<1>1. PICK k, codes, rows, each, loop :
          /\ k = Len(names) /\ codes = [i \in DOMAIN names |-> ReadErrors(c, names[i])]
          /\ rows = OperandRows(c, names) /\ each = [i \in 1 .. Len(rows) |-> <<rows[i]>>]
          /\ loop = [of |-> "reads", names |-> names]
  OBVIOUS
<1>2. k \in Nat /\ DOMAIN names = 1 .. k
  BY <1>1, ListFacts
<1>3. Lists(codes) /\ Len(codes) = k /\ \A i \in 1 .. k : codes[i] = ReadErrors(c, names[i])
  <2>1. codes = [i \in 1 .. k |-> codes[i]] /\ \A i \in 1 .. k : codes[i] = ReadErrors(c, names[i])
    BY <1>1, <1>2
  <2>2. IsList(codes) /\ Len(codes) = k
    BY <1>2, <2>1, ListOf
  <2>3. \A name : IsList(ReadErrors(c, name))
    BY FlagFacts, ConcatFacts DEF ReadErrors
  <2> QED
    BY <2>1, <2>2, <2>3 DEF Lists
<1>4. /\ IsList(rows) /\ Len(rows) = k
      /\ \A i \in 1 .. k : rows[i] = Described("var", Lookup(c, names[i]))
  BY <1>1, <1>2, OperandRowsList DEF OperandRows
<1>5. Lists(each) /\ FlattenSeq(each) = rows /\ Len(each) = k /\ \A i \in 1 .. k : each[i] = <<rows[i]>>
  <2>1. Lists(each) /\ FlattenSeq(each) = rows
    BY <1>1, <1>4, Singles
  <2>2. each = [i \in 1 .. k |-> <<rows[i]>>]
    BY <1>1, <1>4
  <2>3. Len(each) = k
    BY <1>2, <2>2, ListOf
  <2> QED
    BY <2>1, <2>2, <2>3
<1>6. PICK h : h = CHOOSE f : f = [i \in 0 .. k |-> IF i = 0 THEN n ELSE Native!Read(f[i - 1], names[i])]
  OBVIOUS
<1>7. h[0] = n /\ \A i \in 0 .. k - 1 : h[i + 1] = Native!Read(h[i], names[i + 1])
  <2>1. \A x, i : Goes(loop, x, i) = Native!Read(x, names[i])
    BY <1>1 DEF Goes
  <2>2. \E f : f = [i \in 0 .. k |-> IF i = 0 THEN n ELSE Native!Read(f[i - 1], names[i])]
    <3>1. PICK g : Looped(loop, n, g, k)
      BY <1>2, Loops
    <3> QED
      BY <1>1, <3>1 DEF Looped, Goes
  <2>3. Looped(loop, n, h, k)
    BY <1>6, <2>1, <2>2 DEF Looped
  <2>4. h[0] = n /\ \A i \in 0 .. k - 1 : h[i + 1] = Goes(loop, h[i], i + 1)
    <3>1. k \in Nat
      BY <1>2
    <3> QED
      BY <2>3, <3>1, LoopFacts
  <2> QED
    BY <2>1, <2>4
<1>8. Native!Reads(n, names) = h[k]
  BY <1>1, <1>6 DEF Native!Reads
<1> DEFINE S == {i \in 0 .. k : Steps(n, h[i], Joined(codes, i), Joined(each, i))}
<1>9. 0 \in S
  <2>1. Joined(codes, 0) = <<>> /\ Joined(each, 0) = <<>>
    BY <1>3, <1>5, JoinedFacts
  <2>2. Steps(n, n, <<>>, <<>>)
    BY NothingMoves DEF Sees
  <2> QED
    BY <1>2, <1>7, <2>1, <2>2
<1>10. ASSUME NEW i \in 0 .. k - 1, i \in S PROVE i + 1 \in S
  <2>1. PICK a, x, m : a = Joined(codes, i) /\ x = Joined(each, i) /\ m = h[i]
    OBVIOUS
  <2>2. Steps(n, m, a, x) /\ Sees(m, c, branch)
    BY <1>10, <2>1, SeesAfter
  <2>3. i + 1 \in 1 .. k /\ i + 1 \in 0 .. k
    BY <1>2
  <2>4. Steps(m, h[i + 1], ReadErrors(c, names[i + 1]), <<rows[i + 1]>>)
    BY <1>4, <1>7, <2>1, <2>2, <2>3, ReadSteps
  <2>5. Moves(n, h[i + 1], a \o ReadErrors(c, names[i + 1]), x \o <<rows[i + 1]>>)
    BY <2>2, <2>4, MovesFurther DEF Steps
  <2>6. SameBooks(n, h[i + 1])
    BY <2>2, <2>4 DEF Steps, SameBooks
  <2>7. /\ Joined(codes, i + 1) = a \o ReadErrors(c, names[i + 1])
        /\ Joined(each, i + 1) = x \o <<rows[i + 1]>>
    <3>1. Joined(codes, i + 1) = Joined(codes, i) \o codes[i + 1]
      BY <1>3, JoinedFacts
    <3>2. Joined(each, i + 1) = Joined(each, i) \o each[i + 1]
      BY <1>5, JoinedFacts
    <3> QED
      BY <1>3, <1>5, <2>1, <2>3, <3>1, <3>2
  <2> QED
    BY <2>3, <2>5, <2>6, <2>7 DEF Steps
<1>11. \A i \in 0 .. k : i \in S
  <2> HIDE DEF S
  <2> QED
    BY <1>2, <1>9, <1>10, Climbs
<1>12. k \in 0 .. k
  BY <1>2
<1>13. Steps(n, h[k], FlattenSeq(codes), FlattenSeq(each))
  BY <1>3, <1>5, <1>11, <1>12, JoinedFacts
<1> QED
  BY <1>1, <1>5, <1>8, <1>13

LEMMA ArgumentSteps ==
    ASSUME NEW n, NEW c, NEW branch, Sees(n, c, branch), NEW e, NEW arg
    PROVE  Steps(n, Native!ArgumentOrigin(n, e, Typed(arg)), ArgumentErrors(c, e, branch, arg), <<>>)
<1>1. PICK first, wrong, a, b, m :
          /\ first = Lookup(c, e.args[1])
          /\ wrong = (/\ Native!LineageEnabled(n)
                      /\ Typed(arg).resource # Native!Resolve(e.target))
          /\ a = Native!ErrorIf(n, "F3301", wrong)
          /\ b = Native!SameOrigin(a, Typed(arg), Typed(first))
          /\ m = IF Native!InBranch(n) THEN Native!SameOrigin(b, Typed(arg), n.base) ELSE b
  OBVIOUS
<1>2. Native!ArgumentOrigin(n, e, Typed(arg)) = m
  BY <1>1, LookupTyped DEF Native!ArgumentOrigin
<1>3. PICK f, g, k :
          /\ f = Flag("F3301", arg.resource # e.target)
          /\ g = Flag("F3301", ~SameOrigin(arg, first))
          /\ k = Flag("F3301", branch # NoBranch /\ ~SameOrigin(arg, branch.base))
  OBVIOUS
<1>4. ArgumentErrors(c, e, branch, arg) = (f \o g) \o k
  BY <1>1, <1>3 DEF ArgumentErrors
<1>5. IsNative(n) /\ Inside(n, branch)
  BY DEF Sees
<1>6. Steps(n, a, f, <<>>)
  <2>1. wrong <=> Native!LineageEnabled(n) /\ arg.resource # e.target
    BY <1>1, TypedFacts, ResourceFacts
  <2>2. "F3301" \in Lineage
    BY DEF Lineage
  <2> QED
    BY <1>1, <1>3, <1>5, <2>1, <2>2, LineageError
<1>7. Steps(a, b, g, <<>>)
  <2>1. IsNative(a)
    BY <1>6 DEF Steps, Moves
  <2> QED
    BY <1>1, <1>3, <2>1, OriginSteps
<1>8. Steps(b, m, k, <<>>)
  <2>1. IsNative(b)
    BY <1>7 DEF Steps, Moves
  <2>2. CASE branch # NoBranch
    <3>1. m = Native!SameOrigin(b, Typed(arg), Typed(branch.base))
      BY <1>1, <1>5, <2>2, InsideFacts
    <3>2. k = Flag("F3301", ~SameOrigin(arg, branch.base))
      BY <1>3, <2>2 DEF Flag
    <3> QED
      BY <2>1, <3>1, <3>2, OriginSteps
  <2>3. CASE branch = NoBranch
    <3>1. m = b
      BY <1>1, <1>5, <2>3, InsideFacts
    <3>2. k = <<>>
      BY <1>3, <2>3 DEF Flag
    <3> QED
      BY <2>1, <3>1, <3>2, NothingMoves
  <2> QED
    BY <2>2, <2>3
<1>9. Moves(n, b, f \o g, <<>>)
  BY <1>6, <1>7, NotedAfter DEF Steps
<1>10. Moves(n, m, (f \o g) \o k, <<>>)
  BY <1>8, <1>9, NotedAfter DEF Steps
<1>11. SameBooks(n, m)
  BY <1>6, <1>7, <1>8 DEF Steps, SameBooks
<1> QED
  BY <1>2, <1>4, <1>10, <1>11 DEF Steps

LEMMA OriginsSteps ==
    ASSUME NEW n, NEW c, NEW branch, Sees(n, c, branch), NEW e, IsList(e.args)
    PROVE  Steps(n, Native!ArgumentOrigins(n, e),
                 FlattenSeq([i \in DOMAIN e.args |-> ArgumentErrors(c, e, branch, Lookup(c, e.args[i])) ]),
                 <<>>)
<1>1. PICK names, k, codes, loop :
          /\ names = e.args /\ k = Len(names)
          /\ codes = [i \in DOMAIN names |-> ArgumentErrors(c, e, branch, Lookup(c, names[i]))]
          /\ loop = [of |-> "origins", e |-> e, n |-> n]
  OBVIOUS
<1>2. k \in Nat /\ DOMAIN names = 1 .. k
  BY <1>1, ListFacts
<1>3. /\ Lists(codes) /\ Len(codes) = k
      /\ \A i \in 1 .. k : codes[i] = ArgumentErrors(c, e, branch, Lookup(c, names[i]))
  <2>1. /\ codes = [i \in 1 .. k |-> codes[i]]
        /\ \A i \in 1 .. k : codes[i] = ArgumentErrors(c, e, branch, Lookup(c, names[i]))
    BY <1>1, <1>2
  <2>2. IsList(codes) /\ Len(codes) = k
    BY <1>2, <2>1, ListOf
  <2>3. \A arg : IsList(ArgumentErrors(c, e, branch, arg))
    BY ArgumentSteps DEF Steps, Moves, Adds, Ordinary
  <2> QED
    BY <2>1, <2>2, <2>3 DEF Lists
<1>4. PICK h : h = CHOOSE f : f = [i \in 0 .. k |->
                  IF i = 0 THEN n
                  ELSE Native!ArgumentOrigin(f[i - 1], e, Native!TypeOfVar(n, names[i]))]
  OBVIOUS
<1>5. /\ h[0] = n
      /\ \A i \in 0 .. k - 1 :
            h[i + 1] = Native!ArgumentOrigin(h[i], e, Native!TypeOfVar(n, names[i + 1]))
  <2>1. \A x, i : Goes(loop, x, i) = Native!ArgumentOrigin(x, e, Native!TypeOfVar(n, names[i]))
    BY <1>1 DEF Goes
  <2>2. \E f : f = [i \in 0 .. k |->
                  IF i = 0 THEN n
                  ELSE Native!ArgumentOrigin(f[i - 1], e, Native!TypeOfVar(n, names[i]))]
    <3>1. PICK g : Looped(loop, n, g, k)
      BY <1>2, Loops
    <3> QED
      BY <1>1, <3>1 DEF Looped, Goes
  <2>3. Looped(loop, n, h, k)
    BY <1>4, <2>1, <2>2 DEF Looped
  <2>4. h[0] = n /\ \A i \in 0 .. k - 1 : h[i + 1] = Goes(loop, h[i], i + 1)
    <3>1. k \in Nat
      BY <1>2
    <3> QED
      BY <2>3, <3>1, LoopFacts
  <2> QED
    BY <2>1, <2>4
<1>6. Native!ArgumentOrigins(n, e) = h[k]
  BY <1>1, <1>4 DEF Native!ArgumentOrigins
<1> DEFINE S == {i \in 0 .. k : Steps(n, h[i], Joined(codes, i), <<>>)}
<1>7. 0 \in S
  <2>1. Joined(codes, 0) = <<>>
    BY <1>3, JoinedFacts
  <2>2. Steps(n, n, <<>>, <<>>)
    BY NothingMoves DEF Sees
  <2> QED
    BY <1>2, <1>5, <2>1, <2>2
<1>8. ASSUME NEW i \in 0 .. k - 1, i \in S PROVE i + 1 \in S
  <2>1. PICK a, m, arg, b :
            /\ a = Joined(codes, i) /\ m = h[i] /\ arg = Lookup(c, names[i + 1])
            /\ b = ArgumentErrors(c, e, branch, arg)
    OBVIOUS
  <2>2. Steps(n, m, a, <<>>) /\ Sees(m, c, branch)
    BY <1>8, <2>1, SeesAfter
  <2>3. i + 1 \in 1 .. k /\ i + 1 \in 0 .. k
    BY <1>2
  <2>4. Steps(m, h[i + 1], b, <<>>)
    <3>1. h[i + 1] = Native!ArgumentOrigin(m, e, Typed(arg))
      BY <1>5, <2>1, LookupTyped
    <3> QED
      BY <2>1, <2>2, <3>1, ArgumentSteps
  <2>5. Moves(n, h[i + 1], a \o b, <<>>)
    BY <2>2, <2>4, NotedAfter DEF Steps
  <2>6. SameBooks(n, h[i + 1])
    BY <2>2, <2>4 DEF Steps, SameBooks
  <2>7. Joined(codes, i + 1) = a \o b
    <3>1. Joined(codes, i + 1) = Joined(codes, i) \o codes[i + 1]
      BY <1>3, JoinedFacts
    <3> QED
      BY <1>3, <2>1, <2>3, <3>1
  <2> QED
    BY <2>3, <2>5, <2>6, <2>7 DEF Steps
<1>9. \A i \in 0 .. k : i \in S
  <2> HIDE DEF S
  <2> QED
    BY <1>2, <1>7, <1>8, Climbs
<1>10. k \in 0 .. k
  BY <1>2
<1>11. Steps(n, h[k], FlattenSeq(codes), <<>>)
  BY <1>3, <1>9, <1>10, JoinedFacts
<1> QED
  BY <1>1, <1>6, <1>11

(* Checker::arguments.                                                     *)
LEMMA ArgumentsSteps ==
    ASSUME NEW n, NEW c, NEW branch, Sees(n, c, branch), NEW names, IsList(names),
           NEW count, NEW kinds
    PROVE  Steps(n, Native!Arguments(n, names, count, kinds),
                 FlattenSeq([i \in DOMAIN names |-> ReadErrors(c, names[i])])
                   \o Flag("F3206", \/ Len(names) # count
                                    \/ \E i \in DOMAIN names : Lookup(c, names[i]).kind \notin kinds),
                 OperandRows(c, names))
<1>1. PICK a, m, wrong, reported, codes, rows :
          /\ a = Native!Reads(n, names)
          /\ wrong = (\/ Len(names) # count
                      \/ \E i \in DOMAIN names : Native!TypeOfVar(n, names[i]).kind \notin kinds)
          /\ m = Native!ErrorIf(a, "F3206", wrong)
          /\ reported = (\/ Len(names) # count
                         \/ \E i \in DOMAIN names : Lookup(c, names[i]).kind \notin kinds)
          /\ codes = FlattenSeq([i \in DOMAIN names |-> ReadErrors(c, names[i])])
          /\ rows = OperandRows(c, names)
  OBVIOUS
<1>2. Native!Arguments(n, names, count, kinds) = m
  BY <1>1 DEF Native!Arguments
<1>3. Steps(n, a, codes, rows)
  BY <1>1, ReadsSteps
<1>4. wrong <=> reported
  <2>1. \A name : Native!TypeOfVar(n, name).kind = Lookup(c, name).kind
    BY LookupTyped, TypedFacts
  <2> QED
    BY <1>1, <2>1
<1>5. Steps(a, m, Flag("F3206", reported), <<>>)
  <2>1. IsNative(a) /\ "F3206" \in Plain
    BY <1>3 DEF Steps, Moves, Plain
  <2> QED
    BY <1>1, <1>4, <2>1, PlainError
<1>6. Moves(n, m, codes \o Flag("F3206", reported), rows)
  BY <1>3, <1>5, NotedAfter DEF Steps
<1>7. SameBooks(n, m)
  BY <1>3, <1>5 DEF Steps, SameBooks
<1> QED
  BY <1>1, <1>2, <1>6, <1>7 DEF Steps

-----------------------------------------------------------------------------
(* Operations: what an expression adds of its own, and how it is accounted *)
(* for.                                                                    *)
OwnErrors(c, e, branch) ==
    CASE e.op = "var" -> ReadErrors(c, e.name)
      [] e.op = "snapshot" -> Flag("F3005", e.resource # Catalog)
      [] e.op = "propose" -> ProposeErrors(c, e)
      [] e.op = "explore" -> ExploreErrors(c, e)
      [] e.op = "simulate" -> SimulateErrors(c, e, branch)
      [] e.op = "call" -> CallErrors(c, e, branch)
      [] e.op = "select" -> SelectErrors(c, e)
      [] e.op = "commit" -> CommitErrors(c, e, branch)
OwnRows(c, e) ==
    (IF e.op = "call" /\ ~Offered(e) THEN <<>> ELSE OperandRows(c, Operands(e)))
      \o LiteralRows(Literals(e))
Accounts(n, m, c, e) ==
    /\ m.used = IF Native!EffectsEnabled(n) THEN n.used \cup EffectOf(c, e) ELSE n.used
    /\ m.consumed = IF Native!OwnershipEnabled(n) THEN n.consumed \cup Consumes(c, e) ELSE n.consumed
    /\ m.snapshots = (IF e.op = "snapshot" THEN n.snapshots + 1 ELSE n.snapshots)
    /\ m.selections = (IF e.op = "select" THEN n.selections + 1 ELSE n.selections)
Inferred(n, c, e, branch, found) ==
    /\ Moves(n, found.checker, OwnErrors(c, e, branch), OwnRows(c, e))
    /\ Accounts(n, found.checker, c, e)
    /\ found.type = Typed(TypeOf(c, e, branch))
Worded(e) == e.op \in Operations /\ (e.op = "call" => IsList(e.args))

LEMMA FoundFacts ==
    ASSUME NEW n, NEW type
    PROVE  Native!Found(n, type).checker = n /\ Native!Found(n, type).type = type
BY DEF Native!Found

LEMMA UseEffectFacts ==
    ASSUME NEW n, IsNative(n), NEW kind, NEW target
    PROVE  LET m == Native!UseEffect(n, kind, target) IN
           /\ IsNative(m) /\ SameView(n, m) /\ SameOutput(n, m)
           /\ m.used = IF Native!EffectsEnabled(n) THEN n.used \cup {<<kind, target>>} ELSE n.used
           /\ m.consumed = n.consumed /\ m.snapshots = n.snapshots /\ m.selections = n.selections
BY DEF IsNative, SameView, SameOutput, Native!UseEffect

LEMMA Enabled ==
    ASSUME NEW n, NEW m, SameView(n, m)
    PROVE  /\ Native!EffectsEnabled(m) <=> Native!EffectsEnabled(n)
           /\ Native!OwnershipEnabled(m) <=> Native!OwnershipEnabled(n)
           /\ Native!LineageEnabled(m) <=> Native!LineageEnabled(n)
           /\ Native!InBranch(m) <=> Native!InBranch(n)
BY DEF SameView, Native!EffectsEnabled, Native!OwnershipEnabled, Native!LineageEnabled,
       Native!InBranch

LEMMA VariableInferred ==
    ASSUME NEW n, NEW c, NEW branch, Sees(n, c, branch), NEW e, e.op = "var"
    PROVE  Inferred(n, c, e, branch,
                    Native!Found(Native!Variable(n, e.name), Native!TypeOfVar(n, e.name)))
<1>1. PICK m, type : m = Native!Variable(n, e.name) /\ type = Native!TypeOfVar(n, e.name)
  OBVIOUS
<1>2. Steps(n, m, ReadErrors(c, e.name), <<>>)
  BY <1>1, VariableSteps
<1>3. OwnErrors(c, e, branch) = ReadErrors(c, e.name)
  BY DEF OwnErrors
<1>4. OwnRows(c, e) = <<>>
  <2>1. Operands(e) = <<>> /\ Literals(e) = <<>> /\ e.op # "call"
    BY DEF Operands, Literals
  <2> QED
    BY <2>1, RowsFacts, EmptyList, ConcatEmpty DEF OwnRows
<1>5. Accounts(n, m, c, e)
  <2>1. EffectOf(c, e) = {} /\ Consumes(c, e) = {}
    BY DEF EffectOf, Consumes
  <2> QED
    BY <1>2, <2>1 DEF Accounts, Steps, SameBooks
<1>6. type = Typed(TypeOf(c, e, branch))
  BY <1>1, LookupTyped DEF TypeOf
<1> QED
  BY <1>1, <1>2, <1>3, <1>4, <1>5, <1>6, FoundFacts DEF Inferred, Steps

LEMMA SnapshotInferred ==
    ASSUME NEW n, NEW c, NEW branch, Sees(n, c, branch), n.snapshots = c.snapshots,
           NEW e, e.op = "snapshot"
    PROVE  Inferred(n, c, e, branch, Native!Snapshot(n, e))
<1>1. PICK wrong, a, b, m, type :
          /\ wrong = ~Native!Resolve(e.resource).known
          /\ a = Native!ErrorIf(n, "F3005", wrong)
          /\ b = Native!UseEffect(a, "Snapshot", e.resource)
          /\ m = [b EXCEPT !.snapshots = @ + 1]
          /\ type = Native!Type("snapshot", Native!Resolve(e.resource), <<>>, n.snapshots + 1)
  OBVIOUS
<1>2. Native!Snapshot(n, e) = Native!Found(m, type)
  BY <1>1 DEF Native!Snapshot
<1>3. Steps(n, a, Flag("F3005", e.resource # Catalog), <<>>)
  <2>1. wrong <=> e.resource # Catalog
    BY <1>1, ResourceFacts
  <2>2. IsNative(n) /\ "F3005" \in Plain
    BY DEF Sees, Plain
  <2> QED
    BY <1>1, <2>1, <2>2, PlainError
<1>4. /\ IsNative(b) /\ SameView(a, b) /\ SameOutput(a, b)
      /\ b.used = IF Native!EffectsEnabled(a) THEN a.used \cup {<<"Snapshot", e.resource>>} ELSE a.used
      /\ b.consumed = a.consumed /\ b.snapshots = a.snapshots /\ b.selections = a.selections
  <2>1. b = Native!UseEffect(a, "Snapshot", e.resource) /\ IsNative(a)
    BY <1>1, <1>3 DEF Steps, Moves
  <2> QED
    BY <2>1, UseEffectFacts
<1>5. /\ IsNative(m) /\ SameView(b, m) /\ SameOutput(b, m) /\ m.used = b.used
      /\ m.consumed = b.consumed /\ m.snapshots = b.snapshots + 1 /\ m.selections = b.selections
  BY <1>1, <1>4 DEF IsNative, SameView, SameOutput
<1>6. Moves(n, m, Flag("F3005", e.resource # Catalog), <<>>)
  BY <1>3, <1>4, <1>5, BookedAfter DEF Steps
<1>7. OwnErrors(c, e, branch) = Flag("F3005", e.resource # Catalog)
  BY DEF OwnErrors
<1>8. OwnRows(c, e) = <<>>
  <2>1. Operands(e) = <<>> /\ Literals(e) = <<>> /\ e.op # "call"
    BY DEF Operands, Literals
  <2> QED
    BY <2>1, RowsFacts, EmptyList, ConcatEmpty DEF OwnRows
<1>9. Accounts(n, m, c, e)
  <2>1. EffectOf(c, e) = {<<"Snapshot", e.resource>>} /\ Consumes(c, e) = {} /\ e.op # "select"
    BY DEF EffectOf, Consumes
  <2>2. SameView(n, a) /\ SameBooks(n, a)
    BY <1>3 DEF Steps, Moves
  <2> QED
    BY <1>4, <1>5, <2>1, <2>2, Enabled DEF Accounts, SameBooks
<1>10. type = Typed(TypeOf(c, e, branch))
  <2>1. TypeOf(c, e, branch) = Binding("snapshot", e.resource, <<>>, c.snapshots + 1, None)
    BY DEF TypeOf
  <2> QED
    BY <1>1, <2>1, BindingFacts DEF Native!Type
<1> QED
  BY <1>2, <1>6, <1>7, <1>8, <1>9, <1>10, FoundFacts DEF Inferred

LEMMA ProposeInferred ==
    ASSUME NEW n, NEW c, NEW branch, Sees(n, c, branch), NEW e, e.op = "propose"
    PROVE  Inferred(n, c, e, branch, Native!Propose(n, e))
<1>1. PICK a, b, d, l1, l2, f1, f2, m, type :
          /\ a = Native!ErrorIf(n, "F3006", e.model # Planner)
          /\ b = Native!UseEffect(a, "Infer", e.model)
          /\ d = Native!Read(b, e.base)
          /\ l1 = Native!Literal(d, "string") /\ l2 = Native!Literal(l1, "int")
          /\ f1 = Native!ErrorIf(l2, "F3206", Native!TypeOfVar(n, e.base).kind # "snapshot")
          /\ f2 = Native!ErrorIf(f1, "F3208", e.type # "Patch")
          /\ m = Native!ErrorIf(f2, "F3208", e.limit \notin 1 .. 4)
          /\ type = Native!Derived("plans", Native!TypeOfVar(n, e.base))
  OBVIOUS
<1>2. Native!Propose(n, e) = Native!Found(m, type)
  BY <1>1 DEF Native!Propose
<1>3. PICK base, c1, c2, c3, c4, c5, r1, r2, r3 :
          /\ base = Lookup(c, e.base)
          /\ c1 = Flag("F3006", e.model # Planner) /\ c2 = ReadErrors(c, e.base)
          /\ c3 = Flag("F3206", base.kind # "snapshot")
          /\ c4 = Flag("F3208", e.type # "Patch") /\ c5 = Flag("F3208", e.limit \notin 1 .. 4)
          /\ r1 = <<Described("var", base)>>
          /\ r2 = <<Described("string", Scalar("string"))>> /\ r3 = <<Described("int", Scalar("int"))>>
  OBVIOUS
<1>4. OwnErrors(c, e, branch) = (((c1 \o c2) \o c3) \o c4) \o c5
  BY <1>3 DEF OwnErrors, ProposeErrors
<1>5. OwnRows(c, e) = r1 \o (r2 \o r3)
  <2>1. Operands(e) = <<e.base>> /\ Literals(e) = <<"string", "int">> /\ e.op # "call"
    BY DEF Operands, Literals
  <2> QED
    BY <1>3, <2>1, RowsFacts DEF OwnRows
<1>6. "F3006" \in Plain /\ "F3206" \in Plain /\ "F3208" \in Plain
  BY DEF Plain
<1>7. Steps(n, a, c1, <<>>)
  BY <1>1, <1>3, <1>6, PlainError DEF Sees
<1>8. Sees(a, c, branch) /\ IsNative(a) /\ SameView(n, a) /\ SameBooks(n, a)
  BY <1>7, SeesAfter
<1>9. /\ IsNative(b) /\ SameView(a, b) /\ SameOutput(a, b)
      /\ b.used = IF Native!EffectsEnabled(a) THEN a.used \cup {<<"Infer", e.model>>} ELSE a.used
      /\ b.consumed = a.consumed /\ b.snapshots = a.snapshots /\ b.selections = a.selections
  <2>1. b = Native!UseEffect(a, "Infer", e.model) /\ IsNative(a)
    BY <1>1, <1>8
  <2> QED
    BY <2>1, UseEffectFacts
<1>10. Sees(b, c, branch)
  BY <1>8, <1>9, SeesFurther
<1>11. Steps(b, d, c2, r1)
  BY <1>1, <1>3, <1>10, ReadSteps
<1>12. Steps(d, l1, <<>>, r2)
  BY <1>1, <1>3, <1>11, LiteralSteps DEF Steps, Moves
<1>13. Steps(l1, l2, <<>>, r3)
  BY <1>1, <1>3, <1>12, LiteralSteps DEF Steps, Moves
<1>14. Steps(l2, f1, c3, <<>>)
  <2>1. Native!TypeOfVar(n, e.base).kind = base.kind
    BY <1>3, LookupTyped, TypedFacts
  <2> QED
    BY <1>1, <1>3, <1>6, <1>13, <2>1, PlainError DEF Steps, Moves
<1>15. Steps(f1, f2, c4, <<>>)
  BY <1>1, <1>3, <1>6, <1>14, PlainError DEF Steps, Moves
<1>16. Steps(f2, m, c5, <<>>)
  BY <1>1, <1>3, <1>6, <1>15, PlainError DEF Steps, Moves
<1>17. Moves(n, m, OwnErrors(c, e, branch), OwnRows(c, e))
  <2>1. Moves(n, b, c1, <<>>)
    BY <1>7, <1>9, BookedAfter DEF Steps
  <2>2. Moves(n, d, c1 \o c2, r1)
    BY <1>11, <2>1, ReadAfter DEF Steps
  <2>3. Moves(d, l2, <<>>, r2 \o r3)
    BY <1>12, <1>13, LaidAfter DEF Steps
  <2>4. Moves(n, l2, c1 \o c2, r1 \o (r2 \o r3))
    BY <2>2, <2>3, LaidAfter
  <2>5. Moves(n, f1, (c1 \o c2) \o c3, r1 \o (r2 \o r3))
    BY <1>14, <2>4, NotedAfter DEF Steps
  <2>6. Moves(n, f2, ((c1 \o c2) \o c3) \o c4, r1 \o (r2 \o r3))
    BY <1>15, <2>5, NotedAfter DEF Steps
  <2>7. Moves(n, m, (((c1 \o c2) \o c3) \o c4) \o c5, r1 \o (r2 \o r3))
    BY <1>16, <2>6, NotedAfter DEF Steps
  <2> QED
    BY <1>4, <1>5, <2>7
<1>18. Accounts(n, m, c, e)
  <2>1. EffectOf(c, e) = {<<"Infer", e.model>>} /\ Consumes(c, e) = {}
    BY DEF EffectOf, Consumes
  <2>2. SameBooks(b, m)
    BY <1>11, <1>12, <1>13, <1>14, <1>15, <1>16 DEF Steps, SameBooks
  <2> QED
    BY <1>8, <1>9, <2>1, <2>2, Enabled DEF Accounts, SameBooks
<1>19. type = Typed(TypeOf(c, e, branch))
  <2>1. TypeOf(c, e, branch) = Binding("plans", base.resource, <<>>, base.lineage, None)
    BY <1>3 DEF TypeOf
  <2>2. Native!TypeOfVar(n, e.base) = Typed(base)
    BY <1>3, LookupTyped
  <2> QED
    BY <1>1, <2>1, <2>2, BindingFacts, TypedFacts DEF Native!Derived, Native!Type
<1> QED
  BY <1>2, <1>17, <1>18, <1>19, FoundFacts DEF Inferred

LEMMA SimulateInferred ==
    ASSUME NEW n, NEW c, NEW branch, Sees(n, c, branch), NEW e, e.op = "simulate"
    PROVE  Inferred(n, c, e, branch, Native!Simulate(n, e))
<1>1. PICK resource, plan, wrong2, wrong3, f1, f2, f3, args, m, type :
          /\ resource = Native!Resolve(e.resource) /\ plan = Native!TypeOfVar(n, e.plan)
          /\ wrong2 = (/\ Native!LineageEnabled(n) /\ n.resource # Native!NoResource
                       /\ n.resource # resource)
          /\ wrong3 = (e.method # "apply" \/ ~resource.known)
          /\ f1 = Native!ErrorIf(n, "F3103", ~Native!InBranch(n))
          /\ f2 = Native!ErrorIf(f1, "F3104", wrong2)
          /\ f3 = Native!ErrorIf(f2, "F3210", wrong3)
          /\ args = Native!Arguments(f3, <<e.plan>>, 1, {"plan"})
          /\ m = IF Native!InBranch(n) THEN Native!SameOrigin(args, plan, n.base) ELSE args
          /\ type = Native!Type("simulated", resource, <<>>,
                                IF Native!InBranch(n) THEN n.base.lineage ELSE None)
  OBVIOUS
<1>2. Native!Simulate(n, e) = Native!Found(m, type)
  BY <1>1 DEF Native!Simulate
<1>3. PICK base, c1, c2, c3, c4, c5, c6, r1 :
          /\ base = Lookup(c, e.plan)
          /\ c1 = Flag("F3103", branch = NoBranch)
          /\ c2 = Flag("F3104", branch # NoBranch /\ e.resource # branch.resource)
          /\ c3 = Flag("F3210", e.method # "apply" \/ e.resource # Catalog)
          /\ c4 = ReadErrors(c, e.plan)
          /\ c5 = Flag("F3206", base.kind # "plan")
          /\ c6 = Flag("F3301", branch # NoBranch /\ ~SameOrigin(base, branch.base))
          /\ r1 = <<Described("var", base)>>
  OBVIOUS
<1>4. OwnErrors(c, e, branch) = ((((c1 \o c2) \o c3) \o c4) \o c5) \o c6
  BY <1>3 DEF OwnErrors, SimulateErrors
<1>5. OwnRows(c, e) = r1
  <2>1. Operands(e) = <<e.plan>> /\ Literals(e) = <<>> /\ e.op # "call"
    BY DEF Operands, Literals
  <2>2. r1 \o <<>> = r1
    BY <1>3, OneItem, ConcatEmpty
  <2> QED
    BY <1>3, <2>1, <2>2, RowsFacts DEF OwnRows
<1>6. IsNative(n) /\ Inside(n, branch) /\ plan = Typed(base)
  <2>1. IsNative(n) /\ Inside(n, branch)
    BY DEF Sees
  <2>2. Native!TypeOfVar(n, e.plan) = Typed(Lookup(c, e.plan))
    BY LookupTyped
  <2> QED
    BY <1>1, <1>3, <2>1, <2>2
<1>7. Steps(n, f1, c1, <<>>)
  <2>1. "F3103" \in Plain
    BY DEF Plain
  <2>2. ~Native!InBranch(n) <=> branch = NoBranch
    BY <1>6, InsideFacts
  <2> QED
    BY <1>1, <1>3, <1>6, <2>1, <2>2, PlainError
<1>8. Sees(f1, c, branch) /\ IsNative(f1) /\ SameView(n, f1)
  BY <1>7, SeesAfter
<1>9. Steps(f1, f2, c2, <<>>)
  <2>1. "F3104" \in Lineage
    BY DEF Lineage
  <2>2. n.resource # Native!NoResource /\ n.resource # resource
           <=> branch # NoBranch /\ e.resource # branch.resource
    <3>1. CASE branch = NoBranch
      BY <1>6, <3>1, InsideFacts
    <3>2. CASE branch # NoBranch
      <4>1. n.resource = Native!Resolve(branch.resource) /\ branch.resource # None
        BY <1>6, <3>2, InsideFacts
      <4>2. n.resource # Native!NoResource
        BY <4>1, ResourceFacts
      <4>3. n.resource = resource <=> e.resource = branch.resource
        BY <1>1, <4>1, ResourceFacts
      <4> QED
        BY <3>2, <4>2, <4>3
    <3> QED
      BY <3>1, <3>2
  <2>3. wrong2 <=> Native!LineageEnabled(f1) /\ (branch # NoBranch /\ e.resource # branch.resource)
    BY <1>1, <1>8, <2>2, Enabled
  <2> QED
    BY <1>1, <1>3, <1>8, <2>1, <2>3, LineageError
<1>10. Sees(f2, c, branch) /\ IsNative(f2)
  BY <1>8, <1>9, SeesAfter
<1>11. Steps(f2, f3, c3, <<>>)
  <2>1. "F3210" \in Plain
    BY DEF Plain
  <2>2. wrong3 <=> e.method # "apply" \/ e.resource # Catalog
    BY <1>1, ResourceFacts
  <2> QED
    BY <1>1, <1>3, <1>10, <2>1, <2>2, PlainError
<1>12. Sees(f3, c, branch) /\ IsNative(f3)
  BY <1>10, <1>11, SeesAfter
<1>13. Steps(f3, args, c4 \o c5, r1)
  <2>1. PICK names, kinds, each, short :
            /\ names = <<e.plan>> /\ kinds = {"plan"}
            /\ each = [i \in DOMAIN names |-> ReadErrors(c, names[i])]
            /\ short = (\/ Len(names) # 1
                        \/ \E i \in DOMAIN names : Lookup(c, names[i]).kind \notin kinds)
    OBVIOUS
  <2>2. IsList(names) /\ Len(names) = 1 /\ names[1] = e.plan /\ DOMAIN names = {1}
    <3>1. IsList(names) /\ Len(names) = 1 /\ names[1] = e.plan
      BY <2>1, OneItem
    <3>2. DOMAIN names = {1}
      BY <2>1
    <3> QED
      BY <3>1, <3>2
  <2>3. Steps(f3, args, FlattenSeq(each) \o Flag("F3206", short), OperandRows(c, names))
    <3>1. Steps(f3, Native!Arguments(f3, names, 1, kinds),
                FlattenSeq([i \in DOMAIN names |-> ReadErrors(c, names[i])])
                  \o Flag("F3206", \/ Len(names) # 1
                                   \/ \E i \in DOMAIN names :
                                         Lookup(c, names[i]).kind \notin kinds),
                OperandRows(c, names))
      BY <1>12, <2>2, ArgumentsSteps
    <3>2. args = Native!Arguments(f3, names, 1, kinds)
      BY <1>1, <2>1
    <3> QED
      BY <2>1, <3>1, <3>2
  <2>4. FlattenSeq(each) = c4
    <3>1. each = <<c4>>
      BY <1>3, <2>1
    <3>2. IsList(c4)
      BY <1>3, FlagFacts, ConcatFacts DEF ReadErrors
    <3> QED
      BY <3>1, <3>2, FlattenOne
  <2>5. short <=> base.kind # "plan"
    BY <1>3, <2>1, <2>2
  <2>6. Flag("F3206", short) = c5
    BY <1>3, <2>5 DEF Flag
  <2>7. OperandRows(c, names) = r1
    BY <1>3, <2>1, RowsFacts
  <2> QED
    BY <2>3, <2>4, <2>6, <2>7
<1>14. Steps(args, m, c6, <<>>)
  <2>1. IsNative(args)
    BY <1>13 DEF Steps, Moves
  <2>2. CASE branch # NoBranch
    <3>1. m = Native!SameOrigin(args, Typed(base), Typed(branch.base))
      BY <1>1, <1>6, <2>2, InsideFacts
    <3>2. c6 = Flag("F3301", ~SameOrigin(base, branch.base))
      BY <1>3, <2>2 DEF Flag
    <3> QED
      BY <2>1, <3>1, <3>2, OriginSteps
  <2>3. CASE branch = NoBranch
    <3>1. m = args
      BY <1>1, <1>6, <2>3, InsideFacts
    <3>2. c6 = <<>>
      BY <1>3, <2>3 DEF Flag
    <3> QED
      BY <2>1, <3>1, <3>2, NothingMoves
  <2> QED
    BY <2>2, <2>3
<1>15. Moves(n, m, OwnErrors(c, e, branch), OwnRows(c, e))
  <2>1. Moves(n, f2, c1 \o c2, <<>>)
    BY <1>7, <1>9, NotedAfter DEF Steps
  <2>2. Moves(n, f3, (c1 \o c2) \o c3, <<>>)
    BY <1>11, <2>1, NotedAfter DEF Steps
  <2>3. Moves(n, args, ((c1 \o c2) \o c3) \o (c4 \o c5), r1)
    BY <1>13, <2>2, ReadAfter DEF Steps
  <2>4. ((c1 \o c2) \o c3) \o (c4 \o c5) = (((c1 \o c2) \o c3) \o c4) \o c5
    <3>1. IsList((c1 \o c2) \o c3)
      BY <2>2 DEF Moves, Adds, Ordinary
    <3>2. IsList(c4) /\ IsList(c5)
      BY <1>3, FlagFacts, ConcatFacts DEF ReadErrors
    <3> QED
      BY <3>1, <3>2, ConcatAgain
  <2>5. Moves(n, m, ((((c1 \o c2) \o c3) \o c4) \o c5) \o c6, r1)
    BY <1>14, <2>3, <2>4, NotedAfter DEF Steps
  <2> QED
    BY <1>4, <1>5, <2>5
<1>16. Accounts(n, m, c, e)
  <2>1. EffectOf(c, e) = {} /\ Consumes(c, e) = {}
    BY DEF EffectOf, Consumes
  <2>2. SameBooks(n, m)
    BY <1>7, <1>9, <1>11, <1>13, <1>14 DEF Steps, SameBooks
  <2> QED
    BY <2>1, <2>2 DEF Accounts, SameBooks
<1>17. type = Typed(TypeOf(c, e, branch))
  <2>1. PICK lineage : lineage = IF branch = NoBranch THEN None ELSE branch.base.lineage
    OBVIOUS
  <2>2. TypeOf(c, e, branch) = Binding("simulated", e.resource, <<>>, lineage, None)
    BY <2>1 DEF TypeOf
  <2>3. lineage = IF Native!InBranch(n) THEN n.base.lineage ELSE None
    BY <1>6, <2>1, InsideFacts, TypedFacts
  <2> QED
    BY <1>1, <2>2, <2>3, BindingFacts DEF Native!Type
<1> QED
  BY <1>2, <1>15, <1>16, <1>17, FoundFacts DEF Inferred

LEMMA CallInferred ==
    ASSUME NEW n, NEW c, NEW branch, Sees(n, c, branch), NEW e, e.op = "call", IsList(e.args)
    PROVE  Inferred(n, c, e, branch, Native!Call(n, e))
<1>1. Native!Resolve(e.target).known <=> e.target = Catalog
  BY ResourceFacts
<1>2. EffectOf(c, e) = {} /\ Consumes(c, e) = {}
  BY DEF EffectOf, Consumes
<1>3. IsNative(n)
  BY DEF Sees
<1>4. CASE ~Offered(e)
  <2>1. PICK m, type : m = Native!Error(n, "F3210") /\ type = Native!Scalar("error")
    OBVIOUS
  <2>2. Native!Call(n, e) = Native!Found(m, type)
    BY <1>1, <1>4, <2>1, SameLanguage DEF Native!Call, Offered
  <2>3. Steps(n, m, <<"F3210">>, <<>>)
    <3>1. "F3210" \in Plain
      BY DEF Plain
    <3>2. m = Native!ErrorIf(n, "F3210", TRUE) /\ Flag("F3210", TRUE) = <<"F3210">>
      BY <2>1 DEF Native!ErrorIf, Flag
    <3> QED
      BY <1>3, <3>1, <3>2, PlainError
  <2>4. OwnErrors(c, e, branch) = <<"F3210">>
    BY <1>4 DEF OwnErrors, CallErrors
  <2>5. OwnRows(c, e) = <<>>
    <3>1. Literals(e) = <<>>
      BY DEF Literals
    <3> QED
      BY <1>4, <3>1, RowsFacts, EmptyList, ConcatEmpty DEF OwnRows
  <2>6. Accounts(n, m, c, e)
    BY <1>2, <2>3 DEF Accounts, Steps, SameBooks
  <2>7. type = Typed(TypeOf(c, e, branch))
    BY <1>4, <2>1, ScalarFacts DEF TypeOf
  <2> QED
    BY <2>2, <2>3, <2>4, <2>5, <2>6, <2>7, FoundFacts DEF Inferred, Steps
<1>5. CASE Offered(e)
  <2>1. PICK a, m, type, names, short, each, origins, reads :
            /\ names = e.args
            /\ a = Native!Arguments(n, names, Arity[e.method], States)
            /\ m = Native!ArgumentOrigins(a, e) /\ type = Native!Scalar(Result[e.method])
            /\ short = (\/ Len(names) # Arity[e.method]
                        \/ \E i \in DOMAIN names : Lookup(c, names[i]).kind \notin States)
            /\ reads = FlattenSeq([i \in DOMAIN names |-> ReadErrors(c, names[i])])
            /\ each = Flag("F3206", short)
            /\ origins = FlattenSeq([i \in DOMAIN names |->
                                        ArgumentErrors(c, e, branch, Lookup(c, names[i]))])
    OBVIOUS
  <2>2. Native!Call(n, e) = Native!Found(m, type)
    BY <1>1, <1>5, <2>1, SameLanguage DEF Native!Call, Offered
  <2>3. Steps(n, a, reads \o each, OperandRows(c, names))
    <3>1. IsList(names)
      BY <2>1
    <3>2. Steps(n, Native!Arguments(n, names, Arity[e.method], States),
                FlattenSeq([i \in DOMAIN names |-> ReadErrors(c, names[i])])
                  \o Flag("F3206", \/ Len(names) # Arity[e.method]
                                   \/ \E i \in DOMAIN names :
                                         Lookup(c, names[i]).kind \notin States),
                OperandRows(c, names))
      BY <3>1, ArgumentsSteps
    <3> QED
      BY <2>1, <3>2
  <2>4. Sees(a, c, branch)
    BY <2>3, SeesAfter
  <2>5. Steps(a, m, origins, <<>>)
    BY <2>1, <2>4, OriginsSteps
  <2>6. Moves(n, m, (reads \o each) \o origins, OperandRows(c, names))
    BY <2>3, <2>5, NotedAfter DEF Steps
  <2>7. OwnErrors(c, e, branch) = (reads \o each) \o origins
    <3>1. PICK args : args = [i \in DOMAIN names |-> Lookup(c, names[i])]
      OBVIOUS
    <3>2. DOMAIN args = DOMAIN names /\ \A i \in DOMAIN names : args[i] = Lookup(c, names[i])
      BY <3>1
    <3>3. [i \in DOMAIN args |-> ReadErrors(c, e.args[i])]
             = [i \in DOMAIN names |-> ReadErrors(c, names[i])]
      BY <2>1, <3>2
    <3>4. [i \in DOMAIN args |-> ArgumentErrors(c, e, branch, args[i])]
             = [i \in DOMAIN names |-> ArgumentErrors(c, e, branch, Lookup(c, names[i]))]
      BY <3>2
    <3>5. (\/ Len(e.args) # Arity[e.method] \/ \E i \in DOMAIN args : ~Accepts(States, args[i]))
             <=> short
      BY <2>1, <3>2 DEF Accepts
    <3>6. Flag("F3206", \/ Len(e.args) # Arity[e.method]
                        \/ \E i \in DOMAIN args : ~Accepts(States, args[i])) = each
      BY <2>1, <3>5 DEF Flag
    <3>7. CallErrors(c, e, branch) =
             FlattenSeq([i \in DOMAIN args |-> ReadErrors(c, e.args[i])])
               \o Flag("F3206", \/ Len(e.args) # Arity[e.method]
                                \/ \E i \in DOMAIN args : ~Accepts(States, args[i]))
               \o FlattenSeq([i \in DOMAIN args |-> ArgumentErrors(c, e, branch, args[i])])
      BY <1>5, <2>1, <3>1 DEF CallErrors
    <3>8. OwnErrors(c, e, branch) = CallErrors(c, e, branch)
      BY DEF OwnErrors
    <3> QED
      BY <2>1, <3>3, <3>4, <3>6, <3>7, <3>8
  <2>8. OwnRows(c, e) = OperandRows(c, names)
    <3>1. Operands(e) = names /\ Literals(e) = <<>>
      BY <2>1 DEF Operands, Literals
    <3>2. IsList(OperandRows(c, names))
      BY <2>1, OperandRowsList
    <3>3. OperandRows(c, names) \o <<>> = OperandRows(c, names)
      BY <3>2, ConcatEmpty
    <3> QED
      BY <1>5, <3>1, <3>3, RowsFacts DEF OwnRows
  <2>9. Accounts(n, m, c, e)
    BY <1>2, <2>3, <2>5 DEF Accounts, Steps, SameBooks
  <2>10. type = Typed(TypeOf(c, e, branch))
    BY <1>5, <2>1, ScalarFacts DEF TypeOf
  <2> QED
    BY <2>2, <2>6, <2>7, <2>8, <2>9, <2>10, FoundFacts DEF Inferred
<1> QED
  BY <1>4, <1>5

LEMMA SelectInferred ==
    ASSUME NEW n, NEW c, NEW branch, Sees(n, c, branch), n.selections = c.selections,
           NEW e, e.op = "select"
    PROVE  Inferred(n, c, e, branch, Native!Select(n, e))
<1>1. PICK trials, wrong, a, f1, f2, m, type :
          /\ trials = Native!TypeOfVar(n, e.trials)
          /\ wrong = (trials.kind = "trials" /\ e.metric \notin ToSet(trials.metrics))
          /\ a = Native!Read(n, e.trials)
          /\ f1 = Native!ErrorIf(a, "F3105", trials.kind # "trials")
          /\ f2 = Native!ErrorIf(f1, "F3106", wrong)
          /\ m = [f2 EXCEPT !.selections = @ + 1]
          /\ type = [Native!Derived("selected", trials) EXCEPT !.selection = n.selections + 1]
  OBVIOUS
<1>2. Native!Select(n, e) = Native!Found(m, type)
  BY <1>1, SameLanguage DEF Native!Select
<1>3. PICK base, c1, c2, c3, r1 :
          /\ base = Lookup(c, e.trials) /\ c1 = ReadErrors(c, e.trials)
          /\ c2 = Flag("F3105", base.kind # "trials")
          /\ c3 = Flag("F3106", base.kind = "trials" /\ e.metric \notin ToSet(base.metrics))
          /\ r1 = <<Described("var", base)>>
  OBVIOUS
<1>4. OwnErrors(c, e, branch) = (c1 \o c2) \o c3
  BY <1>3 DEF OwnErrors, SelectErrors
<1>5. OwnRows(c, e) = r1
  <2>1. Operands(e) = <<e.trials>> /\ Literals(e) = <<>> /\ e.op # "call"
    BY DEF Operands, Literals
  <2>2. r1 \o <<>> = r1
    BY <1>3, OneItem, ConcatEmpty
  <2> QED
    BY <1>3, <2>1, <2>2, RowsFacts DEF OwnRows
<1>6. trials = Typed(base) /\ trials.kind = base.kind /\ trials.metrics = base.metrics
  BY <1>1, <1>3, LookupTyped, TypedFacts
<1>7. "F3105" \in Plain /\ "F3106" \in Plain
  BY DEF Plain
<1>8. Steps(n, a, c1, r1)
  BY <1>1, <1>3, ReadSteps
<1>9. Steps(a, f1, c2, <<>>)
  BY <1>1, <1>3, <1>6, <1>7, <1>8, PlainError DEF Steps, Moves
<1>10. Steps(f1, f2, c3, <<>>)
  <2>1. wrong <=> base.kind = "trials" /\ e.metric \notin ToSet(base.metrics)
    BY <1>1, <1>6
  <2>2. IsNative(f1)
    BY <1>9 DEF Steps, Moves
  <2> QED
    BY <1>1, <1>3, <1>7, <2>1, <2>2, PlainError
<1>11. IsNative(f2)
  BY <1>10 DEF Steps, Moves
<1>12. /\ IsNative(m) /\ SameView(f2, m) /\ SameOutput(f2, m) /\ m.used = f2.used
       /\ m.consumed = f2.consumed /\ m.snapshots = f2.snapshots
       /\ m.selections = f2.selections + 1
  BY <1>1, <1>11 DEF IsNative, SameView, SameOutput
<1>13. Moves(n, m, OwnErrors(c, e, branch), OwnRows(c, e))
  <2>1. Moves(n, f1, c1 \o c2, r1)
    BY <1>8, <1>9, NotedAfter DEF Steps
  <2>2. Moves(n, f2, (c1 \o c2) \o c3, r1)
    BY <1>10, <2>1, NotedAfter DEF Steps
  <2>3. Moves(n, m, (c1 \o c2) \o c3, r1)
    BY <1>12, <2>2, BookedAfter
  <2> QED
    BY <1>4, <1>5, <2>3
<1>14. Accounts(n, m, c, e)
  <2>1. EffectOf(c, e) = {} /\ Consumes(c, e) = {}
    BY DEF EffectOf, Consumes
  <2>2. SameBooks(n, f2)
    BY <1>8, <1>9, <1>10 DEF Steps, SameBooks
  <2> QED
    BY <1>12, <2>1, <2>2 DEF Accounts, SameBooks
<1>15. type = Typed(TypeOf(c, e, branch))
  <2>1. TypeOf(c, e, branch) =
           Binding("selected", base.resource, <<>>, base.lineage, c.selections + 1)
    BY <1>3 DEF TypeOf
  <2>2. type = [kind |-> "selected", resource |-> Native!Resolve(base.resource),
                metrics |-> <<>>, lineage |-> base.lineage, selection |-> n.selections + 1]
    BY <1>1, <1>6, TypedFacts DEF Native!Derived, Native!Type
  <2> QED
    BY <2>1, <2>2, BindingFacts
<1> QED
  BY <1>2, <1>13, <1>14, <1>15, FoundFacts DEF Inferred

LEMMA CommitInferred ==
    ASSUME NEW n, NEW c, NEW branch, Sees(n, c, branch), NEW e, e.op = "commit"
    PROVE  Inferred(n, c, e, branch, Native!Commit(n, e))
<1> DEFINE selected == Native!TypeOfVar(n, e.selected)
           wrong == Native!EffectsEnabled(n) /\ Native!InBranch(n)
           a == Native!ErrorIf(n, "F3102", wrong)
           b == Native!Read(a, e.selected)
           consumed == IF Native!OwnershipEnabled(n) /\ selected.selection # None
                       THEN b.consumed \cup {selected.selection} ELSE b.consumed
           d == [b EXCEPT !.consumed = consumed]
           misfit == selected.kind # "selected" \/ selected.resource # Native!Resolve(e.resource)
           f == Native!ErrorIf(d, "F3107", misfit)
           m == Native!UseEffect(f, "Commit", e.resource)
           type == Native!Type("outcome", Native!Resolve(e.resource), <<>>, selected.lineage)
<1>1. Native!Commit(n, e) = Native!Found(m, type)
  BY DEF Native!Commit
<1>2. PICK base, c1, c2, c3, r1 :
          /\ base = Lookup(c, e.selected) /\ c1 = Flag("F3102", branch # NoBranch)
          /\ c2 = ReadErrors(c, e.selected)
          /\ c3 = Flag("F3107", base.kind # "selected" \/ base.resource # e.resource)
          /\ r1 = <<Described("var", base)>>
  OBVIOUS
<1>3. OwnErrors(c, e, branch) = (c1 \o c2) \o c3
  BY <1>2 DEF OwnErrors, CommitErrors
<1>4. OwnRows(c, e) = r1
  <2>1. Operands(e) = <<e.selected>> /\ Literals(e) = <<>> /\ e.op # "call"
    BY DEF Operands, Literals
  <2>2. r1 \o <<>> = r1
    BY <1>2, OneItem, ConcatEmpty
  <2> QED
    BY <1>2, <2>1, <2>2, RowsFacts DEF OwnRows
<1>5. /\ selected = Typed(base) /\ selected.kind = base.kind /\ selected.lineage = base.lineage
      /\ selected.selection = base.selection /\ selected.resource = Native!Resolve(base.resource)
  BY <1>2, LookupTyped, TypedFacts
<1>6. IsNative(n) /\ (Native!InBranch(n) <=> branch # NoBranch)
  BY InsideFacts DEF Sees
<1>7. Steps(n, a, c1, <<>>)
  <2>1. "F3102" \in Permissions
    BY DEF Permissions
  <2>2. wrong <=> Native!EffectsEnabled(n) /\ branch # NoBranch
    BY <1>6
  <2> QED
    BY <1>2, <1>6, <2>1, <2>2, PermissionError
<1>8. Sees(a, c, branch) /\ IsNative(a) /\ SameView(n, a) /\ SameBooks(n, a)
  BY <1>7, SeesAfter
<1>9. Steps(a, b, c2, r1)
  BY <1>2, <1>8, ReadSteps
<1>10. IsNative(b) /\ SameView(a, b) /\ SameBooks(a, b)
  BY <1>9 DEF Steps, Moves
<1>11. /\ IsNative(d) /\ SameView(b, d) /\ SameOutput(b, d) /\ d.used = b.used
       /\ d.consumed = consumed /\ d.snapshots = b.snapshots /\ d.selections = b.selections
  BY <1>10 DEF IsNative, SameView, SameOutput
<1>12. Steps(d, f, c3, <<>>)
  <2>1. "F3107" \in Plain
    BY DEF Plain
  <2>2. misfit <=> base.kind # "selected" \/ base.resource # e.resource
    BY <1>5, ResourceFacts
  <2> QED
    BY <1>2, <1>11, <2>1, <2>2, PlainError
<1>13. IsNative(f) /\ SameView(d, f) /\ SameBooks(d, f)
  BY <1>12 DEF Steps, Moves
<1>14. /\ IsNative(m) /\ SameView(f, m) /\ SameOutput(f, m)
       /\ m.used = IF Native!EffectsEnabled(f) THEN f.used \cup {<<"Commit", e.resource>>} ELSE f.used
       /\ m.consumed = f.consumed /\ m.snapshots = f.snapshots /\ m.selections = f.selections
  <2>1. m = Native!UseEffect(f, "Commit", e.resource)
    OBVIOUS
  <2> QED
    BY <1>13, <2>1, UseEffectFacts
<1>16. Moves(n, m, OwnErrors(c, e, branch), OwnRows(c, e))
  <2>1. Moves(n, b, c1 \o c2, r1)
    BY <1>7, <1>9, ReadAfter DEF Steps
  <2>2. Moves(n, d, c1 \o c2, r1)
    BY <1>11, <2>1, BookedAfter
  <2>3. Moves(n, f, (c1 \o c2) \o c3, r1)
    BY <1>12, <2>2, NotedAfter DEF Steps
  <2>4. Moves(n, m, (c1 \o c2) \o c3, r1)
    BY <1>14, <2>3, BookedAfter
  <2> QED
    BY <1>3, <1>4, <2>4
<1>17. SameView(n, f)
  BY <1>8, <1>10, <1>11, <1>13 DEF SameView
<1>18. Accounts(n, m, c, e)
  <2> HIDE DEF a, b, d, f, m
  <2>1. EffectOf(c, e) = {<<"Commit", e.resource>>} /\ Consumes(c, e) = {base.selection} \ {None}
    BY <1>2 DEF EffectOf, Consumes
  <2>2. m.used = IF Native!EffectsEnabled(n)
                 THEN n.used \cup {<<"Commit", e.resource>>} ELSE n.used
    <3>1. Native!EffectsEnabled(f) <=> Native!EffectsEnabled(n)
      BY <1>17, Enabled
    <3>2. f.used = n.used
      BY <1>8, <1>10, <1>11, <1>13 DEF SameBooks
    <3> QED
      BY <1>14, <3>1, <3>2
  <2>3. m.consumed = consumed /\ b.consumed = n.consumed
    BY <1>8, <1>10, <1>11, <1>13, <1>14 DEF SameBooks
  <2>4. consumed = IF Native!OwnershipEnabled(n)
                   THEN n.consumed \cup ({base.selection} \ {None}) ELSE n.consumed
    BY <1>5, <2>3
  <2>5. m.snapshots = n.snapshots /\ m.selections = n.selections
    BY <1>8, <1>10, <1>11, <1>13, <1>14 DEF SameBooks
  <2> QED
    BY <2>1, <2>2, <2>3, <2>4, <2>5 DEF Accounts
<1>19. type = Typed(TypeOf(c, e, branch))
  <2>1. TypeOf(c, e, branch) = Binding("outcome", e.resource, <<>>, base.lineage, None)
    BY <1>2 DEF TypeOf
  <2> QED
    BY <1>5, <2>1, BindingFacts DEF Native!Type
<1> QED
  BY <1>1, <1>16, <1>18, <1>19, FoundFacts DEF Inferred

(* Checker::infer of whatever is no exploration.                           *)
LEMMA InferFacts ==
    ASSUME NEW n, NEW c, NEW branch, Sees(n, c, branch), n.snapshots = c.snapshots,
           n.selections = c.selections, NEW e, Worded(e), e.op # "explore"
    PROVE  Inferred(n, c, e, branch, Native!Infer(n, e))
<1>1. CASE e.op = "var"
  BY <1>1, VariableInferred DEF Native!Infer
<1>2. CASE e.op = "snapshot"
  BY <1>2, SnapshotInferred DEF Native!Infer
<1>3. CASE e.op = "propose"
  BY <1>3, ProposeInferred DEF Native!Infer
<1>4. CASE e.op = "simulate"
  BY <1>4, SimulateInferred DEF Native!Infer
<1>5. CASE e.op = "call"
  BY <1>5, CallInferred DEF Native!Infer, Worded
<1>6. CASE e.op = "select"
  BY <1>6, SelectInferred DEF Native!Infer
<1>7. CASE e.op = "commit"
  BY <1>7, CommitInferred DEF Native!Infer
<1> QED
  BY <1>1, <1>2, <1>3, <1>4, <1>5, <1>6, <1>7 DEF Worded, Operations

-----------------------------------------------------------------------------
(* Statements.                                                             *)
LEMMA TypeOfBinding ==
    ASSUME NEW n, NEW c, NEW branch, Sees(n, c, branch), NEW e, Worded(e)
    PROVE  IsBinding(TypeOf(c, e, branch))
<1>1. {"error", "snapshot", "plan", "plans", "simulated", "trials", "selected", "outcome",
       "int", "string", "bool"} \subseteq ValueKinds
  BY DEF ValueKinds
<1>2. CASE e.op = "var"
  BY <1>2, LookupTyped DEF TypeOf
<1>3. CASE e.op = "call"
  <2>1. PICK kind : kind = IF Offered(e) THEN Result[e.method] ELSE "error"
    OBVIOUS
  <2>2. kind \in ValueKinds
    BY <1>1, <2>1 DEF Offered, Result
  <2> QED
    BY <1>3, <2>1, <2>2, ScalarFacts DEF TypeOf
<1>4. CASE e.op = "simulate"
  BY <1>1, <1>4, BindingFacts DEF TypeOf
<1>5. CASE e.op \in {"snapshot", "propose", "explore", "select", "commit"}
  BY <1>1, <1>5, BindingFacts DEF TypeOf
<1> QED
  BY <1>2, <1>3, <1>4, <1>5 DEF Worded, Operations

LEMMA PermittedSteps ==
    ASSUME NEW n, IsNative(n), NEW branch, Inside(n, branch), NEW e
    PROVE  Steps(n, Native!Permitted(n, e), ForbiddenErrors(e, branch), <<>>)
<1>1. PICK code, wrong, reported :
          /\ code = IF e.op = "commit" THEN "F3102" ELSE "F3207"
          /\ wrong = (/\ Native!EffectsEnabled(n) /\ Native!InBranch(n)
                      /\ e.op \in BranchForbidden)
          /\ reported = (branch # NoBranch /\ e.op \in BranchForbidden)
  OBVIOUS
<1>2. code \in Permissions
  BY <1>1 DEF Permissions
<1>3. wrong <=> Native!EffectsEnabled(n) /\ reported
  BY <1>1, InsideFacts
<1>4. Native!Permitted(n, e) = Native!ErrorIf(n, code, wrong)
  BY <1>1, SameLanguage DEF Native!Permitted
<1>5. ForbiddenErrors(e, branch) = Flag(code, reported)
  BY <1>1 DEF ForbiddenErrors
<1> QED
  BY <1>2, <1>3, <1>4, <1>5, PermissionError

EnteredErrors(c, s, branch) ==
    Flag("F3204", s.kind = "let" /\ s.name \in Reserved)
      \o Flag("F3003", s.kind = "let" /\ s.name \in DOMAIN c.env)
      \o Flag("F3100", s.kind \in {"check", "measure"} /\ branch = NoBranch)
LEMMA EnteredSteps ==
    ASSUME NEW n, NEW c, NEW branch, Sees(n, c, branch), NEW s, s.kind \in Kinds
    PROVE  Steps(n, Native!Entered(n, s), EnteredErrors(c, s, branch), <<>>)
<1>1. PICK m, f, g, h :
          /\ m = Native!Entered(n, s)
          /\ f = Flag("F3204", s.kind = "let" /\ s.name \in Reserved)
          /\ g = Flag("F3003", s.kind = "let" /\ s.name \in DOMAIN c.env)
          /\ h = Flag("F3100", s.kind \in {"check", "measure"} /\ branch = NoBranch)
  OBVIOUS
<1>2. EnteredErrors(c, s, branch) = (f \o g) \o h
  BY <1>1 DEF EnteredErrors
<1>3. IsNative(n) /\ DOMAIN n.env = DOMAIN c.env /\ (~Native!InBranch(n) <=> branch = NoBranch)
  BY LookupTyped, InsideFacts DEF Sees
<1>4. "F3204" \in Plain /\ "F3003" \in Plain /\ "F3100" \in Plain
  BY DEF Plain
<1>5. IsList(f) /\ IsList(g) /\ IsList(h) /\ <<>> \o <<>> = <<>>
  BY <1>1, FlagFacts, EmptyList, ConcatEmpty
<1>6. CASE s.kind = "let"
  <2>1. PICK a : a = Native!ErrorIf(n, "F3204", s.name \in Reserved)
    OBVIOUS
  <2>2. m = Native!ErrorIf(a, "F3003", s.name \in DOMAIN n.env)
    BY <1>1, <1>6, <2>1 DEF Native!Entered
  <2>3. Steps(n, a, f, <<>>)
    <3>1. f = Flag("F3204", s.name \in Reserved)
      BY <1>1, <1>6 DEF Flag
    <3> QED
      BY <1>3, <1>4, <2>1, <3>1, PlainError
  <2>4. Steps(a, m, g, <<>>)
    <3>1. g = Flag("F3003", s.name \in DOMAIN c.env)
      BY <1>1, <1>6 DEF Flag
    <3>2. IsNative(a)
      BY <2>3 DEF Steps, Moves
    <3> QED
      BY <1>3, <1>4, <2>2, <3>1, <3>2, PlainError
  <2>5. Moves(n, m, f \o g, <<>>) /\ SameBooks(n, m)
    <3>1. Moves(n, m, f \o g, <<>>)
      BY <2>3, <2>4, NotedAfter DEF Steps
    <3> QED
      BY <2>3, <2>4, <3>1 DEF Steps, SameBooks
  <2>6. h = <<>>
    BY <1>1, <1>6 DEF Flag
  <2>7. (f \o g) \o h = f \o g
    BY <1>5, <2>6, ConcatFacts, ConcatEmpty
  <2> QED
    BY <1>1, <1>2, <2>5, <2>7 DEF Steps
<1>7. CASE s.kind = "return"
  <2>1. m = n /\ f = <<>> /\ g = <<>> /\ h = <<>>
    BY <1>1, <1>7 DEF Flag, Native!Entered
  <2>2. (f \o g) \o h = <<>>
    BY <1>5, <2>1
  <2> QED
    BY <1>1, <1>2, <1>3, <2>1, <2>2, NothingMoves
<1>8. CASE s.kind \in {"check", "measure"}
  <2>1. m = Native!ErrorIf(n, "F3100", ~Native!InBranch(n))
    BY <1>1, <1>8 DEF Native!Entered
  <2>2. f = <<>> /\ g = <<>>
    BY <1>1, <1>8 DEF Flag
  <2>3. h = Flag("F3100", branch = NoBranch)
    BY <1>1, <1>8 DEF Flag
  <2>4. Steps(n, m, h, <<>>)
    BY <1>3, <1>4, <2>1, <2>3, PlainError
  <2>5. (f \o g) \o h = h
    BY <1>5, <2>2, ConcatEmpty
  <2> QED
    BY <1>1, <1>2, <2>4, <2>5
<1> QED
  BY <1>6, <1>7, <1>8 DEF Kinds

(* A native checker that follows the reference through the statements of a *)
(* branch: it sees the same, has the same books as far as its stage keeps  *)
(* them, told the same codes and laid the same rows, but for the pending.  *)
IsReference(c) ==
    c = [env |-> c.env, used |-> c.used, snapshots |-> c.snapshots, selections |-> c.selections,
         consumed |-> c.consumed, diagnostics |-> c.diagnostics, types |-> c.types]
Follows(n, c, branch, before, pending) ==
    /\ IsReference(c) /\ Sees(n, c, branch)
    /\ n.used = IF Native!EffectsEnabled(n) THEN c.used ELSE {}
    /\ n.snapshots = c.snapshots /\ n.selections = c.selections
    /\ \E codes : Ordinary(codes) /\ c.diagnostics = before \o codes /\ Told(n, codes)
    /\ Table(n, c.types, pending)

LEMMA ToldFurther ==
    ASSUME NEW n, NEW m, NEW told, NEW codes, NEW rows, Moves(n, m, codes, rows),
           Ordinary(told), Told(n, told)
    PROVE  /\ Ordinary(told \o codes) /\ Told(m, told \o codes)
           /\ \A before : IsList(before) => (before \o told) \o codes = before \o (told \o codes)
<1>1. IsList(told) /\ ToSet(told) \subseteq Codes /\ IsList(codes) /\ ToSet(codes) \subseteq Codes
  BY DEF Moves, Adds, Ordinary
<1>2. PICK further : further = told \o codes
  OBVIOUS
<1>3. Told(m, further)
  BY <1>1, <1>2 DEF Moves, Adds
<1>4. Ordinary(further)
  BY <1>1, <1>2, ConcatFacts DEF Ordinary
<1>5. \A before : IsList(before) => (before \o told) \o codes = before \o (told \o codes)
  BY <1>1, ConcatAgain
<1> QED
  BY <1>2, <1>3, <1>4, <1>5

LEMMA FollowsSteps ==
    ASSUME NEW n, NEW c, NEW branch, NEW before, IsList(before), NEW pending,
           Follows(n, c, branch, before, pending), NEW m, NEW codes, Steps(n, m, codes, <<>>)
    PROVE  /\ Follows(m, Reported(c, codes), branch, before, pending)
           /\ m.nodes = n.nodes /\ m.stage = n.stage /\ Reported(c, codes).types = c.types
           /\ Reported(c, codes).env = c.env
<1>1. PICK d : d = Reported(c, codes)
  OBVIOUS
<1>2. /\ IsReference(d) /\ d.env = c.env /\ d.used = c.used /\ d.snapshots = c.snapshots
      /\ d.selections = c.selections /\ d.consumed = c.consumed /\ d.types = c.types
      /\ d.diagnostics = c.diagnostics \o codes
  BY <1>1 DEF Reported, IsReference, Follows
<1>3. IsNative(m) /\ SameView(n, m) /\ SameBooks(n, m) /\ Moves(n, m, codes, <<>>)
  BY DEF Steps, Moves
<1>4. Sees(m, d, branch)
  <2>1. Sees(m, c, branch)
    BY <1>3, SeesFurther DEF Follows, SameBooks
  <2> QED
    BY <1>2, <2>1 DEF Sees
<1>5. \E further : Ordinary(further) /\ d.diagnostics = before \o further /\ Told(m, further)
  <2>1. PICK told : Ordinary(told) /\ c.diagnostics = before \o told /\ Told(n, told)
    BY DEF Follows
  <2>2. PICK further : further = told \o codes
    OBVIOUS
  <2>3. Ordinary(further) /\ Told(m, further)
    BY <1>3, <2>1, <2>2, ToldFurther
  <2>4. (before \o told) \o codes = before \o further
    BY <1>3, <2>1, <2>2, ToldFurther
  <2> QED
    BY <1>2, <2>1, <2>3, <2>4
<1>6. Table(m, d.types, pending)
  <2>1. Table(n, c.types, pending)
    BY DEF Follows
  <2>2. Table(m, c.types \o <<>>, pending)
    BY <1>3, <2>1 DEF Moves, Lays
  <2>3. c.types \o <<>> = c.types
    BY <2>1, ConcatEmpty DEF Table
  <2> QED
    BY <1>2, <2>2, <2>3
<1>7. m.nodes = n.nodes
  BY <1>2, <1>6 DEF Table, Follows
<1>8. m.used = IF Native!EffectsEnabled(m) THEN d.used ELSE {}
  BY <1>2, <1>3, Enabled DEF Follows, SameBooks
<1>9. m.snapshots = d.snapshots /\ m.selections = d.selections
  BY <1>2, <1>3 DEF Follows, SameBooks
<1>10. m.stage = n.stage
  BY <1>3 DEF SameView
<1> QED
  BY <1>1, <1>2, <1>4, <1>5, <1>6, <1>7, <1>8, <1>9, <1>10 DEF Follows

LEMMA FollowsBind ==
    ASSUME NEW n, NEW c, NEW branch, NEW before, NEW pending,
           Follows(n, c, branch, before, pending), NEW name, NEW b, IsBinding(b)
    PROVE  /\ Follows(Native!Bind(n, name, Typed(b)), [c EXCEPT !.env = Bind(@, name, b)],
                      branch, before, pending)
           /\ Native!Bind(n, name, Typed(b)).stage = n.stage
<1>1. PICK m, d, env :
          /\ env = Bind(c.env, name, b)
          /\ m = Native!Bind(n, name, Typed(b)) /\ d = [c EXCEPT !.env = env]
  OBVIOUS
<1>2. /\ IsReference(d) /\ d.env = env /\ d.used = c.used /\ d.snapshots = c.snapshots
      /\ d.selections = c.selections /\ d.consumed = c.consumed /\ d.types = c.types
      /\ d.diagnostics = c.diagnostics
  BY <1>1 DEF IsReference, Follows
<1>3. DOMAIN env = DOMAIN c.env \cup {name}
        /\ \A x \in DOMAIN env : env[x] = IF x = name THEN b ELSE c.env[x]
  BY <1>1 DEF Bind
<1>4. PICK types : types = [x \in DOMAIN env |-> Typed(env[x])]
  OBVIOUS
<1>5. Sees(n, c, branch)
  BY DEF Follows
<1>6. DOMAIN n.env = DOMAIN c.env /\ \A x \in DOMAIN c.env : n.env[x] = Typed(c.env[x])
  BY <1>5 DEF Sees
<1>7. types = [x \in DOMAIN n.env \cup {name} |-> IF x = name THEN Typed(b) ELSE n.env[x]]
  BY <1>3, <1>4, <1>6
<1>8. m = [n EXCEPT !.env = types]
  BY <1>1, <1>7 DEF Native!Bind
<1>9. /\ IsNative(m) /\ m.env = types /\ SameBooks(n, m) /\ SameOutput(n, m)
      /\ m.stage = n.stage /\ m.base = n.base /\ m.resource = n.resource
  BY <1>5, <1>8 DEF IsNative, Sees, SameBooks, SameOutput
<1>10. Native!OwnershipEnabled(m) <=> Native!OwnershipEnabled(n)
  BY <1>9 DEF Native!OwnershipEnabled
<1>11. \A x \in DOMAIN env : IsBinding(env[x])
  BY <1>3, <1>5 DEF Sees
<1>12. Inside(m, branch)
  BY <1>5, <1>9 DEF Sees, Inside
<1>13. Sees(m, d, branch)
  BY <1>2, <1>4, <1>5, <1>9, <1>10, <1>11, <1>12 DEF Sees, SameBooks
<1>14. m.used = IF Native!EffectsEnabled(m) THEN d.used ELSE {}
  <2>1. Native!EffectsEnabled(m) <=> Native!EffectsEnabled(n)
    BY <1>9 DEF Native!EffectsEnabled
  <2> QED
    BY <1>2, <1>9, <2>1 DEF Follows, SameBooks
<1>15. \A told : Told(n, told) => Told(m, told)
  BY <1>9 DEF Told, SameOutput
<1>16. Table(m, d.types, pending)
  BY <1>2, <1>9 DEF Table, Follows, SameOutput
<1>17. Follows(m, d, branch, before, pending)
  BY <1>2, <1>9, <1>13, <1>14, <1>15, <1>16 DEF Follows, SameBooks
<1>18. d = [c EXCEPT !.env = Bind(@, name, b)]
  BY <1>1
<1> QED
  BY <1>1, <1>9, <1>17, <1>18

LEMMA ErrorsInOrder ==
    ASSUME NEW c, NEW e, NEW branch
    PROVE  ErrorsOf(c, e, branch) = ForbiddenErrors(e, branch) \o OwnErrors(c, e, branch)
BY DEF ErrorsOf, OwnErrors

LEMMA TypesInOrder ==
    ASSUME NEW c, NEW e, NEW branch, Worded(e)
    PROVE  /\ TypesOf(c, e, branch) = <<Described(e.op, TypeOf(c, e, branch))>> \o OwnRows(c, e)
           /\ IsList(OwnRows(c, e)) /\ IsList(TypesOf(c, e, branch))
<1>1. PICK one, operands, literals :
          /\ one = <<Described(e.op, TypeOf(c, e, branch))>>
          /\ operands = IF e.op = "call" /\ ~Offered(e) THEN <<>> ELSE OperandRows(c, Operands(e))
          /\ literals = LiteralRows(Literals(e))
  OBVIOUS
<1>2. IsList(Operands(e)) /\ IsList(Literals(e))
  <2>1. \A x, y : IsList(<<x>>) /\ IsList(<<x, y>>)
    BY DEF IsList, ToSet
  <2> QED
    BY <2>1, EmptyList DEF Worded, Operations, Operands, Literals
<1>3. IsList(one) /\ IsList(operands) /\ IsList(literals)
  <2>1. IsList(OperandRows(c, Operands(e)))
    BY <1>2, OperandRowsList
  <2>2. IsList(LiteralRows(Literals(e)))
    <3>1. PICK k, f : k = Len(Literals(e)) /\ f = LiteralRows(Literals(e))
      OBVIOUS
    <3>2. k \in Nat /\ f = [i \in 1 .. k |-> f[i]]
      BY <1>2, <3>1, ListFacts DEF LiteralRows
    <3> QED
      BY <3>1, <3>2, ListOf
  <2>3. IsList(one)
    BY <1>1, OneItem
  <2> QED
    BY <1>1, <2>1, <2>2, <2>3, EmptyList
<1>4. TypesOf(c, e, branch) = (one \o operands) \o literals
  BY <1>1 DEF TypesOf, OperandRows, LiteralRows
<1>5. OwnRows(c, e) = operands \o literals
  BY <1>1 DEF OwnRows
<1>6. (one \o operands) \o literals = one \o (operands \o literals)
  BY <1>3, ConcatAgain
<1>7. IsList(operands \o literals) /\ IsList(one \o (operands \o literals))
  BY <1>3, ConcatFacts
<1> QED
  BY <1>1, <1>4, <1>5, <1>6, <1>7

(* The books of the reference after an expression.                         *)
Accounted(c, d, e) ==
    /\ IsReference(d) /\ d.env = c.env
    /\ d.used = c.used \cup EffectOf(c, e) /\ d.consumed = c.consumed \cup Consumes(c, e)
    /\ d.snapshots = (IF e.op = "snapshot" THEN c.snapshots + 1 ELSE c.snapshots)
    /\ d.selections = (IF e.op = "select" THEN c.selections + 1 ELSE c.selections)
(* What an expression adds to the reference's codes and types.             *)
Grown(c, d, codes, rows) ==
    d.diagnostics = c.diagnostics \o codes /\ d.types = c.types \o rows
LEMMA VisitedFacts ==
    ASSUME NEW c, IsReference(c), NEW e, NEW branch
    PROVE  LET d == Visited(c, e, branch) IN
           /\ Accounted(c, d, e)
           /\ d.diagnostics = c.diagnostics \o ErrorsOf(c, e, branch)
           /\ d.types = c.types \o TypesOf(c, e, branch)
<1>1. KeepTypes
  BY CompilersAssumption
<1>2. PICK used, consumed, snapshots, selections, codes, rows :
          /\ used = c.used \cup EffectOf(c, e) /\ consumed = c.consumed \cup Consumes(c, e)
          /\ snapshots = (IF e.op = "snapshot" THEN c.snapshots + 1 ELSE c.snapshots)
          /\ selections = (IF e.op = "select" THEN c.selections + 1 ELSE c.selections)
          /\ codes = c.diagnostics \o ErrorsOf(c, e, branch)
          /\ rows = c.types \o TypesOf(c, e, branch)
  OBVIOUS
<1>3. Visited(c, e, branch) =
         [c EXCEPT !.diagnostics = codes, !.used = used, !.snapshots = snapshots,
                   !.selections = selections, !.consumed = consumed, !.types = rows]
  BY <1>1, <1>2 DEF Visited
<1> QED
  BY <1>2, <1>3 DEF IsReference, Accounted

LEMMA FollowsMoves ==
    ASSUME NEW n, NEW c, NEW branch, NEW before, IsList(before), NEW pending,
           Follows(n, c, branch, before, pending), NEW e, NEW m, NEW codes, NEW rows,
           Moves(n, m, codes, rows), Accounts(n, m, c, e), NEW d, Accounted(c, d, e),
           Grown(c, d, codes, rows)
    PROVE  Follows(m, d, branch, before, pending) /\ m.stage = n.stage
<1>1. IsNative(m) /\ SameView(n, m)
  BY DEF Moves
<1>2. /\ Native!EffectsEnabled(m) <=> Native!EffectsEnabled(n)
      /\ Native!OwnershipEnabled(m) <=> Native!OwnershipEnabled(n)
  BY <1>1, Enabled
<1>3. Sees(n, c, branch)
  BY DEF Follows
<1>4. Sees(m, d, branch)
  <2>1. None \notin Consumes(c, e)
    BY DEF Consumes
  <2>2. m.consumed = IF Native!OwnershipEnabled(m) THEN d.consumed ELSE {}
    BY <1>2, <1>3 DEF Accounts, Accounted, Sees
  <2>3. Inside(m, branch) /\ m.env = n.env
    BY <1>1, <1>3 DEF Sees, Inside, SameView
  <2> QED
    BY <1>1, <1>3, <2>1, <2>2, <2>3 DEF Sees, Accounted
<1>5. m.used = IF Native!EffectsEnabled(m) THEN d.used ELSE {}
  BY <1>2 DEF Accounts, Accounted, Follows
<1>6. m.snapshots = d.snapshots /\ m.selections = d.selections
  BY DEF Accounts, Accounted, Follows
<1>7. \E further : Ordinary(further) /\ d.diagnostics = before \o further /\ Told(m, further)
  <2>1. PICK told : Ordinary(told) /\ c.diagnostics = before \o told /\ Told(n, told)
    BY DEF Follows
  <2>2. PICK further : further = told \o codes
    OBVIOUS
  <2>3. Ordinary(further) /\ Told(m, further)
    BY <2>1, <2>2, ToldFurther
  <2>4. (before \o told) \o codes = before \o further
    BY <2>1, <2>2, ToldFurther
  <2> QED
    BY <2>1, <2>3, <2>4 DEF Grown
<1>8. Table(m, d.types, pending)
  BY DEF Moves, Lays, Follows, Grown
<1> QED
  BY <1>1, <1>4, <1>5, <1>6, <1>7, <1>8 DEF Follows, SameView, Accounted

LEMMA FollowsVisited ==
    ASSUME NEW n, NEW c, NEW branch, NEW before, IsList(before), NEW pending,
           Follows(n, c, branch, before, pending), NEW e, NEW m,
           Moves(n, m, ErrorsOf(c, e, branch), TypesOf(c, e, branch)), Accounts(n, m, c, e)
    PROVE  Follows(m, Visited(c, e, branch), branch, before, pending) /\ m.stage = n.stage
<1>1. PICK d, codes, rows :
          /\ d = Visited(c, e, branch) /\ codes = ErrorsOf(c, e, branch)
          /\ rows = TypesOf(c, e, branch)
  OBVIOUS
<1>2. IsReference(c)
  BY DEF Follows
<1>3. Accounted(c, d, e) /\ Grown(c, d, codes, rows)
  BY <1>1, <1>2, VisitedFacts DEF Grown
<1>4. Moves(n, m, codes, rows)
  BY <1>1
<1>5. Follows(m, d, branch, before, pending) /\ m.stage = n.stage
  BY <1>3, <1>4, FollowsMoves
<1> QED
  BY <1>1, <1>5

LEMMA MismatchFacts ==
    ASSUME NEW annotation, NEW b, IsBinding(b)
    PROVE  Native!Mismatch(annotation, Typed(b)) <=> ~Describes(annotation, b)
<1>1. PICK expected, resource :
          /\ expected = IF annotation.name \in DOMAIN TypeNames
                        THEN TypeNames[annotation.name] ELSE None
          /\ resource = IF expected \in Unplaced THEN None ELSE b.resource
  OBVIOUS
<1>2. Native!Report(Typed(b)).resource = b.resource /\ Typed(b).kind = b.kind
  BY TypedFacts, ResourceFacts DEF Native!Report
<1>3. Native!Mismatch(annotation, Typed(b)) <=>
         expected # b.kind \/ annotation.resource # resource
  BY <1>1, <1>2, SameLanguage DEF Native!Mismatch
<1>4. b.kind # None
  BY NoneIsNothing DEF IsBinding
<1> QED
  BY <1>1, <1>3, <1>4 DEF Describes

LEMMA FollowsSettled ==
    ASSUME NEW n, NEW c, NEW branch, NEW before, IsList(before), NEW pending,
           Follows(n, c, branch, before, pending), NEW s, s.kind \in Kinds, NEW b, IsBinding(b)
    PROVE  /\ Follows(Native!Settled(n, s, Typed(b)), Settled(c, s, b, branch),
                      branch, before, pending)
           /\ Settled(c, s, b, branch).types = c.types
           /\ Native!Settled(n, s, Typed(b)).stage = n.stage
<1>1. IsNative(n) /\ (Native!InBranch(n) <=> branch # NoBranch) /\ IsReference(c)
  BY InsideFacts DEF Sees, Follows
<1>2. "F3300" \in Plain /\ "F3203" \in Plain /\ "F3205" \in Plain
  BY DEF Plain
<1>3. Typed(b).kind = b.kind
  BY TypedFacts
<1>4. CASE s.kind = "let"
  <2>1. PICK wrong, reported, m, d :
            /\ wrong = ("annotation" \in DOMAIN s /\ Native!Mismatch(s.annotation, Typed(b)))
            /\ reported = ("annotation" \in DOMAIN s /\ ~Describes(s.annotation, b))
            /\ m = Native!ErrorIf(n, "F3300", wrong) /\ d = Reported(c, Flag("F3300", reported))
    OBVIOUS
  <2>2. wrong <=> reported
    BY <2>1, MismatchFacts
  <2>3. Steps(n, m, Flag("F3300", reported), <<>>)
    BY <1>1, <1>2, <2>1, <2>2, PlainError
  <2>4. /\ Follows(m, d, branch, before, pending) /\ d.env = c.env /\ d.types = c.types
        /\ m.stage = n.stage
    BY <2>1, <2>3, FollowsSteps
  <2>5. /\ Follows(Native!Bind(m, s.name, Typed(b)), [d EXCEPT !.env = Bind(@, s.name, b)],
                   branch, before, pending)
        /\ Native!Bind(m, s.name, Typed(b)).stage = m.stage
    BY <2>4, FollowsBind
  <2>6. Native!Settled(n, s, Typed(b)) = Native!Bind(m, s.name, Typed(b))
    BY <1>4, <2>1 DEF Native!Settled
  <2>7. PICK codes, env : codes = Flag("F3300", reported) /\ env = Bind(c.env, s.name, b)
    OBVIOUS
  <2>8. Settled(c, s, b, branch) = Reported([c EXCEPT !.env = env], codes)
    BY <1>4, <2>1, <2>7 DEF Settled
  <2>9. [d EXCEPT !.env = Bind(@, s.name, b)] = [d EXCEPT !.env = env]
    BY <2>4, <2>7
  <2>10. Reported([c EXCEPT !.env = env], codes) = [d EXCEPT !.env = env]
    BY <1>1, <2>1, <2>7 DEF Reported, IsReference
  <2>11. [d EXCEPT !.env = env].types = c.types
    BY <1>1, <2>1 DEF Reported, IsReference
  <2> QED
    BY <2>4, <2>5, <2>6, <2>8, <2>9, <2>10, <2>11
<1>5. CASE s.kind # "let"
  <2>1. PICK code, wrong, reported :
            /\ code = IF s.kind = "return" THEN "F3203" ELSE "F3205"
            /\ wrong = IF s.kind = "return"
                       THEN Native!InBranch(n) \/ Typed(b).kind # "outcome"
                       ELSE IF s.kind = "check" THEN Typed(b).kind # "bool"
                            ELSE Typed(b).kind # "int" \/ s.type # "Int"
            /\ reported = IF s.kind = "return"
                          THEN branch # NoBranch \/ b.kind # "outcome"
                          ELSE IF s.kind = "check" THEN b.kind # "bool"
                               ELSE b.kind # "int" \/ s.type # "Int"
    OBVIOUS
  <2>2. wrong <=> reported
    BY <1>1, <1>3, <2>1
  <2>3. PICK m : m = Native!ErrorIf(n, code, wrong)
    OBVIOUS
  <2>4. code \in Plain
    BY <1>2, <2>1
  <2>5. Steps(n, m, Flag(code, reported), <<>>)
    BY <1>1, <2>2, <2>3, <2>4, PlainError
  <2>6. /\ Follows(m, Reported(c, Flag(code, reported)), branch, before, pending)
        /\ Reported(c, Flag(code, reported)).types = c.types /\ m.stage = n.stage
    BY <2>5, FollowsSteps
  <2>7. Native!Settled(n, s, Typed(b)) = m
    BY <1>5, <2>1, <2>3 DEF Native!Settled, Kinds
  <2>8. Settled(c, s, b, branch) = Reported(c, Flag(code, reported))
    BY <1>5, <2>1 DEF Settled, Kinds
  <2> QED
    BY <2>6, <2>7, <2>8
<1> QED
  BY <1>4, <1>5

WellFormed(level, s) ==
    /\ s.kind \in Kinds /\ Worded(s.value)
    /\ s.value.op = "explore" =>
          \/ level = 2 /\ Flat(s.value.body)
          \/ level = 3 /\ Nesting(s.value.body)
Extends(first, types) == \E further : IsList(further) /\ types = first \o further
Faithful(level) ==
    \A n, c, branch, s, before, pending :
        WellFormed(level, s) /\ IsList(before) /\ Follows(n, c, branch, before, pending)
          => /\ Follows(NativeAtLevel(level, n, s), AtLevel(level, c, s, branch),
                        branch, before, pending)
             /\ Extends(c.types, AtLevel(level, c, s, branch).types)
             /\ NativeAtLevel(level, n, s).stage = n.stage
Levels == {1, 2, 3}
BodyAt(level, c, e) == IF level = 2 THEN InnerBody(c, e) ELSE CheckBody(c, e)
NativeBodyAt(level, n, e) == IF level = 2 THEN Native!Inner(n, e) ELSE Native!Outer(n, e)

LEMMA ExtendsFacts ==
    /\ \A a : IsList(a) => Extends(a, a)
    /\ \A a, b, c : IsList(a) /\ Extends(a, b) /\ Extends(b, c) => Extends(a, c)
<1>1. ASSUME NEW a, IsList(a) PROVE Extends(a, a)
  BY <1>1, EmptyList, ConcatEmpty DEF Extends
<1>2. ASSUME NEW a, NEW b, NEW c, IsList(a), Extends(a, b), Extends(b, c) PROVE Extends(a, c)
  <2>1. PICK x : IsList(x) /\ b = a \o x
    BY <1>2 DEF Extends
  <2>2. PICK y : IsList(y) /\ c = b \o y
    BY <1>2 DEF Extends
  <2>3. (a \o x) \o y = a \o (x \o y)
    BY <1>2, <2>1, <2>2, ConcatAgain
  <2>4. IsList(x \o y)
    BY <2>1, <2>2, ConcatFacts
  <2> QED
    BY <2>1, <2>2, <2>3, <2>4 DEF Extends
<1> QED
  BY <1>1, <1>2

LEMMA EnteredReported ==
    ASSUME NEW c, NEW s, NEW branch
    PROVE  Entered(c, s, branch) = Reported(c, EnteredErrors(c, s, branch))
BY DEF Entered, EnteredErrors

LEMMA Unfolded ==
    ASSUME NEW level \in Levels, NEW c, NEW s, NEW branch
    PROVE  LET entered == Entered(c, s, branch)
               visited == Visited(entered, s.value, branch)
           IN  /\ s.value.op # "explore" =>
                     AtLevel(level, c, s, branch) =
                        Settled(visited, s, TypeOf(entered, s.value, branch), branch)
               /\ s.value.op = "explore" /\ level # 1 =>
                     AtLevel(level, c, s, branch) =
                        Settled(BodyAt(level, visited, s.value), s,
                                TypeOf(entered, s.value, branch), branch)
<1>1. CASE level = 1
  BY <1>1 DEF AtLevel, InnerStatement, StatementWith
<1>2. CASE level = 2
  BY <1>2 DEF AtLevel, BranchStatement, StatementWith, BodyAt
<1>3. CASE level = 3
  BY <1>3 DEF AtLevel, StatementWith, BodyAt
<1> QED
  BY <1>1, <1>2, <1>3 DEF Levels

LEMMA NativeUnfolded ==
    ASSUME NEW level \in Levels, NEW n, NEW s
    PROVE  LET seen == Native!Permitted(Native!Number(Native!Entered(n, s)), s.value)
               value == IF s.value.op = "explore"
                        THEN NativeBodyAt(level, seen, s.value) ELSE Native!Infer(seen, s.value)
           IN  s.value.op # "explore" \/ level # 1 =>
                 NativeAtLevel(level, n, s) =
                    Native!Settled(Native!Describe(value.checker, n.nodes, s.value.op, value.type),
                                   s, value.type)
<1>1. CASE level = 1
  BY <1>1 DEF NativeAtLevel, Native!Innermost, Native!StatementWith
<1>2. CASE level = 2
  BY <1>2 DEF NativeAtLevel, Native!BranchStatement, Native!StatementWith, NativeBodyAt
<1>3. CASE level = 3
  BY <1>3 DEF NativeAtLevel, Native!Statement, Native!StatementWith, NativeBodyAt
<1> QED
  BY <1>1, <1>2, <1>3 DEF Levels

(* A statement without an exploration.                                     *)
LEMMA PlainStatement ==
    ASSUME NEW level \in Levels, NEW n, NEW c, NEW branch, NEW s, NEW before, NEW pending,
           WellFormed(level, s), s.value.op # "explore", IsList(before),
           Follows(n, c, branch, before, pending)
    PROVE  /\ Follows(NativeAtLevel(level, n, s), AtLevel(level, c, s, branch),
                      branch, before, pending)
           /\ Extends(c.types, AtLevel(level, c, s, branch).types)
           /\ NativeAtLevel(level, n, s).stage = n.stage
<1>1. PICK e, a, b, seen, value, m :
          /\ e = s.value /\ a = Native!Entered(n, s) /\ b = Native!Number(a)
          /\ seen = Native!Permitted(b, e) /\ value = Native!Infer(seen, e)
          /\ m = Native!Describe(value.checker, n.nodes, e.op, value.type)
  OBVIOUS
<1>2. NativeAtLevel(level, n, s) = Native!Settled(m, s, value.type)
  BY <1>1, NativeUnfolded
<1>3. PICK ra, type, visited :
          /\ ra = Entered(c, s, branch) /\ type = TypeOf(ra, e, branch)
          /\ visited = Visited(ra, e, branch)
  OBVIOUS
<1>4. AtLevel(level, c, s, branch) = Settled(visited, s, type, branch)
  BY <1>1, <1>3, Unfolded
<1>5. Worded(e) /\ e.op # "explore" /\ s.kind \in Kinds
  BY <1>1 DEF WellFormed
<1>6. Steps(n, a, EnteredErrors(c, s, branch), <<>>)
  BY <1>1, <1>5, EnteredSteps DEF Follows
<1>7. /\ Follows(a, ra, branch, before, pending) /\ a.nodes = n.nodes /\ a.stage = n.stage
      /\ ra.types = c.types
  BY <1>3, <1>6, EnteredReported, FollowsSteps
<1>8. Sees(a, ra, branch) /\ IsNative(a) /\ a.snapshots = ra.snapshots /\ a.selections = ra.selections
  BY <1>7 DEF Follows, Sees
<1>9. IsNative(b) /\ SameView(a, b) /\ SameBooks(a, b)
  BY <1>1, <1>8, NumberFacts
<1>10. Sees(b, ra, branch)
  BY <1>8, <1>9, SeesFurther DEF SameBooks
<1>11. Steps(b, seen, ForbiddenErrors(e, branch), <<>>)
  BY <1>1, <1>10, PermittedSteps DEF Sees
<1>12. Sees(seen, ra, branch) /\ SameBooks(b, seen) /\ SameView(b, seen)
  BY <1>10, <1>11, SeesAfter
<1>13. Inferred(seen, ra, e, branch, value)
  <2>1. seen.snapshots = ra.snapshots /\ seen.selections = ra.selections
    BY <1>8, <1>9, <1>12 DEF SameBooks
  <2> QED
    BY <1>1, <1>5, <1>12, <2>1, InferFacts
<1>14. PICK v, codes, rows :
          v = value.checker /\ codes = ErrorsOf(ra, e, branch) /\ rows = OwnRows(ra, e)
  OBVIOUS
<1>15. Moves(seen, v, OwnErrors(ra, e, branch), rows) /\ Accounts(seen, v, ra, e) /\ value.type = Typed(type)
  BY <1>3, <1>13, <1>14 DEF Inferred
<1>16. Moves(b, v, codes, rows)
  <2>1. Moves(b, v, ForbiddenErrors(e, branch) \o OwnErrors(ra, e, branch), rows)
    BY <1>11, <1>15, ReadAfter DEF Steps
  <2> QED
    BY <1>14, <2>1, ErrorsInOrder
<1>17. Moves(a, m, codes, TypesOf(ra, e, branch)) /\ SameBooks(v, m)
  <2>1. Native!Report(value.type) = Described(e.op, type).type
    BY <1>15, TypedFacts
  <2>2. /\ Moves(a, Native!Describe(v, a.nodes, e.op, value.type), codes,
                 <<Described(e.op, type)>> \o rows)
        /\ SameBooks(v, Native!Describe(v, a.nodes, e.op, value.type))
    BY <1>1, <1>8, <1>16, <2>1, WholeExpression
  <2>3. m = Native!Describe(v, a.nodes, e.op, value.type)
    BY <1>1, <1>7, <1>14
  <2>4. TypesOf(ra, e, branch) = <<Described(e.op, type)>> \o rows
    BY <1>3, <1>5, <1>14, TypesInOrder
  <2> QED
    BY <2>2, <2>3, <2>4
<1>18. Accounts(a, m, ra, e)
  <2>1. SameBooks(a, seen) /\ SameView(a, seen)
    BY <1>9, <1>12 DEF SameBooks, SameView
  <2>2. /\ Native!EffectsEnabled(seen) <=> Native!EffectsEnabled(a)
        /\ Native!OwnershipEnabled(seen) <=> Native!OwnershipEnabled(a)
    BY <2>1, Enabled
  <2> QED
    BY <1>15, <1>17, <2>1, <2>2 DEF Accounts, SameBooks
<1>19. Follows(m, visited, branch, before, pending) /\ m.stage = a.stage
  BY <1>3, <1>7, <1>14, <1>17, <1>18, FollowsVisited
<1>20. IsBinding(type)
  BY <1>3, <1>5, <1>8, TypeOfBinding
<1>21. /\ Follows(Native!Settled(m, s, Typed(type)), Settled(visited, s, type, branch),
                  branch, before, pending)
       /\ Settled(visited, s, type, branch).types = visited.types
       /\ Native!Settled(m, s, Typed(type)).stage = m.stage
  BY <1>5, <1>19, <1>20, FollowsSettled
<1>22. Extends(c.types, visited.types)
  <2>1. IsReference(ra)
    BY <1>7 DEF Follows
  <2>2. visited.types = ra.types \o TypesOf(ra, e, branch)
    BY <1>3, <2>1, VisitedFacts
  <2> QED
    BY <1>5, <1>7, <2>2, TypesInOrder DEF Extends
<1> QED
  BY <1>2, <1>4, <1>7, <1>15, <1>19, <1>21, <1>22

-----------------------------------------------------------------------------
(* Explorations.  Entering one reports what the reference reports of it and *)
(* reads its operands.                                                     *)
ItemOf(c, e) == Binding("plan", ExploredResource(c, e), <<>>, Lookup(c, e.base).lineage, None)
Placed(n, base, resource) ==
    [n EXCEPT !.base = Typed(base), !.resource = Native!Resolve(resource)]
EntersAs(n, c, e, branch, named) ==
    /\ Moves(n, named, OwnErrors(c, e, branch), OwnRows(c, e))
    /\ Accounts(n, named, c, e)
    /\ Native!Enter(n, e) = Placed(Native!Bind(named, Item, Typed(ItemOf(c, e))),
                                   Lookup(c, e.base), ExploredResource(c, e))
LEMMA EnterFacts ==
    ASSUME NEW n, NEW c, NEW branch, Sees(n, c, branch), NEW e, e.op = "explore"
    PROVE  ExploredResource(c, e) # None /\ \E named : EntersAs(n, c, e, branch, named)
<1> DEFINE plans == Native!TypeOfVar(n, e.plans)
           base == Native!TypeOfVar(n, e.base)
           resource == IF Native!Explorable(plans, base) THEN base.resource
                       ELSE Native!ErrorResource
           wrong == Native!OwnershipEnabled(n) /\ Simulations(e.body) # 1
           counted == Native!ErrorIf(n, "F3401", wrong)
           first == Native!Read(counted, e.plans)
           read == Native!Read(first, e.base)
           explorable == Native!ErrorIf(read, "F3101", ~Native!Explorable(plans, base))
           used == Native!UseEffect(explorable, "Explore", resource.name)
           alike == Native!SameOrigin(used, plans, base)
           named == Native!ErrorIf(alike, "F3204", Item \in DOMAIN n.env)
<1>1. Native!Enter(n, e) =
         [Native!Bind(named, Item, Native!Type("plan", resource, <<>>, base.lineage))
             EXCEPT !.base = base, !.resource = resource]
  BY SameLanguage DEF Native!Enter
<1> HIDE DEF resource
<1>2. PICK p, b, c1, c2, c3, c4, c5, c6, r1, r2, r :
          /\ p = Lookup(c, e.plans) /\ b = Lookup(c, e.base) /\ r = ExploredResource(c, e)
          /\ c1 = Flag("F3401", ~SimulatesOnce(e.body))
          /\ c2 = ReadErrors(c, e.plans) /\ c3 = ReadErrors(c, e.base)
          /\ c4 = Flag("F3101", ~Explorable(p, b)) /\ c5 = Flag("F3301", ~SameOrigin(p, b))
          /\ c6 = Flag("F3204", Item \in DOMAIN c.env)
          /\ r1 = <<Described("var", p)>> /\ r2 = <<Described("var", b)>>
  OBVIOUS
<1>3. OwnErrors(c, e, branch) = ((((c1 \o c2) \o c3) \o c4) \o c5) \o c6
  BY <1>2 DEF OwnErrors, ExploreErrors
<1>4. OwnRows(c, e) = r1 \o r2
  <2>1. Operands(e) = <<e.plans, e.base>> /\ Literals(e) = <<>> /\ e.op # "call"
    BY DEF Operands, Literals
  <2>2. OwnRows(c, e) = OperandRows(c, <<e.plans, e.base>>) \o LiteralRows(<<>>)
    BY <2>1 DEF OwnRows
  <2>3. OperandRows(c, <<e.plans, e.base>>) = r1 \o r2 /\ LiteralRows(<<>>) = <<>>
    BY <1>2, RowsFacts
  <2>4. IsList(r1) /\ IsList(r2)
    BY <1>2, OneItem
  <2>5. IsList(r1 \o r2)
    BY <2>4, ConcatFacts
  <2>6. (r1 \o r2) \o <<>> = r1 \o r2
    BY <2>5, ConcatEmpty
  <2> QED
    BY <2>2, <2>3, <2>6
<1>5. plans = Typed(p) /\ base = Typed(b) /\ DOMAIN n.env = DOMAIN c.env /\ IsNative(n)
  BY <1>2, LookupTyped DEF Sees
<1>6. /\ plans.kind = p.kind /\ base.kind = b.kind /\ base.lineage = b.lineage
      /\ base.resource = Native!Resolve(b.resource)
  BY <1>5, TypedFacts
<1>7. Native!Explorable(plans, base) <=> Explorable(p, b)
  BY <1>6, ResourceFacts DEF Native!Explorable, Explorable
<1>8. r = (IF Explorable(p, b) THEN b.resource ELSE "<error>") /\ r # None
  BY <1>2, ResourceFacts DEF ExploredResource, Explorable
<1>9. resource = Native!Resolve(r) /\ resource.name = r
  BY <1>6, <1>7, <1>8, ResourceFacts DEF resource
<1>10. "F3101" \in Plain /\ "F3204" \in Plain /\ "F3401" \in Ownership
  BY DEF Plain, Ownership
<1>11. Steps(n, counted, c1, <<>>)
  <2>1. wrong <=> Native!OwnershipEnabled(n) /\ ~SimulatesOnce(e.body)
    BY DEF SimulatesOnce
  <2> HIDE DEF wrong
  <2> QED
    BY <1>2, <1>5, <1>10, <2>1, OwnershipError
<1> HIDE DEF wrong
<1>12. Sees(counted, c, branch) /\ SameView(n, counted) /\ SameBooks(n, counted)
  BY <1>11, SeesAfter
<1> HIDE DEF counted
<1>13. Steps(counted, first, c2, r1)
  BY <1>2, <1>12, ReadSteps
<1>14. Sees(first, c, branch) /\ SameView(counted, first) /\ SameBooks(counted, first)
  BY <1>12, <1>13, SeesAfter
<1> HIDE DEF first
<1>15. Steps(first, read, c3, r2)
  BY <1>2, <1>14, ReadSteps
<1>16. IsNative(read) /\ SameView(first, read) /\ SameBooks(first, read)
  BY <1>15 DEF Steps, Moves
<1> HIDE DEF read
<1>17. Steps(read, explorable, c4, <<>>)
  BY <1>2, <1>7, <1>10, <1>16, PlainError
<1>18. IsNative(explorable) /\ SameView(read, explorable) /\ SameBooks(read, explorable)
  BY <1>17 DEF Steps, Moves
<1> HIDE DEF explorable, plans, base
<1>19. /\ IsNative(used) /\ SameView(explorable, used) /\ SameOutput(explorable, used)
       /\ used.used = IF Native!EffectsEnabled(explorable)
                      THEN explorable.used \cup {<<"Explore", resource.name>>} ELSE explorable.used
       /\ used.consumed = explorable.consumed /\ used.snapshots = explorable.snapshots
       /\ used.selections = explorable.selections
  BY <1>18, UseEffectFacts
<1> HIDE DEF used
<1>20. Steps(used, alike, c5, <<>>)
  BY <1>2, <1>5, <1>19, OriginSteps
<1>21. IsNative(alike) /\ SameBooks(used, alike)
  BY <1>20 DEF Steps, Moves
<1> HIDE DEF alike
<1>22. Steps(alike, named, c6, <<>>)
  BY <1>2, <1>5, <1>10, <1>21, PlainError
<1>23. SameBooks(alike, named)
  BY <1>22 DEF Steps
<1> HIDE DEF named
<1>24. Moves(n, named, OwnErrors(c, e, branch), OwnRows(c, e))
  <2>1. Moves(n, first, c1 \o c2, r1)
    BY <1>11, <1>13, ReadAfter DEF Steps
  <2>2. Moves(n, read, (c1 \o c2) \o c3, r1 \o r2)
    BY <1>15, <2>1, MovesFurther DEF Steps
  <2>3. Moves(n, explorable, ((c1 \o c2) \o c3) \o c4, r1 \o r2)
    BY <1>17, <2>2, NotedAfter DEF Steps
  <2>4. Moves(n, used, ((c1 \o c2) \o c3) \o c4, r1 \o r2)
    BY <1>19, <2>3, BookedAfter
  <2>5. Moves(n, alike, (((c1 \o c2) \o c3) \o c4) \o c5, r1 \o r2)
    BY <1>20, <2>4, NotedAfter DEF Steps
  <2>6. Moves(n, named, ((((c1 \o c2) \o c3) \o c4) \o c5) \o c6, r1 \o r2)
    BY <1>22, <2>5, NotedAfter DEF Steps
  <2> QED
    BY <1>3, <1>4, <2>6
<1>25. Accounts(n, named, c, e)
  <2>1. EffectOf(c, e) = {<<"Explore", r>>} /\ Consumes(c, e) = {}
    BY <1>2 DEF EffectOf, Consumes
  <2>2. SameView(n, explorable) /\ SameBooks(n, explorable)
    BY <1>12, <1>14, <1>16, <1>18 DEF SameView, SameBooks
  <2>3. Native!EffectsEnabled(explorable) <=> Native!EffectsEnabled(n)
    BY <2>2, Enabled
  <2>4. SameBooks(used, named)
    BY <1>21, <1>23 DEF SameBooks
  <2> QED
    BY <1>9, <1>19, <2>1, <2>2, <2>3, <2>4 DEF Accounts, SameBooks
<1>26. Native!Type("plan", resource, <<>>, base.lineage) = Typed(ItemOf(c, e))
  BY <1>2, <1>6, <1>9, BindingFacts DEF ItemOf, Native!Type
<1> QED
  BY <1>1, <1>2, <1>5, <1>8, <1>9, <1>24, <1>25, <1>26 DEF EntersAs, Placed

Laid(c, row) == [c EXCEPT !.types = @ \o <<row>>]
LEMMA NumberedFollows ==
    ASSUME NEW n, NEW c, NEW branch, NEW before, NEW pending,
           Follows(n, c, branch, before, pending), NEW row
    PROVE  /\ Follows(Native!Number(n), Laid(c, row), branch, before, pending \cup {n.nodes})
           /\ IsReference(Laid(c, row)) /\ Laid(c, row).env = c.env
           /\ Laid(c, row).types = c.types \o <<row>>
           /\ Laid(c, row).used = c.used /\ Laid(c, row).consumed = c.consumed
           /\ Laid(c, row).snapshots = c.snapshots /\ Laid(c, row).selections = c.selections
           /\ Laid(c, row).diagnostics = c.diagnostics
           /\ IsList(c.types) /\ n.nodes = Len(c.types) /\ n.nodes \notin pending
<1>1. PICK m, p, types, d :
          /\ m = Native!Number(n) /\ p = pending \cup {n.nodes} /\ types = c.types \o <<row>>
          /\ d = Laid(c, row)
  OBVIOUS
<1>2. /\ IsReference(d) /\ d.env = c.env /\ d.used = c.used /\ d.snapshots = c.snapshots
      /\ d.selections = c.selections /\ d.consumed = c.consumed /\ d.types = types
      /\ d.diagnostics = c.diagnostics
  BY <1>1 DEF IsReference, Follows, Laid
<1>3. /\ IsNative(m) /\ SameView(n, m) /\ SameBooks(n, m)
      /\ m.errors = n.errors /\ m.nodes = n.nodes + 1 /\ m.expressions = n.expressions
  BY <1>1, NumberFacts DEF Follows, Sees
<1>4. Table(n, c.types, pending)
  BY DEF Follows
<1>5. Table(m, types, p)
  BY <1>1, <1>3, <1>4, NumberedTable
<1>6. Sees(m, d, branch)
  <2>1. Sees(m, c, branch)
    BY <1>3, SeesFurther DEF Follows, SameBooks
  <2> QED
    BY <1>2, <2>1 DEF Sees
<1>7. m.used = IF Native!EffectsEnabled(m) THEN d.used ELSE {}
  BY <1>2, <1>3, Enabled DEF Follows, SameBooks
<1>8. m.snapshots = d.snapshots /\ m.selections = d.selections
  BY <1>2, <1>3 DEF Follows, SameBooks
<1>9. \E codes : Ordinary(codes) /\ d.diagnostics = before \o codes /\ Told(m, codes)
  BY <1>2, <1>3 DEF Follows, Told, SameView
<1>10. Follows(m, d, branch, before, p)
  BY <1>2, <1>5, <1>6, <1>7, <1>8, <1>9 DEF Follows
<1>11. IsList(c.types) /\ n.nodes = Len(c.types) /\ n.nodes \notin pending
  <2>1. IsList(c.types) /\ n.nodes = Len(c.types) /\ pending \subseteq 0 .. n.nodes - 1
    BY <1>4 DEF Table
  <2>2. n.nodes \in Nat
    BY <2>1, ListFacts
  <2>3. n.nodes \notin 0 .. n.nodes - 1
    BY <2>2
  <2> QED
    BY <2>1, <2>3
<1> QED
  BY <1>1, <1>2, <1>10, <1>11

LEMMA DescribedFollows ==
    ASSUME NEW n, NEW c, NEW branch, NEW before, NEW pending,
           Follows(n, c, branch, before, pending), NEW node \in pending,
           NEW op, NEW b, c.types[node + 1] = Described(op, b)
    PROVE  /\ Follows(Native!Describe(n, node, op, Typed(b)), c, branch, before, pending \ {node})
           /\ Native!Describe(n, node, op, Typed(b)).stage = n.stage
<1>1. PICK m, p : m = Native!Describe(n, node, op, Typed(b)) /\ p = pending \ {node}
  OBVIOUS
<1>2. /\ IsNative(m) /\ SameView(n, m) /\ SameBooks(n, m)
      /\ m.errors = n.errors /\ m.nodes = n.nodes
      /\ m.expressions =
            Append(n.expressions, [node |-> node, op |-> op, type |-> Native!Report(Typed(b))])
  BY <1>1, DescribeFacts DEF Follows, Sees
<1>3. Table(n, c.types, pending)
  BY DEF Follows
<1>4. Entry(c.types, node + 1) = [node |-> node, op |-> op, type |-> Native!Report(Typed(b))]
  <2>1. (node + 1) - 1 = node
    <3>1. IsList(c.types) /\ n.nodes = Len(c.types) /\ pending \subseteq 0 .. n.nodes - 1
      BY <1>3 DEF Table
    <3>2. n.nodes \in Nat
      BY <3>1, ListFacts
    <3> QED
      BY <3>1, <3>2
  <2>2. Described(op, b).op = op /\ Described(op, b).type = Native!Report(Typed(b))
    BY TypedFacts DEF Described
  <2> QED
    BY <2>1, <2>2 DEF Entry
<1>5. Table(m, c.types, p)
  BY <1>1, <1>2, <1>3, <1>4, DescribedTable
<1>6. Sees(m, c, branch)
  BY <1>2, SeesFurther DEF Follows, SameBooks
<1>7. m.used = IF Native!EffectsEnabled(m) THEN c.used ELSE {}
  BY <1>2, Enabled DEF Follows, SameBooks
<1>8. m.snapshots = c.snapshots /\ m.selections = c.selections
  BY <1>2 DEF Follows, SameBooks
<1>9. \E codes : Ordinary(codes) /\ c.diagnostics = before \o codes /\ Told(m, codes)
  BY <1>2 DEF Follows, Told, SameView
<1>10. Follows(m, c, branch, before, p)
  BY <1>5, <1>6, <1>7, <1>8, <1>9 DEF Follows
<1> QED
  BY <1>1, <1>2, <1>10 DEF SameView

(* A checker that is put somewhere else.                                   *)
LEMMA FollowsElsewhere ==
    ASSUME NEW n, NEW c, NEW branch, NEW before, NEW pending,
           Follows(n, c, branch, before, pending), NEW there, NEW m, IsNative(m), NEW d, IsReference(d),
           SameBooks(n, m), SameOutput(n, m), m.stage = n.stage, Inside(m, there),
           d.used = c.used, d.snapshots = c.snapshots, d.selections = c.selections,
           d.consumed = c.consumed, d.types = c.types, d.diagnostics = c.diagnostics,
           \A name \in DOMAIN d.env : IsBinding(d.env[name]),
           m.env = [name \in DOMAIN d.env |-> Typed(d.env[name])]
    PROVE  Follows(m, d, there, before, pending)
<1>1. /\ Native!EffectsEnabled(m) <=> Native!EffectsEnabled(n)
      /\ Native!OwnershipEnabled(m) <=> Native!OwnershipEnabled(n)
  BY DEF Native!EffectsEnabled, Native!OwnershipEnabled
<1>2. Sees(m, d, there)
  <2>1. m.consumed = IF Native!OwnershipEnabled(m) THEN d.consumed ELSE {}
    BY <1>1 DEF Follows, Sees, SameBooks
  <2>2. None \notin d.consumed
    BY DEF Follows, Sees
  <2> QED
    BY <2>1, <2>2 DEF Sees
<1>3. m.used = IF Native!EffectsEnabled(m) THEN d.used ELSE {}
  BY <1>1 DEF Follows, SameBooks
<1>4. m.snapshots = d.snapshots /\ m.selections = d.selections
  BY DEF Follows, SameBooks
<1>5. \E codes : Ordinary(codes) /\ d.diagnostics = before \o codes /\ Told(m, codes)
  BY DEF Follows, Told, SameOutput
<1>6. Table(m, d.types, pending)
  BY DEF Follows, Table, SameOutput
<1> QED
  BY <1>2, <1>3, <1>4, <1>5, <1>6 DEF Follows

LEMMA FollowsInto ==
    ASSUME NEW n, NEW c, NEW branch, NEW before, NEW pending,
           Follows(n, c, branch, before, pending), NEW base, IsBinding(base),
           NEW resource, resource # None
    PROVE  /\ Follows(Placed(n, base, resource), c, Branch(resource, base), before, pending)
           /\ Placed(n, base, resource).stage = n.stage
           /\ Placed(n, base, resource).base = Typed(base)
           /\ Placed(n, base, resource).resource = Native!Resolve(resource)
<1>1. IsNative(n) /\ IsReference(c)
  BY DEF Follows, Sees
<1>2. PICK type, place, m :
          /\ type = Typed(base) /\ place = Native!Resolve(resource) /\ m = Placed(n, base, resource)
  OBVIOUS
<1>3. m = [n EXCEPT !.base = type, !.resource = place]
  BY <1>2 DEF Placed
<1>4. /\ IsNative(m) /\ SameBooks(n, m) /\ SameOutput(n, m) /\ m.stage = n.stage
      /\ m.base = type /\ m.resource = place /\ m.env = n.env
  BY <1>1, <1>3 DEF IsNative, SameBooks, SameOutput
<1>5. Inside(m, Branch(resource, base))
  BY <1>2, <1>4 DEF Inside, Branch
<1>6. /\ \A name \in DOMAIN c.env : IsBinding(c.env[name])
      /\ m.env = [name \in DOMAIN c.env |-> Typed(c.env[name])]
  BY <1>4 DEF Follows, Sees
<1>7. Follows(m, c, Branch(resource, base), before, pending)
  BY <1>1, <1>4, <1>5, <1>6, FollowsElsewhere
<1> QED
  BY <1>2, <1>4, <1>7

LEMMA FollowsOut ==
    ASSUME NEW n, NEW c, NEW inner, NEW before, NEW pending,
           Follows(n, c, inner, before, pending), NEW o, NEW oc, NEW branch, Sees(o, oc, branch),
           NEW env, env = oc.env, NEW m, m = Native!Leave(n, o)
    PROVE  Follows(m, [c EXCEPT !.env = env], branch, before, pending) /\ m.stage = n.stage
<1>1. PICK d : d = [c EXCEPT !.env = env]
  OBVIOUS
<1>2. /\ IsReference(d) /\ d.env = env /\ d.used = c.used /\ d.snapshots = c.snapshots
      /\ d.selections = c.selections /\ d.consumed = c.consumed /\ d.types = c.types
      /\ d.diagnostics = c.diagnostics
  BY <1>1 DEF IsReference, Follows
<1>3. IsNative(n)
  BY DEF Follows, Sees
<1>4. PICK e, type, place : e = o.env /\ type = o.base /\ place = o.resource
  OBVIOUS
<1>5. m = [n EXCEPT !.env = e, !.base = type, !.resource = place]
  BY <1>4 DEF Native!Leave
<1>6. /\ IsNative(m) /\ SameBooks(n, m) /\ SameOutput(n, m) /\ m.stage = n.stage
      /\ m.base = type /\ m.resource = place /\ m.env = e
  BY <1>3, <1>5 DEF IsNative, SameBooks, SameOutput
<1>7. Inside(m, branch)
  BY <1>4, <1>6 DEF Inside, Sees
<1>8. /\ \A name \in DOMAIN d.env : IsBinding(d.env[name])
      /\ m.env = [name \in DOMAIN d.env |-> Typed(d.env[name])]
  BY <1>2, <1>4, <1>6 DEF Sees
<1>9. Follows(m, d, branch, before, pending)
  BY <1>2, <1>6, <1>7, <1>8, FollowsElsewhere
<1> QED
  BY <1>1, <1>6, <1>9

(* A body is gone through statement by statement.                          *)
Deeper(level) == IF level = 2 THEN 1 ELSE 2
InnerBranch(c, e) == Branch(ExploredResource(c, e), Lookup(c, e.base))
ReferenceLoop(level, c, e) ==
    [of |-> "reference", level |-> Deeper(level), e |-> e, branch |-> InnerBranch(c, e)]
NativeLoop(level, e) == [of |-> "native", level |-> Deeper(level), e |-> e]
InnerStart(c, e) == [c EXCEPT !.env = Bind(@, Item, ItemOf(c, e))]

LEMMA BodyUnfolded ==
    ASSUME NEW level \in {2, 3}, NEW c, NEW e, Len(e.body) \in Nat
    PROVE  \E h : /\ Looped(ReferenceLoop(level, c, e), InnerStart(c, e), h, Len(e.body))
                  /\ BodyAt(level, c, e) = [h[Len(e.body)] EXCEPT !.env = c.env]
<1>1. PICK k, loop, start, inner, l :
          /\ k = Len(e.body) /\ loop = ReferenceLoop(level, c, e) /\ start = InnerStart(c, e)
          /\ inner = InnerBranch(c, e) /\ l = Deeper(level)
  OBVIOUS
<1>2. \A x, i : Goes(loop, x, i) = Reported(AtLevel(l, x, e.body[i], inner), Flag("F3209", Twice(e, i)))
  BY <1>1 DEF Goes, ReferenceLoop
<1>3. PICK h : h = CHOOSE f : f = [i \in 0 .. k |->
                IF i = 0 THEN start
                ELSE Reported(AtLevel(l, f[i - 1], e.body[i], inner), Flag("F3209", Twice(e, i)))]
  OBVIOUS
<1>4. Looped(loop, start, h, k)
  <2>1. \E f : f = [i \in 0 .. k |->
                IF i = 0 THEN start
                ELSE Reported(AtLevel(l, f[i - 1], e.body[i], inner), Flag("F3209", Twice(e, i)))]
    <3>1. k \in Nat
      BY <1>1
    <3>2. PICK g : Looped(loop, start, g, k)
      BY <3>1, Loops
    <3>3. \A i \in 0 .. k : (IF i = 0 THEN start ELSE Goes(loop, g[i - 1], i)) =
                            (IF i = 0 THEN start
                             ELSE Reported(AtLevel(l, g[i - 1], e.body[i], inner), Flag("F3209", Twice(e, i))))
      BY <1>2
    <3>4. g = [i \in 0 .. k |->
                IF i = 0 THEN start
                ELSE Reported(AtLevel(l, g[i - 1], e.body[i], inner), Flag("F3209", Twice(e, i)))]
      BY <3>2, <3>3 DEF Looped
    <3> QED
      BY <3>4
  <2>2. h = [i \in 0 .. k |->
                IF i = 0 THEN start
                ELSE Reported(AtLevel(l, h[i - 1], e.body[i], inner), Flag("F3209", Twice(e, i)))]
    BY <1>3, <2>1
  <2>3. \A i \in 0 .. k : (IF i = 0 THEN start ELSE Goes(loop, h[i - 1], i)) =
                          (IF i = 0 THEN start
                           ELSE Reported(AtLevel(l, h[i - 1], e.body[i], inner), Flag("F3209", Twice(e, i))))
    BY <1>2
  <2>4. h = [i \in 0 .. k |-> IF i = 0 THEN start ELSE Goes(loop, h[i - 1], i)]
    BY <2>2, <2>3
  <2> QED
    BY <2>4 DEF Looped
<1>5. BodyAt(level, c, e) = [h[k] EXCEPT !.env = c.env]
  <2>1. CASE level = 2
    <3>1. \A x, s : AtLevel(l, x, s, inner) = InnerStatement(x, s, inner)
      BY <1>1, <2>1 DEF AtLevel, Deeper
    <3>2. h = CHOOSE f : f = [i \in 0 .. k |->
                IF i = 0 THEN start
                ELSE Reported(InnerStatement(f[i - 1], e.body[i], inner), Flag("F3209", Twice(e, i)))]
      BY <1>3, <3>1
    <3>3. BodyAt(level, c, e) = InnerBody(c, e)
      BY <2>1 DEF BodyAt
    <3> QED
      BY <1>1, <3>2, <3>3 DEF InnerBody, BodyWith, Twice, InnerStart, ItemOf, InnerBranch, Branch
  <2>2. CASE level = 3
    <3>1. \A x, s : AtLevel(l, x, s, inner) = BranchStatement(x, s, inner)
      BY <1>1, <2>2 DEF AtLevel, Deeper
    <3>2. h = CHOOSE f : f = [i \in 0 .. k |->
                IF i = 0 THEN start
                ELSE Reported(BranchStatement(f[i - 1], e.body[i], inner), Flag("F3209", Twice(e, i)))]
      BY <1>3, <3>1
    <3>3. BodyAt(level, c, e) = CheckBody(c, e)
      BY <2>2 DEF BodyAt
    <3> QED
      BY <1>1, <3>2, <3>3 DEF CheckBody, BodyWith, Twice, InnerStart, ItemOf, InnerBranch, Branch
  <2> QED
    BY <2>1, <2>2
<1> QED
  BY <1>1, <1>4, <1>5

LEMMA NativeBodyUnfolded ==
    ASSUME NEW level \in {2, 3}, NEW n, NEW e, Len(e.body) \in Nat
    PROVE  \E h : /\ Looped(NativeLoop(level, e), Native!Enter(n, e), h, Len(e.body))
                  /\ NativeBodyAt(level, n, e) =
                        Native!Found(Native!Leave(h[Len(e.body)], n),
                                     Native!Type("trials", Native!Enter(n, e).resource,
                                                 MetricsOf(e.body), Native!Enter(n, e).base.lineage))
<1>1. PICK k, loop, start, l, type :
          /\ k = Len(e.body) /\ loop = NativeLoop(level, e) /\ start = Native!Enter(n, e)
          /\ l = Deeper(level)
          /\ type = Native!Type("trials", start.resource, Native!MetricsOf(e.body), start.base.lineage)
  OBVIOUS
<1>2. \A x, i : Goes(loop, x, i) =
                   Native!ErrorIf(NativeAtLevel(l, x, e.body[i]), "F3209", Twice(e, i))
  BY <1>1 DEF Goes, NativeLoop
<1>3. PICK h : h = CHOOSE f : f = [i \in 0 .. k |->
                IF i = 0 THEN start
                ELSE Native!ErrorIf(NativeAtLevel(l, f[i - 1], e.body[i]), "F3209", Twice(e, i))]
  OBVIOUS
<1>4. Looped(loop, start, h, k)
  <2>1. \E f : f = [i \in 0 .. k |->
                IF i = 0 THEN start
                ELSE Native!ErrorIf(NativeAtLevel(l, f[i - 1], e.body[i]), "F3209", Twice(e, i))]
    <3>1. k \in Nat
      BY <1>1
    <3>2. PICK g : Looped(loop, start, g, k)
      BY <3>1, Loops
    <3>3. \A i \in 0 .. k : (IF i = 0 THEN start ELSE Goes(loop, g[i - 1], i)) =
                            (IF i = 0 THEN start
                             ELSE Native!ErrorIf(NativeAtLevel(l, g[i - 1], e.body[i]), "F3209", Twice(e, i)))
      BY <1>2
    <3>4. g = [i \in 0 .. k |->
                IF i = 0 THEN start
                ELSE Native!ErrorIf(NativeAtLevel(l, g[i - 1], e.body[i]), "F3209", Twice(e, i))]
      BY <3>2, <3>3 DEF Looped
    <3> QED
      BY <3>4
  <2>2. h = [i \in 0 .. k |->
                IF i = 0 THEN start
                ELSE Native!ErrorIf(NativeAtLevel(l, h[i - 1], e.body[i]), "F3209", Twice(e, i))]
    BY <1>3, <2>1
  <2>3. \A i \in 0 .. k : (IF i = 0 THEN start ELSE Goes(loop, h[i - 1], i)) =
                          (IF i = 0 THEN start
                           ELSE Native!ErrorIf(NativeAtLevel(l, h[i - 1], e.body[i]), "F3209", Twice(e, i)))
    BY <1>2
  <2>4. h = [i \in 0 .. k |-> IF i = 0 THEN start ELSE Goes(loop, h[i - 1], i)]
    BY <2>2, <2>3
  <2> QED
    BY <2>4 DEF Looped
<1>5. \A i : Twice(e, i) = (e.body[i].kind = "measure"
                              /\ e.body[i].name \in Native!Measured(e.body, i))
  BY SameLanguage DEF Twice
<1>6. NativeBodyAt(level, n, e) = Native!Found(Native!Leave(h[k], n), type)
  <2>1. CASE level = 2
    <3>1. \A x, s : NativeAtLevel(l, x, s) = Native!Innermost(x, s)
      BY <1>1, <2>1 DEF NativeAtLevel, Deeper
    <3>2. h = CHOOSE f : f = [i \in 0 .. k |->
                IF i = 0 THEN start
                ELSE Native!ErrorIf(Native!Innermost(f[i - 1], e.body[i]), "F3209", Twice(e, i))]
      BY <1>3, <3>1
    <3>3. h = CHOOSE f : f = [i \in 0 .. k |->
                IF i = 0 THEN start
                ELSE Native!ErrorIf(Native!Innermost(f[i - 1], e.body[i]), "F3209",
                                    e.body[i].kind = "measure"
                                      /\ e.body[i].name \in Native!Measured(e.body, i))]
      BY <1>5, <3>2
    <3>4. NativeBodyAt(level, n, e) = Native!Inner(n, e)
      BY <2>1 DEF NativeBodyAt
    <3> QED
      BY <1>1, <3>3, <3>4 DEF Native!Inner, Native!Explore
  <2>2. CASE level = 3
    <3>1. \A x, s : NativeAtLevel(l, x, s) = Native!BranchStatement(x, s)
      BY <1>1, <2>2 DEF NativeAtLevel, Deeper
    <3>2. h = CHOOSE f : f = [i \in 0 .. k |->
                IF i = 0 THEN start
                ELSE Native!ErrorIf(Native!BranchStatement(f[i - 1], e.body[i]), "F3209", Twice(e, i))]
      BY <1>3, <3>1
    <3>3. h = CHOOSE f : f = [i \in 0 .. k |->
                IF i = 0 THEN start
                ELSE Native!ErrorIf(Native!BranchStatement(f[i - 1], e.body[i]), "F3209",
                                    e.body[i].kind = "measure"
                                      /\ e.body[i].name \in Native!Measured(e.body, i))]
      BY <1>5, <3>2
    <3>4. NativeBodyAt(level, n, e) = Native!Outer(n, e)
      BY <2>2 DEF NativeBodyAt
    <3> QED
      BY <1>1, <3>3, <3>4 DEF Native!Outer, Native!Explore
  <2> QED
    BY <2>1, <2>2
<1>7. Native!MetricsOf(e.body) = MetricsOf(e.body)
  BY SameLanguage
<1> QED
  BY <1>1, <1>4, <1>6, <1>7

LEMMA BodyFollows ==
    ASSUME NEW level \in {2, 3}, Faithful(Deeper(level)), NEW n, NEW c, NEW before, IsList(before),
           NEW pending, NEW e, NEW k \in Nat,
           \A i \in 1 .. k : WellFormed(Deeper(level), e.body[i]),
           NEW start, NEW origin, NEW there, there = InnerBranch(origin, e),
           Follows(n, start, there, before, pending),
           NEW f, NEW g, Looped(NativeLoop(level, e), n, f, k),
           Looped(ReferenceLoop(level, origin, e), start, g, k)
    PROVE  /\ Follows(f[k], g[k], there, before, pending)
           /\ Extends(start.types, g[k].types) /\ f[k].stage = n.stage
<1>1. PICK l : l = Deeper(level)
  OBVIOUS
<1> DEFINE S == {i \in 0 .. k : /\ Follows(f[i], g[i], there, before, pending)
                                /\ Extends(start.types, g[i].types) /\ f[i].stage = n.stage}
<1>2. /\ f[0] = n
      /\ \A i \in 0 .. k - 1 :
            f[i + 1] = Native!ErrorIf(NativeAtLevel(l, f[i], e.body[i + 1]), "F3209", Twice(e, i + 1))
  <2>1. PICK loop : loop = NativeLoop(level, e)
    OBVIOUS
  <2>2. \A x, i : Goes(loop, x, i) =
                   Native!ErrorIf(NativeAtLevel(l, x, e.body[i]), "F3209", Twice(e, i))
    BY <1>1, <2>1 DEF Goes, NativeLoop
  <2>3. f[0] = n /\ \A i \in 0 .. k - 1 : f[i + 1] = Goes(loop, f[i], i + 1)
    BY <2>1, LoopFacts
  <2> QED
    BY <2>2, <2>3
<1>3. /\ g[0] = start
      /\ \A i \in 0 .. k - 1 :
            g[i + 1] = Reported(AtLevel(l, g[i], e.body[i + 1], there), Flag("F3209", Twice(e, i + 1)))
  <2>1. PICK loop : loop = ReferenceLoop(level, origin, e)
    OBVIOUS
  <2>2. \A x, i : Goes(loop, x, i) =
                     Reported(AtLevel(l, x, e.body[i], there), Flag("F3209", Twice(e, i)))
    BY <1>1, <2>1 DEF Goes, ReferenceLoop
  <2>3. g[0] = start /\ \A i \in 0 .. k - 1 : g[i + 1] = Goes(loop, g[i], i + 1)
    BY <2>1, LoopFacts
  <2> QED
    BY <2>2, <2>3
<1>4. IsList(start.types)
  BY DEF Follows, Table
<1>5. 0 \in S
  BY <1>2, <1>3, <1>4, ExtendsFacts
<1>6. ASSUME NEW i \in 0 .. k - 1, i \in S PROVE i + 1 \in S
  <2>1. PICK x, y, s, a, b, twice :
            /\ x = f[i] /\ y = g[i] /\ s = e.body[i + 1] /\ twice = Twice(e, i + 1)
            /\ a = NativeAtLevel(l, x, s) /\ b = AtLevel(l, y, s, there)
    OBVIOUS
  <2>2. i + 1 \in 1 .. k /\ i + 1 \in 0 .. k
    OBVIOUS
  <2>3. WellFormed(l, s)
    BY <1>1, <2>1, <2>2
  <2>4. /\ Follows(x, y, there, before, pending) /\ Extends(start.types, y.types)
        /\ x.stage = n.stage
    BY <1>6, <2>1
  <2>5. Follows(a, b, there, before, pending) /\ Extends(y.types, b.types) /\ a.stage = x.stage
    <3>1. Faithful(l)
      BY <1>1
    <3>2. /\ Follows(NativeAtLevel(l, x, s), AtLevel(l, y, s, there), there, before, pending)
          /\ Extends(y.types, AtLevel(l, y, s, there).types)
          /\ NativeAtLevel(l, x, s).stage = x.stage
      BY <2>3, <2>4, <3>1 DEF Faithful
    <3> QED
      BY <2>1, <3>2
  <2>6. Steps(a, Native!ErrorIf(a, "F3209", twice), Flag("F3209", twice), <<>>)
    <3>1. IsNative(a) /\ "F3209" \in Plain
      BY <2>5 DEF Follows, Sees, Plain
    <3> QED
      BY <3>1, PlainError
  <2>7. /\ Follows(Native!ErrorIf(a, "F3209", twice), Reported(b, Flag("F3209", twice)),
                   there, before, pending)
        /\ Reported(b, Flag("F3209", twice)).types = b.types
        /\ Native!ErrorIf(a, "F3209", twice).stage = a.stage
    BY <2>5, <2>6, FollowsSteps
  <2>8. f[i + 1] = Native!ErrorIf(a, "F3209", twice) /\ g[i + 1] = Reported(b, Flag("F3209", twice))
    BY <1>2, <1>3, <2>1
  <2>9. Extends(start.types, g[i + 1].types)
    BY <1>4, <2>4, <2>5, <2>7, <2>8, ExtendsFacts
  <2> QED
    BY <2>2, <2>4, <2>5, <2>7, <2>8, <2>9
<1>7. \A i \in 0 .. k : i \in S
  <2> HIDE DEF S
  <2> QED
    BY <1>5, <1>6, Climbs
<1>8. k \in 0 .. k
  OBVIOUS
<1> QED
  BY <1>7, <1>8

LEMMA SameLookups ==
    ASSUME NEW c, NEW d, d.env = c.env, NEW e
    PROVE  /\ Lookup(d, e.base) = Lookup(c, e.base)
           /\ ExploredResource(d, e) = ExploredResource(c, e) /\ ItemOf(d, e) = ItemOf(c, e)
           /\ InnerBranch(d, e) = InnerBranch(c, e)
           /\ EffectOf(d, e) = EffectOf(c, e) /\ Consumes(d, e) = Consumes(c, e)
<1>1. \A name : Lookup(d, name) = Lookup(c, name)
  BY DEF Lookup
<1>2. ExploredResource(d, e) = ExploredResource(c, e)
  BY <1>1 DEF ExploredResource
<1> QED
  BY <1>1, <1>2 DEF ItemOf, InnerBranch, EffectOf, Consumes

LEMMA RowStays ==
    ASSUME NEW types, IsList(types), NEW row, NEW rows, IsList(rows), NEW final,
           Extends((types \o <<row>>) \o rows, final)
    PROVE  final[Len(types) + 1] = row
<1>1. PICK one : one = <<row>>
  OBVIOUS
<1>2. IsList(one) /\ Len(one) = 1 /\ one[1] = row
  BY <1>1, OneItem
<1>3. PICK further : IsList(further) /\ final = ((types \o one) \o rows) \o further
  BY <1>1 DEF Extends
<1>4. PICK k : k = Len(types)
  OBVIOUS
<1>5. k \in Nat /\ Len(rows) \in Nat /\ Len(further) \in Nat
  BY <1>3, <1>4, ListFacts
<1>6. PICK a : a = types \o one
  OBVIOUS
<1>7. IsList(a) /\ Len(a) = k + 1 /\ a[k + 1] = row
  <2>1. /\ IsList(a) /\ Len(a) = Len(types) + Len(one)
        /\ \A i \in 1 .. Len(types) + Len(one) :
              a[i] = IF i <= Len(types) THEN types[i] ELSE one[i - Len(types)]
    BY <1>2, <1>6, ConcatFacts
  <2>2. k + 1 \in 1 .. k + 1 /\ ~(k + 1 <= k) /\ (k + 1) - k = 1
    BY <1>5
  <2> QED
    BY <1>2, <1>4, <2>1, <2>2
<1>8. PICK b : b = a \o rows
  OBVIOUS
<1>9. IsList(b) /\ Len(b) = (k + 1) + Len(rows) /\ b[k + 1] = row
  <2>1. /\ IsList(b) /\ Len(b) = Len(a) + Len(rows)
        /\ \A i \in 1 .. Len(a) + Len(rows) :
              b[i] = IF i <= Len(a) THEN a[i] ELSE rows[i - Len(a)]
    BY <1>7, <1>8, ConcatFacts
  <2>2. k + 1 \in 1 .. (k + 1) + Len(rows) /\ k + 1 <= k + 1
    BY <1>5
  <2> QED
    BY <1>7, <2>1, <2>2
<1>10. final[k + 1] = row
  <2>1. final = b \o further
    BY <1>3, <1>6, <1>8
  <2>2. \A i \in 1 .. Len(b) + Len(further) :
           final[i] = IF i <= Len(b) THEN b[i] ELSE further[i - Len(b)]
    BY <1>3, <1>9, <2>1, ConcatFacts
  <2>3. k + 1 \in 1 .. Len(b) + Len(further) /\ k + 1 <= Len(b)
    BY <1>5, <1>9
  <2> QED
    BY <1>9, <2>2, <2>3
<1> QED
  BY <1>4, <1>10

LEMMA DeeperFormed ==
    ASSUME NEW level \in {2, 3}, NEW s, WellFormed(level, s), s.value.op = "explore"
    PROVE  /\ Len(s.value.body) \in Nat
           /\ \A i \in 1 .. Len(s.value.body) : WellFormed(Deeper(level), s.value.body[i])
<1>1. PICK body : body = s.value.body
  OBVIOUS
<1>2. Parsed(body)
  BY <1>1 DEF WellFormed, Flat, Nesting
<1>3. Len(body) \in Nat /\ DOMAIN body = 1 .. Len(body)
  BY <1>2, ListFacts DEF Parsed
<1>4. ASSUME NEW i \in 1 .. Len(body) PROVE WellFormed(Deeper(level), body[i])
  <2>1. body[i].kind \in Kinds /\ Worded(body[i].value)
    BY <1>2, <1>3 DEF Parsed, Worded
  <2>2. CASE level = 2
    <3>1. body[i].value.op # "explore"
      BY <1>1, <1>3, <2>2 DEF WellFormed, Flat
    <3> QED
      BY <2>1, <3>1 DEF WellFormed
  <2>3. CASE level = 3
    <3>1. Deeper(level) = 2
      BY <2>3 DEF Deeper
    <3>2. Nesting(body)
      BY <1>1, <2>3 DEF WellFormed
    <3>3. body[i].value.op = "explore" => Flat(body[i].value.body)
      BY <1>3, <3>2 DEF Nesting
    <3> QED
      BY <2>1, <3>1, <3>3 DEF WellFormed
  <2> QED
    BY <2>2, <2>3
<1> QED
  BY <1>1, <1>3, <1>4

LEMMA ExploreStatement ==
    ASSUME NEW level \in {2, 3}, Faithful(Deeper(level)), NEW n, NEW c, NEW branch, NEW s,
           NEW before, NEW pending, WellFormed(level, s), s.value.op = "explore", IsList(before),
           Follows(n, c, branch, before, pending)
    PROVE  /\ Follows(NativeAtLevel(level, n, s), AtLevel(level, c, s, branch),
                      branch, before, pending)
           /\ Extends(c.types, AtLevel(level, c, s, branch).types)
           /\ NativeAtLevel(level, n, s).stage = n.stage
<1>1. PICK e, a, b, seen, value, m, k :
          /\ e = s.value /\ a = Native!Entered(n, s) /\ b = Native!Number(a)
          /\ seen = Native!Permitted(b, e) /\ value = NativeBodyAt(level, seen, e)
          /\ m = Native!Describe(value.checker, n.nodes, "explore", value.type)
          /\ k = Len(e.body)
  OBVIOUS
<1>2. level \in Levels /\ level # 1 /\ e.op = "explore" /\ Worded(e) /\ s.kind \in Kinds
  BY <1>1 DEF Levels, WellFormed
<1>3. NativeAtLevel(level, n, s) = Native!Settled(m, s, value.type)
  BY <1>1, <1>2, NativeUnfolded
<1>4. PICK ra, type, visited :
          /\ ra = Entered(c, s, branch) /\ type = TypeOf(ra, e, branch)
          /\ visited = Visited(ra, e, branch)
  OBVIOUS
<1>5. AtLevel(level, c, s, branch) = Settled(BodyAt(level, visited, e), s, type, branch)
  BY <1>1, <1>2, <1>4, Unfolded
<1>6. k \in Nat /\ \A i \in 1 .. k : WellFormed(Deeper(level), e.body[i])
  BY <1>1, DeeperFormed
<1>7. Steps(n, a, EnteredErrors(c, s, branch), <<>>)
  BY <1>1, <1>2, EnteredSteps DEF Follows
<1>8. /\ Follows(a, ra, branch, before, pending) /\ a.nodes = n.nodes /\ a.stage = n.stage
      /\ ra.types = c.types
  BY <1>4, <1>7, EnteredReported, FollowsSteps
<1>9. PICK row, rb, p :
          /\ row = Described("explore", type) /\ rb = Laid(ra, row) /\ p = pending \cup {a.nodes}
  OBVIOUS
<1>10. /\ Follows(b, rb, branch, before, p) /\ rb.env = ra.env /\ rb.types = ra.types \o <<row>>
       /\ rb.used = ra.used /\ rb.consumed = ra.consumed /\ rb.snapshots = ra.snapshots
       /\ rb.selections = ra.selections /\ rb.diagnostics = ra.diagnostics
       /\ IsList(ra.types) /\ a.nodes = Len(ra.types) /\ a.nodes \notin pending
  <2>1. Follows(a, ra, branch, before, pending)
    BY <1>8
  <2>2. Follows(Native!Number(a), Laid(ra, row), branch, before, pending \cup {a.nodes})
    BY <2>1, NumberedFollows
  <2>3. /\ Laid(ra, row).env = ra.env /\ Laid(ra, row).types = ra.types \o <<row>>
        /\ Laid(ra, row).used = ra.used /\ Laid(ra, row).consumed = ra.consumed
        /\ Laid(ra, row).snapshots = ra.snapshots /\ Laid(ra, row).selections = ra.selections
        /\ Laid(ra, row).diagnostics = ra.diagnostics
    BY <2>1 DEF Laid, Follows, IsReference
  <2>4. IsList(ra.types) /\ a.nodes = Len(ra.types) /\ a.nodes \notin pending
    BY <2>1, NumberedFollows
  <2> QED
    BY <1>1, <1>9, <2>2, <2>3, <2>4
<1>11. IsReference(ra) /\ Sees(a, ra, branch) /\ IsNative(a)
  BY <1>8 DEF Follows, Sees
<1>12. Sees(b, ra, branch) /\ IsNative(b) /\ SameView(a, b)
  <2>1. IsNative(b) /\ SameView(a, b) /\ SameBooks(a, b)
    BY <1>1, <1>11, NumberFacts
  <2> QED
    BY <1>11, <2>1, SeesFurther DEF SameBooks
<1>13. Steps(b, seen, ForbiddenErrors(e, branch), <<>>)
  BY <1>1, <1>12, PermittedSteps DEF Sees
<1>14. Sees(seen, ra, branch) /\ SameBooks(b, seen) /\ SameView(b, seen)
  BY <1>12, <1>13, SeesAfter
<1>15. ExploredResource(ra, e) # None /\ \E named : EntersAs(seen, ra, e, branch, named)
  BY <1>2, <1>14, EnterFacts
<1>16. PICK named :
          /\ Moves(seen, named, OwnErrors(ra, e, branch), OwnRows(ra, e))
          /\ Accounts(seen, named, ra, e)
          /\ Native!Enter(seen, e) = Placed(Native!Bind(named, Item, Typed(ItemOf(ra, e))),
                                            Lookup(ra, e.base), ExploredResource(ra, e))
  BY <1>15 DEF EntersAs
<1>17. PICK codes, rows : codes = ErrorsOf(ra, e, branch) /\ rows = OwnRows(ra, e)
  OBVIOUS
<1>18. Moves(b, named, codes, rows)
  <2>1. Moves(b, named, ForbiddenErrors(e, branch) \o OwnErrors(ra, e, branch), OwnRows(ra, e))
    BY <1>13, <1>16, ReadAfter DEF Steps
  <2> QED
    BY <1>17, <2>1, ErrorsInOrder
<1>19. Accounts(b, named, rb, e)
  <2>1. /\ Native!EffectsEnabled(seen) <=> Native!EffectsEnabled(b)
        /\ Native!OwnershipEnabled(seen) <=> Native!OwnershipEnabled(b)
    BY <1>14, Enabled
  <2>2. EffectOf(rb, e) = EffectOf(ra, e) /\ Consumes(rb, e) = Consumes(ra, e)
    BY <1>10, SameLookups
  <2> QED
    BY <1>14, <1>16, <2>1, <2>2 DEF Accounts, SameBooks
<1>20. /\ Accounted(ra, visited, e) /\ visited.diagnostics = ra.diagnostics \o codes
       /\ visited.types = ra.types \o TypesOf(ra, e, branch)
  BY <1>4, <1>11, <1>17, VisitedFacts
<1>21. visited.types = rb.types \o rows /\ IsList(rows)
  <2>1. TypesOf(ra, e, branch) = <<Described(e.op, type)>> \o OwnRows(ra, e) /\ IsList(OwnRows(ra, e))
    BY <1>2, <1>4, TypesInOrder
  <2>2. TypesOf(ra, e, branch) = <<row>> \o rows /\ IsList(rows)
    BY <1>2, <1>9, <1>17, <2>1
  <2>3. PICK one : one = <<row>>
    OBVIOUS
  <2>4. ra.types \o (one \o rows) = (ra.types \o one) \o rows
    <3>1. PICK types : types = ra.types
      OBVIOUS
    <3>2. IsList(one) /\ IsList(types) /\ IsList(rows)
      BY <1>10, <2>2, <2>3, <3>1, OneItem
    <3>3. (types \o one) \o rows = types \o (one \o rows)
      BY <3>2, ConcatAgain
    <3> QED
      BY <3>1, <3>3
  <2> QED
    BY <1>10, <1>20, <2>2, <2>3, <2>4
<1>22. Follows(named, visited, branch, before, p) /\ named.stage = b.stage
  <2>2. EffectOf(rb, e) = EffectOf(ra, e) /\ Consumes(rb, e) = Consumes(ra, e)
    BY <1>10, SameLookups
  <2>3. Accounted(rb, visited, e)
    BY <1>10, <1>20, <2>2 DEF Accounted
  <2>4. Grown(rb, visited, codes, rows)
    BY <1>10, <1>20, <1>21 DEF Grown
  <2> QED
    BY <1>10, <1>18, <1>19, <2>3, <2>4, FollowsMoves
<1>23. visited.env = ra.env /\ IsReference(visited)
  BY <1>20 DEF Accounted
<1>24. PICK item, base, resource, there, start, bound, inside :
          /\ item = ItemOf(ra, e) /\ base = Lookup(ra, e.base)
          /\ resource = ExploredResource(ra, e) /\ there = InnerBranch(visited, e)
          /\ start = InnerStart(visited, e)
          /\ bound = Native!Bind(named, Item, Typed(item)) /\ inside = Native!Enter(seen, e)
  OBVIOUS
<1>25. there = Branch(resource, base) /\ ItemOf(visited, e) = item
  BY <1>23, <1>24, SameLookups DEF InnerBranch
<1>26. IsBinding(item) /\ IsBinding(base) /\ resource # None
  BY <1>14, <1>15, <1>24, LookupTyped, BindingFacts DEF ItemOf, ValueKinds
<1>27. Follows(bound, start, branch, before, p) /\ bound.stage = named.stage
  <2>1. start = [visited EXCEPT !.env = Bind(@, Item, item)]
    BY <1>24, <1>25 DEF InnerStart
  <2> QED
    BY <1>22, <1>24, <1>26, <2>1, FollowsBind
<1>28. /\ Follows(inside, start, there, before, p) /\ inside.stage = bound.stage
       /\ inside.base = Typed(base) /\ inside.resource = Native!Resolve(resource)
  <2>1. inside = Placed(bound, base, resource)
    BY <1>16, <1>24
  <2>2. Follows(bound, start, branch, before, p) /\ IsBinding(base) /\ resource # None
    BY <1>26, <1>27
  <2>3. /\ Follows(inside, start, Branch(resource, base), before, p) /\ inside.stage = bound.stage
        /\ inside.base = Typed(base) /\ inside.resource = Native!Resolve(resource)
    BY <2>1, <2>2, FollowsInto
  <2> QED
    BY <1>25, <2>3
<1>29. PICK g : /\ Looped(ReferenceLoop(level, visited, e), start, g, k)
                /\ BodyAt(level, visited, e) = [g[k] EXCEPT !.env = visited.env]
  <2>1. Len(e.body) \in Nat
    BY <1>1, <1>6
  <2>2. \E g : /\ Looped(ReferenceLoop(level, visited, e), InnerStart(visited, e), g, Len(e.body))
               /\ BodyAt(level, visited, e) = [g[Len(e.body)] EXCEPT !.env = visited.env]
    BY <2>1, BodyUnfolded
  <2> QED
    BY <1>1, <1>24, <2>2
<1>30. PICK f : /\ Looped(NativeLoop(level, e), inside, f, k)
                /\ value = Native!Found(Native!Leave(f[k], seen),
                                        Native!Type("trials", inside.resource, MetricsOf(e.body),
                                                    inside.base.lineage))
  BY <1>1, <1>6, <1>24, NativeBodyUnfolded
<1>31. /\ Follows(f[k], g[k], there, before, p) /\ Extends(start.types, g[k].types)
       /\ f[k].stage = inside.stage
  BY <1>6, <1>24, <1>28, <1>29, <1>30, BodyFollows
<1>32. PICK left, final : left = Native!Leave(f[k], seen) /\ final = BodyAt(level, visited, e)
  OBVIOUS
<1>33. Follows(left, final, branch, before, p) /\ left.stage = f[k].stage
  BY <1>14, <1>23, <1>29, <1>31, <1>32, FollowsOut
<1>34. final.types = g[k].types
  BY <1>29, <1>31, <1>32 DEF Follows, IsReference
<1>35. start.types = visited.types
  BY <1>23, <1>24 DEF InnerStart, IsReference
<1>36. final.types[a.nodes + 1] = row
  BY <1>10, <1>21, <1>31, <1>34, <1>35, RowStays
<1>37. value.checker = left /\ value.type = Typed(type)
  <2>1. value.type = Native!Type("trials", inside.resource, MetricsOf(e.body), inside.base.lineage)
    BY <1>30, FoundFacts
  <2>3. type = Binding("trials", resource, MetricsOf(e.body), base.lineage, None)
    BY <1>2, <1>4, <1>24 DEF TypeOf
  <2>4. value.type = Typed(type)
    BY <1>28, <2>1, <2>3, BindingFacts, TypedFacts DEF Native!Type
  <2> QED
    BY <1>30, <1>32, <2>4, FoundFacts
<1>38. Follows(m, final, branch, before, pending) /\ m.stage = left.stage
  <2>1. a.nodes \in p /\ p \ {a.nodes} = pending
    BY <1>9, <1>10
  <2>2. m = Native!Describe(left, a.nodes, "explore", Typed(type))
    BY <1>1, <1>8, <1>37
  <2>3. final.types[a.nodes + 1] = Described("explore", type)
    BY <1>9, <1>36
  <2>4. /\ Follows(Native!Describe(left, a.nodes, "explore", Typed(type)), final, branch, before,
                   p \ {a.nodes})
        /\ Native!Describe(left, a.nodes, "explore", Typed(type)).stage = left.stage
    BY <1>33, <2>1, <2>3, DescribedFollows
  <2> QED
    BY <2>1, <2>2, <2>4
<1>39. IsBinding(type)
  BY <1>2, <1>4, <1>11, TypeOfBinding
<1>40. /\ Follows(Native!Settled(m, s, Typed(type)), Settled(final, s, type, branch),
                  branch, before, pending)
       /\ Settled(final, s, type, branch).types = final.types
       /\ Native!Settled(m, s, Typed(type)).stage = m.stage
  BY <1>2, <1>38, <1>39, FollowsSettled
<1>41. Extends(c.types, final.types)
  <2>1. Extends(c.types, visited.types)
    <3>1. IsList(TypesOf(ra, e, branch))
      BY <1>2, TypesInOrder
    <3> QED
      BY <1>8, <1>20, <3>1 DEF Extends
  <2> QED
    BY <1>8, <1>10, <1>31, <1>34, <1>35, <2>1, ExtendsFacts
<1>42. n.stage = m.stage
  BY <1>8, <1>12, <1>22, <1>27, <1>28, <1>31, <1>33, <1>38 DEF SameView
<1> QED
  BY <1>3, <1>5, <1>32, <1>37, <1>40, <1>41, <1>42

(* A statement of a decision, whatever it explores, leaves a native checker *)
(* of each stage where the reference is (Checker::statement,               *)
(* Checker.check_statement).                                               *)
THEOREM StatementsAgree == \A level \in Levels : Faithful(level)
<1>1. ASSUME NEW level \in Levels, level # 1 => Faithful(Deeper(level)) PROVE Faithful(level)
  <2>1. SUFFICES ASSUME NEW n, NEW c, NEW branch, NEW s, NEW before, NEW pending,
                        WellFormed(level, s), IsList(before), Follows(n, c, branch, before, pending)
                 PROVE  /\ Follows(NativeAtLevel(level, n, s), AtLevel(level, c, s, branch),
                                   branch, before, pending)
                        /\ Extends(c.types, AtLevel(level, c, s, branch).types)
                        /\ NativeAtLevel(level, n, s).stage = n.stage
    BY DEF Faithful
  <2>2. CASE s.value.op # "explore"
    BY <2>1, <2>2, PlainStatement
  <2>3. CASE s.value.op = "explore"
    <3>1. level \in {2, 3}
      BY <2>1, <2>3 DEF WellFormed
    <3>2. Faithful(Deeper(level))
      BY <1>1, <3>1
    <3> QED
      BY <2>1, <2>3, <3>1, <3>2, ExploreStatement
  <2> QED
    BY <2>2, <2>3
<1>2. Faithful(1)
  BY <1>1 DEF Levels
<1>3. Faithful(2)
  BY <1>1, <1>2 DEF Levels, Deeper
<1>4. Faithful(3)
  BY <1>1, <1>3 DEF Levels, Deeper
<1> QED
  BY <1>2, <1>3, <1>4 DEF Levels

-----------------------------------------------------------------------------
(* Lowering.  What a checker went through without an error is what the     *)
(* lowerer goes through: one row per expression, none of them an error.    *)
Rows(types) == \A row \in ToSet(types) : row = [op |-> row.op, type |-> row.type]
Sane(c) ==
    /\ IsReference(c) /\ IsList(c.diagnostics) /\ IsList(c.types) /\ IsFiniteSet(c.used)
    /\ Rows(c.types)
Clean(c) == \A name \in DOMAIN c.env : c.env[name].kind # "error"
Readable(rows, ops) ==
    /\ IsList(rows) /\ Len(rows) = Len(ops)
    /\ \A i \in 1 .. Len(ops) : rows[i].op = ops[i] /\ rows[i].type.kind # "error"
Lowered(c, d, ops) ==
    /\ Sane(d) /\ IsList(ops)
    /\ d.diagnostics = <<>> =>
          /\ c.diagnostics = <<>>
          /\ Clean(c) => Clean(d) /\ \E rows : Readable(rows, ops) /\ d.types = c.types \o rows

LEMMA ConcatNothing ==
    ASSUME NEW a, IsList(a), NEW b, IsList(b)
    PROVE  /\ a = <<>> <=> Len(a) = 0
           /\ a \o b = <<>> <=> a = <<>> /\ b = <<>>
<1>1. \A s : IsList(s) => (s = <<>> <=> Len(s) = 0)
  <2>1. ASSUME NEW s, IsList(s), Len(s) = 0 PROVE s = <<>>
    BY <2>1, EmptyList, SameList
  <2> QED
    BY <2>1, EmptyList
<1>2. PICK c : c = a \o b
  OBVIOUS
<1>3. IsList(c) /\ Len(c) = Len(a) + Len(b)
  BY <1>2, ConcatFacts
<1>4. Len(a) \in Nat /\ Len(b) \in Nat
  BY ListFacts
<1>5. Len(c) = 0 <=> Len(a) = 0 /\ Len(b) = 0
  BY <1>3, <1>4
<1> QED
  BY <1>1, <1>2, <1>3, <1>5

LEMMA FlagNothing ==
    ASSUME NEW code, NEW reported
    PROVE  Flag(code, reported) = <<>> <=> ~reported
<1>1. Len(<<code>>) = 1 /\ Len(<<>>) = 0
  BY OneItem, EmptyList
<1> QED
  BY <1>1 DEF Flag

LEMMA JoinedNothing ==
    ASSUME NEW lists, Lists(lists), FlattenSeq(lists) = <<>>
    PROVE  \A i \in 1 .. Len(lists) : lists[i] = <<>>
<1>1. PICK n : n = Len(lists)
  OBVIOUS
<1>2. n \in Nat
  BY <1>1, ListFacts DEF Lists
<1> DEFINE S == {k \in 0 .. n : Joined(lists, k) = <<>> => \A i \in 1 .. k : lists[i] = <<>>}
<1>3. 0 \in S
  BY <1>2
<1>4. ASSUME NEW k \in 0 .. n - 1, k \in S PROVE k + 1 \in S
  <2>1. k + 1 \in 0 .. n /\ k + 1 \in 1 .. n /\ k \in 0 .. n
    BY <1>2
  <2>2. SUFFICES ASSUME Joined(lists, k + 1) = <<>> PROVE \A i \in 1 .. k + 1 : lists[i] = <<>>
    BY <2>1
  <2>3. Joined(lists, k + 1) = Joined(lists, k) \o lists[k + 1]
    BY <1>1, JoinedFacts
  <2>4. IsList(Joined(lists, k)) /\ IsList(lists[k + 1])
    BY <1>1, <2>1, JoinedFacts DEF Lists
  <2>5. Joined(lists, k) = <<>> /\ lists[k + 1] = <<>>
    BY <2>2, <2>3, <2>4, ConcatNothing
  <2>6. \A i \in 1 .. k + 1 : i \in 1 .. k \/ i = k + 1
    BY <2>1
  <2> QED
    BY <1>4, <2>1, <2>5, <2>6
<1>5. \A i \in 0 .. n : i \in S
  <2> HIDE DEF S
  <2> QED
    BY <1>2, <1>3, <1>4, Climbs
<1>6. n \in S
  BY <1>2, <1>5
<1> QED
  BY <1>1, <1>6, JoinedFacts

LEMMA ReadableConcat ==
    ASSUME NEW r, NEW a, Readable(r, a), NEW s, NEW b, Readable(s, b), IsList(a), IsList(b)
    PROVE  Readable(r \o s, a \o b)
<1>1. PICK m, n, t, o : m = Len(a) /\ n = Len(b) /\ t = r \o s /\ o = a \o b
  OBVIOUS
<1>2. /\ m \in Nat /\ n \in Nat /\ IsList(r) /\ Len(r) = m /\ IsList(s) /\ Len(s) = n
  BY <1>1, ListFacts DEF Readable
<1>3. /\ IsList(t) /\ Len(t) = m + n
      /\ \A i \in 1 .. m + n : t[i] = IF i <= m THEN r[i] ELSE s[i - m]
  <2>1. /\ IsList(t) /\ Len(t) = Len(r) + Len(s)
        /\ \A i \in 1 .. Len(r) + Len(s) : t[i] = IF i <= Len(r) THEN r[i] ELSE s[i - Len(r)]
    BY <1>1, <1>2, ConcatFacts
  <2> QED
    BY <1>2, <2>1
<1>4. Len(o) = m + n /\ \A i \in 1 .. m + n : o[i] = IF i <= m THEN a[i] ELSE b[i - m]
  BY <1>1, ConcatFacts
<1>5. ASSUME NEW i \in 1 .. m + n PROVE t[i].op = o[i] /\ t[i].type.kind # "error"
  <2>1. CASE i <= m
    <3>1. i \in 1 .. m
      BY <1>2, <2>1
    <3>2. t[i] = r[i] /\ o[i] = a[i]
      BY <1>3, <1>4, <2>1
    <3> QED
      BY <1>1, <3>1, <3>2 DEF Readable
  <2>2. CASE ~(i <= m)
    <3>1. i - m \in 1 .. n
      BY <1>2, <2>2
    <3>2. t[i] = s[i - m] /\ o[i] = b[i - m]
      BY <1>3, <1>4, <2>2
    <3> QED
      BY <1>1, <3>1, <3>2 DEF Readable
  <2> QED
    BY <2>1, <2>2
<1> QED
  BY <1>1, <1>3, <1>4, <1>5 DEF Readable

LEMMA LoweredFurther ==
    ASSUME NEW c, Sane(c), NEW d, NEW a, Lowered(c, d, a), NEW e, NEW b, Lowered(d, e, b)
    PROVE  Lowered(c, e, a \o b)
<1>1. IsList(a) /\ IsList(b) /\ Sane(e) /\ IsList(c.types)
  BY DEF Lowered, Sane
<1>2. IsList(a \o b)
  BY <1>1, ConcatFacts
<1>3. ASSUME e.diagnostics = <<>>, Clean(c)
      PROVE  Clean(e) /\ \E rows : Readable(rows, a \o b) /\ e.types = c.types \o rows
  <2>1. d.diagnostics = <<>> /\ Clean(d)
    BY <1>3 DEF Lowered
  <2>2. PICK r : Readable(r, a) /\ d.types = c.types \o r
    BY <1>3, <2>1 DEF Lowered
  <2>3. PICK s : Readable(s, b) /\ e.types = d.types \o s
    BY <1>3, <2>1 DEF Lowered
  <2>4. Readable(r \o s, a \o b)
    BY <1>1, <2>2, <2>3, ReadableConcat
  <2>5. PICK t : t = c.types
    OBVIOUS
  <2>6. (t \o r) \o s = t \o (r \o s)
    <3>1. IsList(t) /\ IsList(r) /\ IsList(s)
      BY <1>1, <2>2, <2>3, <2>5 DEF Readable
    <3> QED
      BY <3>1, ConcatAgain
  <2>7. e.types = c.types \o (r \o s)
    BY <2>2, <2>3, <2>5, <2>6
  <2> QED
    BY <1>3, <2>1, <2>4, <2>7 DEF Lowered
<1> QED
  BY <1>1, <1>2, <1>3 DEF Lowered

LEMMA LoweredReported ==
    ASSUME NEW c, Sane(c), NEW codes, IsList(codes)
    PROVE  /\ Lowered(c, Reported(c, codes), <<>>)
           /\ Reported(c, codes).diagnostics = <<>> => codes = <<>>
           /\ Reported(c, codes).env = c.env /\ Reported(c, codes).types = c.types
           /\ Reported(c, codes).diagnostics = c.diagnostics \o codes
<1>1. PICK d, further : d = Reported(c, codes) /\ further = c.diagnostics \o codes
  OBVIOUS
<1>2. /\ d.env = c.env /\ d.types = c.types /\ d.used = c.used /\ d.diagnostics = further
      /\ IsReference(d)
  BY <1>1 DEF Reported, Sane, IsReference
<1>3. IsList(further)
  BY <1>1, ConcatFacts DEF Sane
<1>4. further = <<>> <=> c.diagnostics = <<>> /\ codes = <<>>
  BY <1>1, ConcatNothing DEF Sane
<1>5. Readable(<<>>, <<>>) /\ IsList(<<>>)
  BY EmptyList DEF Readable
<1>6. d.types = c.types \o <<>>
  BY <1>2, ConcatEmpty DEF Sane
<1>7. Sane(d)
  BY <1>2, <1>3 DEF Sane
<1>8. Lowered(c, d, <<>>)
  BY <1>2, <1>4, <1>5, <1>6, <1>7 DEF Lowered, Clean
<1> QED
  BY <1>1, <1>2, <1>4, <1>8

Enough(c, names, codes) ==
    /\ IsList(codes) /\ IsList(names)
    /\ codes = <<>> => \A i \in 1 .. Len(names) : names[i] \in DOMAIN c.env

LEMMA ListsJoin ==
    \A a, b : IsList(a) /\ IsList(b)
      => IsList(a \o b) /\ (a \o b = <<>> => a = <<>> /\ b = <<>>)
BY ConcatFacts, ConcatNothing

LEMMA ReadErrorsFacts ==
    ASSUME NEW c, NEW name
    PROVE  /\ IsList(ReadErrors(c, name))
           /\ ReadErrors(c, name) = <<>> => name \in DOMAIN c.env
<1>1. PICK a, b : /\ a = Flag("F3004", name \notin DOMAIN c.env)
                  /\ b = Flag("F3400", Lookup(c, name).selection \in c.consumed)
  OBVIOUS
<1>2. IsList(a) /\ IsList(b) /\ (a = <<>> => name \in DOMAIN c.env)
  BY <1>1, FlagFacts
<1>3. IsList(a \o b) /\ (a \o b = <<>> => a = <<>>)
  BY <1>2, ListsJoin
<1> QED
  BY <1>1, <1>2, <1>3 DEF ReadErrors

LEMMA Pairs ==
    /\ \A x : IsList(<<x>>) /\ Len(<<x>>) = 1 /\ <<x>>[1] = x
    /\ \A x, y : IsList(<<x, y>>) /\ Len(<<x, y>>) = 2 /\ <<x, y>>[1] = x /\ <<x, y>>[2] = y
<1>1. ASSUME NEW x, NEW y
      PROVE  IsList(<<x, y>>) /\ Len(<<x, y>>) = 2 /\ <<x, y>>[1] = x /\ <<x, y>>[2] = y
  BY DEF IsList, ToSet
<1> QED
  BY <1>1, OneItem

LEMMA ProposeEnough ==
    ASSUME NEW c, NEW e, e.op = "propose"
    PROVE  Enough(c, Operands(e), ProposeErrors(c, e))
<1>1. PICK a, r, b, d, f :
          /\ a = Flag("F3006", e.model # Planner) /\ r = ReadErrors(c, e.base)
          /\ b = Flag("F3206", Lookup(c, e.base).kind # "snapshot")
          /\ d = Flag("F3208", e.type # "Patch") /\ f = Flag("F3208", e.limit \notin 1 .. 4)
  OBVIOUS
<1>2. /\ IsList(a) /\ IsList(r) /\ IsList(b) /\ IsList(d) /\ IsList(f)
      /\ r = <<>> => e.base \in DOMAIN c.env
  BY <1>1, FlagFacts, ReadErrorsFacts
<1>3. IsList(a \o r \o b \o d \o f) /\ (a \o r \o b \o d \o f = <<>> => r = <<>>)
  BY <1>2, ListsJoin
<1>4. ProposeErrors(c, e) = a \o r \o b \o d \o f
  BY <1>1 DEF ProposeErrors
<1>5. Operands(e) = <<e.base>>
  BY DEF Operands
<1> QED
  BY <1>2, <1>3, <1>4, <1>5, Pairs DEF Enough

LEMMA ExploreEnough ==
    ASSUME NEW c, NEW e, e.op = "explore"
    PROVE  Enough(c, Operands(e), ExploreErrors(c, e))
<1>1. PICK a, r, s, b, d, f :
          /\ a = Flag("F3401", ~SimulatesOnce(e.body))
          /\ r = ReadErrors(c, e.plans) /\ s = ReadErrors(c, e.base)
          /\ b = Flag("F3101", ~Explorable(Lookup(c, e.plans), Lookup(c, e.base)))
          /\ d = Flag("F3301", ~SameOrigin(Lookup(c, e.plans), Lookup(c, e.base)))
          /\ f = Flag("F3204", Item \in DOMAIN c.env)
  OBVIOUS
<1>2. /\ IsList(a) /\ IsList(r) /\ IsList(s) /\ IsList(b) /\ IsList(d) /\ IsList(f)
      /\ r = <<>> => e.plans \in DOMAIN c.env
      /\ s = <<>> => e.base \in DOMAIN c.env
  BY <1>1, FlagFacts, ReadErrorsFacts
<1>3. /\ IsList(a \o r \o s \o b \o d \o f)
      /\ a \o r \o s \o b \o d \o f = <<>> => r = <<>> /\ s = <<>>
  BY <1>2, ListsJoin
<1>4. ExploreErrors(c, e) = a \o r \o s \o b \o d \o f
  BY <1>1 DEF ExploreErrors
<1>5. PICK names : names = <<e.plans, e.base>>
  OBVIOUS
<1>6. Operands(e) = names
  BY <1>5 DEF Operands
<1>7. IsList(names) /\ Len(names) = 2 /\ names[1] = e.plans /\ names[2] = e.base
  BY <1>5, Pairs
<1> QED
  BY <1>2, <1>3, <1>4, <1>6, <1>7 DEF Enough

LEMMA SimulateEnough ==
    ASSUME NEW c, NEW e, NEW branch, e.op = "simulate"
    PROVE  Enough(c, Operands(e), SimulateErrors(c, e, branch))
<1>1. PICK a, b, d, r, f, g :
          /\ a = Flag("F3103", branch = NoBranch)
          /\ b = Flag("F3104", branch # NoBranch /\ e.resource # branch.resource)
          /\ d = Flag("F3210", e.method # "apply" \/ e.resource # Catalog)
          /\ r = ReadErrors(c, e.plan)
          /\ f = Flag("F3206", Lookup(c, e.plan).kind # "plan")
          /\ g = Flag("F3301", branch # NoBranch /\ ~SameOrigin(Lookup(c, e.plan), branch.base))
  OBVIOUS
<1>2. /\ IsList(a) /\ IsList(b) /\ IsList(d) /\ IsList(r) /\ IsList(f) /\ IsList(g)
      /\ r = <<>> => e.plan \in DOMAIN c.env
  BY <1>1, FlagFacts, ReadErrorsFacts
<1>3. /\ IsList(a \o b \o d \o r \o f \o g)
      /\ a \o b \o d \o r \o f \o g = <<>> => r = <<>>
  BY <1>2, ListsJoin
<1>4. SimulateErrors(c, e, branch) = a \o b \o d \o r \o f \o g
  BY <1>1 DEF SimulateErrors
<1>5. Operands(e) = <<e.plan>>
  BY DEF Operands
<1> QED
  BY <1>2, <1>3, <1>4, <1>5, Pairs DEF Enough

LEMMA SelectEnough ==
    ASSUME NEW c, NEW e, e.op = "select"
    PROVE  Enough(c, Operands(e), SelectErrors(c, e))
<1>1. PICK r, a, b :
          /\ r = ReadErrors(c, e.trials)
          /\ a = Flag("F3105", Lookup(c, e.trials).kind # "trials")
          /\ b = Flag("F3106", Lookup(c, e.trials).kind = "trials"
                                 /\ e.metric \notin ToSet(Lookup(c, e.trials).metrics))
  OBVIOUS
<1>2. IsList(a) /\ IsList(b) /\ IsList(r) /\ (r = <<>> => e.trials \in DOMAIN c.env)
  BY <1>1, FlagFacts, ReadErrorsFacts
<1>3. IsList(r \o a \o b) /\ (r \o a \o b = <<>> => r = <<>>)
  BY <1>2, ListsJoin
<1>4. SelectErrors(c, e) = r \o a \o b
  BY <1>1 DEF SelectErrors
<1>5. Operands(e) = <<e.trials>>
  BY DEF Operands
<1> QED
  BY <1>2, <1>3, <1>4, <1>5, Pairs DEF Enough

LEMMA CommitEnough ==
    ASSUME NEW c, NEW e, NEW branch, e.op = "commit"
    PROVE  Enough(c, Operands(e), CommitErrors(c, e, branch))
<1>1. PICK a, r, b :
          /\ a = Flag("F3102", branch # NoBranch) /\ r = ReadErrors(c, e.selected)
          /\ b = Flag("F3107", Lookup(c, e.selected).kind # "selected"
                                 \/ Lookup(c, e.selected).resource # e.resource)
  OBVIOUS
<1>2. IsList(a) /\ IsList(b) /\ IsList(r) /\ (r = <<>> => e.selected \in DOMAIN c.env)
  BY <1>1, FlagFacts, ReadErrorsFacts
<1>3. IsList(a \o r \o b) /\ (a \o r \o b = <<>> => r = <<>>)
  BY <1>2, ListsJoin
<1>4. CommitErrors(c, e, branch) = a \o r \o b
  BY <1>1 DEF CommitErrors
<1>5. Operands(e) = <<e.selected>>
  BY DEF Operands
<1> QED
  BY <1>2, <1>3, <1>4, <1>5, Pairs DEF Enough

LEMMA CallEnough ==
    ASSUME NEW c, NEW e, NEW branch, e.op = "call", IsList(e.args)
    PROVE  /\ IsList(CallErrors(c, e, branch))
           /\ CallErrors(c, e, branch) = <<>> => Offered(e)
           /\ Offered(e) => Enough(c, Operands(e), CallErrors(c, e, branch))
<1>1. ASSUME ~Offered(e)
      PROVE  IsList(CallErrors(c, e, branch)) /\ CallErrors(c, e, branch) # <<>>
  <2>1. CallErrors(c, e, branch) = <<"F3210">>
    BY <1>1 DEF CallErrors
  <2>2. IsList(<<"F3210">>) /\ Len(<<"F3210">>) = 1
    BY OneItem
  <2> QED
    BY <2>1, <2>2, EmptyList
<1>2. ASSUME Offered(e) PROVE Enough(c, Operands(e), CallErrors(c, e, branch))
  <2>1. PICK n, l, m : /\ n = Len(e.args) /\ l = [i \in 1 .. n |-> ReadErrors(c, e.args[i])]
                    /\ m = [i \in 1 .. n |-> ArgumentErrors(c, e, branch, Lookup(c, e.args[i]))]
    OBVIOUS
  <2>2. n \in Nat /\ DOMAIN e.args = 1 .. n
    BY <2>1, ListFacts
  <2>3. IsList(l) /\ Len(l) = n /\ IsList(m) /\ Len(m) = n
    BY <2>1, <2>2, ListOf
  <2>4. Lists(l)
    BY <2>1, <2>3, ReadErrorsFacts DEF Lists
  <2>5. Lists(m)
    <3>1. ASSUME NEW i \in 1 .. n PROVE IsList(m[i])
      <4>1. PICK x : x = Lookup(c, e.args[i])
        OBVIOUS
      <4>2. PICK f, g, h : /\ f = Flag("F3301", x.resource # e.target)
                           /\ g = Flag("F3301", ~SameOrigin(x, Lookup(c, e.args[1])))
                           /\ h = Flag("F3301", branch # NoBranch /\ ~SameOrigin(x, branch.base))
        OBVIOUS
      <4>3. IsList(f) /\ IsList(g) /\ IsList(h)
        BY <4>2, FlagFacts
      <4>4. IsList(f \o g \o h)
        BY <4>3, ListsJoin
      <4>5. m[i] = f \o g \o h
        BY <2>1, <4>1, <4>2 DEF ArgumentErrors
      <4> QED
        BY <4>4, <4>5
    <3> QED
      BY <2>3, <3>1 DEF Lists
  <2>6. PICK r, f, g :
            /\ r = FlattenSeq(l) /\ g = FlattenSeq(m)
            /\ f = Flag("F3206", \/ Len(e.args) # Arity[e.method]
                                 \/ \E i \in 1 .. n : ~Accepts(States, Lookup(c, e.args[i])))
    OBVIOUS
  <2>7. IsList(r) /\ IsList(f) /\ IsList(g)
    <3>1. n \in 0 .. n
      BY <2>2
    <3>2. IsList(Joined(l, n)) /\ IsList(Joined(m, n)) /\ Joined(l, n) = r /\ Joined(m, n) = g
      BY <2>3, <2>4, <2>5, <2>6, <3>1, JoinedFacts
    <3> QED
      BY <2>6, <3>2, FlagFacts
  <2>8. CallErrors(c, e, branch) = r \o f \o g
    <3>1. PICK args : args = [i \in 1 .. n |-> Lookup(c, e.args[i])]
      OBVIOUS
    <3>2. /\ DOMAIN args = 1 .. n /\ \A i \in 1 .. n : args[i] = Lookup(c, e.args[i])
          /\ args = [i \in DOMAIN e.args |-> Lookup(c, e.args[i])]
      BY <2>2, <3>1
    <3>3. /\ l = [i \in DOMAIN args |-> ReadErrors(c, e.args[i])]
          /\ m = [i \in DOMAIN args |-> ArgumentErrors(c, e, branch, args[i])]
          /\ f = Flag("F3206", \/ Len(e.args) # Arity[e.method]
                               \/ \E i \in DOMAIN args : ~Accepts(States, args[i]))
      BY <2>1, <2>6, <3>2
    <3> QED
      BY <1>2, <2>6, <3>2, <3>3 DEF CallErrors
  <2>9. IsList(r \o f \o g) /\ (r \o f \o g = <<>> => r = <<>>)
    BY <2>7, ListsJoin
  <2>10. ASSUME r = <<>> PROVE \A i \in 1 .. n : e.args[i] \in DOMAIN c.env
    <3>1. \A i \in 1 .. n : l[i] = <<>>
      BY <2>3, <2>4, <2>6, <2>10, JoinedNothing
    <3> QED
      BY <2>1, <3>1, ReadErrorsFacts
  <2>11. Operands(e) = e.args
    BY DEF Operands
  <2> QED
    BY <2>1, <2>8, <2>9, <2>10, <2>11 DEF Enough
<1> QED
  BY <1>1, <1>2 DEF Enough

LEMMA OwnEnough ==
    ASSUME NEW c, NEW e, NEW branch, Worded(e)
    PROVE  /\ IsList(OwnErrors(c, e, branch)) /\ IsList(Operands(e))
           /\ OwnErrors(c, e, branch) = <<>> =>
                 /\ e.op = "call" => Offered(e)
                 /\ e.op = "var" => e.name \in DOMAIN c.env
                 /\ \A i \in 1 .. Len(Operands(e)) : Operands(e)[i] \in DOMAIN c.env
<1>1. CASE e.op = "var"
  <2>1. OwnErrors(c, e, branch) = ReadErrors(c, e.name) /\ Operands(e) = <<>>
    BY <1>1 DEF OwnErrors, Operands
  <2> QED
    BY <1>1, <2>1, ReadErrorsFacts, EmptyList
<1>2. CASE e.op = "snapshot"
  <2>1. OwnErrors(c, e, branch) = Flag("F3005", e.resource # Catalog) /\ Operands(e) = <<>>
    BY <1>2 DEF OwnErrors, Operands
  <2> QED
    BY <1>2, <2>1, FlagFacts, EmptyList
<1>3. CASE e.op = "propose"
  <2>1. OwnErrors(c, e, branch) = ProposeErrors(c, e)
    BY <1>3 DEF OwnErrors
  <2> QED
    BY <1>3, <2>1, ProposeEnough DEF Enough
<1>4. CASE e.op = "explore"
  <2>1. OwnErrors(c, e, branch) = ExploreErrors(c, e)
    BY <1>4 DEF OwnErrors
  <2> QED
    BY <1>4, <2>1, ExploreEnough DEF Enough
<1>5. CASE e.op = "simulate"
  <2>1. OwnErrors(c, e, branch) = SimulateErrors(c, e, branch)
    BY <1>5 DEF OwnErrors
  <2> QED
    BY <1>5, <2>1, SimulateEnough DEF Enough
<1>6. CASE e.op = "call"
  <2>1. OwnErrors(c, e, branch) = CallErrors(c, e, branch) /\ Operands(e) = e.args
    BY <1>6 DEF OwnErrors, Operands
  <2>2. IsList(e.args)
    BY <1>6 DEF Worded
  <2> QED
    BY <1>6, <2>1, <2>2, CallEnough DEF Enough
<1>7. CASE e.op = "select"
  <2>1. OwnErrors(c, e, branch) = SelectErrors(c, e)
    BY <1>7 DEF OwnErrors
  <2> QED
    BY <1>7, <2>1, SelectEnough DEF Enough
<1>8. CASE e.op = "commit"
  <2>1. OwnErrors(c, e, branch) = CommitErrors(c, e, branch)
    BY <1>8 DEF OwnErrors
  <2> QED
    BY <1>8, <2>1, CommitEnough DEF Enough
<1> QED
  BY <1>1, <1>2, <1>3, <1>4, <1>5, <1>6, <1>7, <1>8 DEF Worded, Operations

LEMMA LanguageAgain ==
    /\ \A e : IR!Operands(e) = Operands(e) /\ IR!Literals(e) = Literals(e)
    /\ \A lists : IR!FlattenSeq(lists) = FlattenSeq(lists)
<1>1. \A e : IR!Operands(e) = Operands(e)
  BY DEF IR!Operands, Operands
<1>2. \A e : IR!Literals(e) = Literals(e)
  BY DEF IR!Literals, Literals
<1>3. \A lists : IR!FlattenSeq(lists) = FlattenSeq(lists)
  BY DEF IR!FlattenSeq, FlattenSeq
<1> QED
  BY <1>1, <1>2, <1>3

LEMMA OperandsReadable ==
    ASSUME NEW c, Clean(c), NEW names, IsList(names),
           \A i \in 1 .. Len(names) : names[i] \in DOMAIN c.env
    PROVE  LET vars_ == [i \in DOMAIN names |-> "var"]
           IN  IsList(vars_) /\ Readable(OperandRows(c, names), vars_)
<1>1. PICK n, f, rows : /\ n = Len(names) /\ f = [i \in DOMAIN names |-> "var"]
                        /\ rows = OperandRows(c, names)
  OBVIOUS
<1>2. n \in Nat /\ DOMAIN names = 1 .. n
  BY <1>1, ListFacts
<1>3. IsList(f) /\ Len(f) = n
  <2>1. f = [i \in 1 .. n |-> f[i]]
    BY <1>1, <1>2
  <2> QED
    BY <1>2, <2>1, ListOf
<1>4. IsList(rows) /\ Len(rows) = n
  BY <1>1, OperandRowsList
<1>5. ASSUME NEW i \in 1 .. n PROVE rows[i].op = f[i] /\ rows[i].type.kind # "error"
  <2>1. rows[i] = Described("var", Lookup(c, names[i])) /\ f[i] = "var"
    BY <1>1, <1>2 DEF OperandRows
  <2>2. Lookup(c, names[i]).kind # "error"
    BY <1>1 DEF Lookup, Clean
  <2> QED
    BY <2>1, <2>2 DEF Described
<1> QED
  BY <1>1, <1>3, <1>4, <1>5 DEF Readable

LEMMA LiteralsReadable ==
    ASSUME NEW e
    PROVE  IsList(Literals(e)) /\ Readable(LiteralRows(Literals(e)), Literals(e))
<1>1. PICK k, rows : k = Literals(e) /\ rows = LiteralRows(k)
  OBVIOUS
<1>2. /\ IsList(k) /\ Len(k) \in Nat
      /\ \A i \in 1 .. Len(k) : k[i] \in {"string", "int"}
  <2>1. CASE e.op = "propose"
    <3>1. PICK a : a = <<"string", "int">>
      OBVIOUS
    <3>2. IsList(a) /\ Len(a) = 2 /\ a[1] = "string" /\ a[2] = "int"
      BY <3>1, Pairs
    <3>3. k = a
      BY <1>1, <2>1, <3>1 DEF Literals
    <3> QED
      BY <3>2, <3>3
  <2>2. CASE e.op # "propose"
    <3>1. k = <<>>
      BY <1>1, <2>2 DEF Literals
    <3> QED
      BY <3>1, EmptyList
  <2> QED
    BY <2>1, <2>2
<1>3. PICK n : n = Len(k) /\ n \in Nat /\ DOMAIN k = 1 .. n
  BY <1>2, ListFacts
<1>4. IsList(rows) /\ Len(rows) = n
  <2>1. rows = [i \in 1 .. n |-> rows[i]]
    BY <1>1, <1>3 DEF LiteralRows
  <2> QED
    BY <1>3, <2>1, ListOf
<1>5. ASSUME NEW i \in 1 .. n PROVE rows[i].op = k[i] /\ rows[i].type.kind # "error"
  <2>1. rows[i] = Described(k[i], Scalar(k[i]))
    BY <1>1, <1>3 DEF LiteralRows
  <2>2. Scalar(k[i]).kind = k[i] /\ k[i] # "error"
    BY <1>2, <1>3 DEF Scalar, Binding
  <2> QED
    BY <2>1, <2>2 DEF Described
<1> QED
  BY <1>1, <1>2, <1>3, <1>4, <1>5 DEF Readable

LEMMA NoErrorType ==
    ASSUME NEW c, Clean(c), NEW e, NEW branch, Worded(e), e.op = "call" => Offered(e),
           e.op = "var" => e.name \in DOMAIN c.env
    PROVE  TypeOf(c, e, branch).kind # "error"
<1>1. CASE e.op = "var"
  BY <1>1 DEF TypeOf, Lookup, Clean
<1>2. CASE e.op = "call"
  <2>1. TypeOf(c, e, branch) = Scalar(Result[e.method])
    BY <1>2 DEF TypeOf
  <2>2. Result[e.method] \in {"int", "bool"}
    BY <1>2 DEF Offered, Result, Methods
  <2> QED
    BY <2>1, <2>2 DEF Scalar, Binding
<1>3. CASE e.op \notin {"var", "call"}
  <2>1. TypeOf(c, e, branch).kind \in
           {"snapshot", "plans", "trials", "simulated", "selected", "outcome"}
    BY <1>3, BindingFacts DEF Worded, Operations, TypeOf
  <2> QED
    BY <2>1
<1> QED
  BY <1>1, <1>2, <1>3

LEMMA OwnReadable ==
    ASSUME NEW c, Clean(c), NEW e, NEW branch, Worded(e), OwnErrors(c, e, branch) = <<>>
    PROVE  Readable(TypesOf(c, e, branch), IR!Own(e))
<1>1. PICK type, row, lits, names, first :
          /\ type = TypeOf(c, e, branch) /\ row = <<Described(e.op, type)>> /\ lits = Literals(e)
          /\ names = Operands(e) /\ first = <<e.op>>
  OBVIOUS
<1>2. PICK word, below, last :
          /\ word = [i \in DOMAIN names |-> "var"] /\ below = OperandRows(c, names)
          /\ last = LiteralRows(lits)
  OBVIOUS
<1>3. /\ IsList(names) /\ (e.op = "call" => Offered(e)) /\ (e.op = "var" => e.name \in DOMAIN c.env)
      /\ \A i \in 1 .. Len(names) : names[i] \in DOMAIN c.env
  BY <1>1, OwnEnough
<1>4. IsList(word) /\ Readable(below, word)
  BY <1>2, <1>3, OperandsReadable
<1>5. IsList(lits) /\ Readable(last, lits)
  BY <1>1, <1>2, LiteralsReadable
<1>6. IsList(first) /\ Readable(row, first)
  <2>1. type.kind # "error"
    BY <1>1, <1>3, NoErrorType
  <2>2. Described(e.op, type).op = e.op /\ Described(e.op, type).type.kind # "error"
    BY <2>1 DEF Described
  <2>3. /\ IsList(row) /\ Len(row) = 1 /\ row[1] = Described(e.op, type)
        /\ IsList(first) /\ Len(first) = 1 /\ first[1] = e.op
    BY <1>1, OneItem
  <2> QED
    BY <2>2, <2>3 DEF Readable
<1>7. Readable((row \o below) \o last, (first \o word) \o lits)
  <2>1. Readable(row \o below, first \o word) /\ IsList(first \o word)
    BY <1>4, <1>6, ReadableConcat, ConcatFacts
  <2> QED
    BY <1>5, <2>1, ReadableConcat
<1>8. TypesOf(c, e, branch) = row \o (below \o last)
  <2>1. TypesOf(c, e, branch) = row \o OwnRows(c, e)
    BY <1>1, TypesInOrder
  <2> QED
    BY <1>1, <1>2, <1>3, <2>1 DEF OwnRows
<1>9. (row \o below) \o last = row \o (below \o last)
  <2>1. IsList(row) /\ IsList(below) /\ IsList(last)
    BY <1>4, <1>5, <1>6 DEF Readable
  <2> QED
    BY <2>1, ConcatAgain
<1>10. IR!Own(e) = (first \o word) \o lits
  BY <1>1, <1>2, LanguageAgain DEF IR!Own
<1> QED
  BY <1>7, <1>8, <1>9, <1>10

LEMMA OwnList ==
    ASSUME NEW e, Worded(e)
    PROVE  IsList(IR!Own(e))
<1>1. PICK lits, names, first, word :
          /\ lits = Literals(e) /\ names = Operands(e) /\ first = <<e.op>>
          /\ word = [i \in DOMAIN names |-> "var"]
  OBVIOUS
<1>2. IsList(names)
  BY <1>1, OwnEnough
<1>3. IsList(word)
  <2>1. PICK n : n = Len(names)
    OBVIOUS
  <2>2. n \in Nat /\ word = [i \in 1 .. n |-> word[i]]
    BY <1>1, <1>2, <2>1, ListFacts
  <2> QED
    BY <2>2, ListOf
<1>4. IsList(first) /\ IsList(lits)
  BY <1>1, OneItem, LiteralsReadable
<1>5. IsList((first \o word) \o lits)
  BY <1>3, <1>4, ListsJoin
<1>6. IR!Own(e) = (first \o word) \o lits
  BY <1>1, LanguageAgain DEF IR!Own
<1> QED
  BY <1>5, <1>6

LEMMA TypesRows ==
    ASSUME NEW c, NEW e, NEW branch, Worded(e)
    PROVE  Rows(TypesOf(c, e, branch))
<1>1. \A op, type : Described(op, type) =
                       [op |-> Described(op, type).op, type |-> Described(op, type).type]
  BY DEF Described
<1>2. PICK first, below, last :
          /\ first = <<Described(e.op, TypeOf(c, e, branch))>>
          /\ below = IF e.op = "call" /\ ~Offered(e) THEN <<>> ELSE OperandRows(c, Operands(e))
          /\ last = LiteralRows(Literals(e))
  OBVIOUS
<1>3. IsList(first) /\ Rows(first)
  BY <1>1, <1>2, OneItem DEF Rows
<1>4. IsList(below) /\ Rows(below)
  <2>1. IsList(Operands(e)) /\ IsList(<<>>)
    BY OwnEnough, EmptyList
  <2>2. IsList(below)
    BY <1>2, <2>1, OperandRowsList
  <2>3. \A i \in DOMAIN below : \E op, type : below[i] = Described(op, type)
    BY <1>2 DEF OperandRows
  <2> QED
    BY <1>1, <2>2, <2>3 DEF Rows, ToSet
<1>5. IsList(last) /\ Rows(last)
  <2>1. IsList(last)
    BY <1>2, LiteralsReadable DEF Readable
  <2>2. \A i \in DOMAIN last : \E op, type : last[i] = Described(op, type)
    BY <1>2 DEF LiteralRows
  <2> QED
    BY <1>1, <2>1, <2>2 DEF Rows, ToSet
<1>6. Rows(first \o (below \o last))
  <2>1. ToSet(below \o last) = ToSet(below) \cup ToSet(last) /\ IsList(below \o last)
    BY <1>4, <1>5, ConcatFacts
  <2>2. ToSet(first \o (below \o last)) = ToSet(first) \cup ToSet(below \o last)
    BY <1>3, <2>1, ConcatFacts
  <2> QED
    BY <1>3, <1>4, <1>5, <2>1, <2>2 DEF Rows
<1>7. TypesOf(c, e, branch) = first \o (below \o last)
  BY <1>2, TypesInOrder DEF OwnRows
<1> QED
  BY <1>6, <1>7

LEMMA LoweredVisited ==
    ASSUME NEW c, Sane(c), NEW e, NEW branch, Worded(e)
    PROVE  LET d == Visited(c, e, branch) IN
           /\ Lowered(c, d, IR!Own(e)) /\ d.env = c.env
           /\ d.diagnostics = <<>> /\ Clean(c) => TypeOf(c, e, branch).kind # "error"
<1>1. PICK d, codes, own, forbidden, types :
          /\ d = Visited(c, e, branch) /\ codes = ErrorsOf(c, e, branch)
          /\ own = OwnErrors(c, e, branch) /\ forbidden = ForbiddenErrors(e, branch)
          /\ types = TypesOf(c, e, branch)
  OBVIOUS
<1>2. /\ IsReference(d) /\ d.env = c.env /\ d.used = c.used \cup EffectOf(c, e)
      /\ d.diagnostics = c.diagnostics \o codes /\ d.types = c.types \o types
  <2>1. IsReference(c)
    BY DEF Sane
  <2>2. /\ Accounted(c, Visited(c, e, branch), e)
        /\ Visited(c, e, branch).diagnostics = c.diagnostics \o ErrorsOf(c, e, branch)
        /\ Visited(c, e, branch).types = c.types \o TypesOf(c, e, branch)
    BY <2>1, VisitedFacts
  <2> QED
    BY <1>1, <2>2 DEF Accounted
<1>3. codes = forbidden \o own
  BY <1>1, ErrorsInOrder
<1>4. IsList(own) /\ IsList(forbidden) /\ IsList(codes) /\ (codes = <<>> => own = <<>>)
  <2>1. IsList(own) /\ IsList(forbidden)
    BY <1>1, OwnEnough, FlagFacts DEF ForbiddenErrors
  <2> QED
    BY <1>3, <2>1, ListsJoin
<1>5. IsList(types) /\ IsList(c.types) /\ IsList(c.diagnostics)
  BY <1>1, TypesInOrder DEF Sane
<1>6. IsFiniteSet(d.used)
  <2>1. EffectOf(c, e) = {} \/ \E x : EffectOf(c, e) = {x}
    BY DEF EffectOf
  <2>2. IsFiniteSet(EffectOf(c, e))
    BY <2>1, FS_EmptySet, FS_Singleton
  <2> QED
    BY <1>2, <2>2, FS_Union DEF Sane
<1>7. Sane(d)
  <2>1. Rows(types) /\ Rows(c.types)
    BY <1>1, TypesRows DEF Sane
  <2>2. ToSet(c.types \o types) = ToSet(c.types) \cup ToSet(types)
    BY <1>5, ConcatFacts
  <2>3. Rows(d.types)
    BY <1>2, <2>1, <2>2 DEF Rows
  <2>4. IsList(d.types) /\ IsList(d.diagnostics)
    BY <1>2, <1>4, <1>5, ListsJoin
  <2> QED
    BY <1>2, <1>6, <2>3, <2>4 DEF Sane
<1>8. ASSUME d.diagnostics = <<>> PROVE c.diagnostics = <<>> /\ own = <<>>
  BY <1>2, <1>4, <1>5, <1>8, ListsJoin
<1>9. ASSUME d.diagnostics = <<>>, Clean(c)
      PROVE  /\ Readable(types, IR!Own(e)) /\ Clean(d)
             /\ TypeOf(c, e, branch).kind # "error"
  <2>1. own = <<>>
    BY <1>8, <1>9
  <2>2. Readable(types, IR!Own(e))
    BY <1>1, <1>9, <2>1, OwnReadable
  <2>3. Clean(d)
    BY <1>2, <1>9 DEF Clean
  <2> QED
    BY <1>1, <1>9, <2>1, <2>2, <2>3, OwnEnough, NoErrorType
<1>10. IsList(IR!Own(e))
  BY OwnList
<1>11. Lowered(c, d, IR!Own(e))
  BY <1>2, <1>7, <1>8, <1>9, <1>10 DEF Lowered
<1> QED
  BY <1>1, <1>2, <1>9, <1>11

TraversalAt(level, e) ==
    CASE level = 1 -> IR!Own(e)
      [] level = 2 -> IR!Inner(e)
      [] level = 3 -> IR!Traversal(e)
Lowerable(level) ==
    \A c, branch, s :
        WellFormed(level, s) /\ Sane(c)
          => Lowered(c, AtLevel(level, c, s, branch), TraversalAt(level, s.value))

LEMMA LoweredBound ==
    ASSUME NEW c, Sane(c), NEW name, NEW type, c.diagnostics = <<>> /\ Clean(c) => type.kind # "error"
    PROVE  Lowered(c, [c EXCEPT !.env = Bind(@, name, type)], <<>>)
<1>1. PICK d, env : d = [c EXCEPT !.env = Bind(@, name, type)] /\ env = Bind(c.env, name, type)
  OBVIOUS
<1>2. /\ IsReference(d) /\ d.diagnostics = c.diagnostics /\ d.types = c.types
      /\ d.used = c.used /\ d.env = env
  BY <1>1 DEF Sane, IsReference
<1>3. Sane(d)
  BY <1>2 DEF Sane
<1>4. ASSUME d.diagnostics = <<>>, Clean(c) PROVE Clean(d)
  BY <1>1, <1>2, <1>4 DEF Clean, Bind
<1>5. Readable(<<>>, <<>>) /\ IsList(<<>>)
  BY EmptyList DEF Readable
<1>6. d.types = c.types \o <<>>
  BY <1>2, ConcatEmpty DEF Sane
<1> QED
  BY <1>1, <1>2, <1>3, <1>4, <1>5, <1>6 DEF Lowered

LEMMA LoweredNothing ==
    ASSUME NEW c, Sane(c), NEW d, NEW e, NEW ops, IsList(ops)
    PROVE  /\ Lowered(c, d, <<>>) /\ Lowered(d, e, ops) => Lowered(c, e, ops)
           /\ Lowered(c, d, ops) /\ Lowered(d, e, <<>>) => Lowered(c, e, ops)
<1>1. ops \o <<>> = ops /\ <<>> \o ops = ops
  BY ConcatEmpty
<1>2. ASSUME Lowered(c, d, <<>>), Lowered(d, e, ops) PROVE Lowered(c, e, <<>> \o ops)
  BY <1>2, LoweredFurther
<1>3. ASSUME Lowered(c, d, ops), Lowered(d, e, <<>>) PROVE Lowered(c, e, ops \o <<>>)
  BY <1>3, LoweredFurther
<1> QED
  BY <1>1, <1>2, <1>3

LEMMA LoweredSettled ==
    ASSUME NEW c, Sane(c), NEW s, s.kind \in Kinds, NEW type, NEW branch,
           c.diagnostics = <<>> /\ Clean(c) => type.kind # "error"
    PROVE  Lowered(c, Settled(c, s, type, branch), <<>>)
<1>1. CASE s.kind = "let"
  <2>1. PICK d, codes :
            /\ d = [c EXCEPT !.env = Bind(@, s.name, type)]
            /\ codes = Flag("F3300", "annotation" \in DOMAIN s /\ ~Describes(s.annotation, type))
    OBVIOUS
  <2>2. Settled(c, s, type, branch) = Reported(d, codes)
    BY <1>1, <2>1 DEF Settled
  <2>3. Lowered(c, d, <<>>)
    BY <2>1, LoweredBound
  <2>4. Sane(d) /\ IsList(codes) /\ IsList(<<>>)
    BY <2>1, <2>3, FlagFacts DEF Lowered
  <2>5. Lowered(d, Reported(d, codes), <<>>)
    BY <2>4, LoweredReported
  <2> QED
    BY <2>2, <2>3, <2>4, <2>5, LoweredNothing
<1>2. CASE s.kind = "return"
  <2>1. PICK codes : codes = Flag("F3203", branch # NoBranch \/ type.kind # "outcome")
    OBVIOUS
  <2>2. Settled(c, s, type, branch) = Reported(c, codes) /\ IsList(codes)
    BY <1>2, <2>1, FlagFacts DEF Settled
  <2> QED
    BY <2>2, LoweredReported
<1>3. CASE s.kind = "check"
  <2>1. PICK codes : codes = Flag("F3205", type.kind # "bool")
    OBVIOUS
  <2>2. Settled(c, s, type, branch) = Reported(c, codes) /\ IsList(codes)
    BY <1>3, <2>1, FlagFacts DEF Settled
  <2> QED
    BY <2>2, LoweredReported
<1>4. CASE s.kind = "measure"
  <2>1. PICK codes : codes = Flag("F3205", type.kind # "int" \/ s.type # "Int")
    OBVIOUS
  <2>2. Settled(c, s, type, branch) = Reported(c, codes) /\ IsList(codes)
    BY <1>4, <2>1, FlagFacts DEF Settled
  <2> QED
    BY <2>2, LoweredReported
<1> QED
  BY <1>1, <1>2, <1>3, <1>4 DEF Kinds

LEMMA LoweredEntered ==
    ASSUME NEW c, Sane(c), NEW s, NEW branch
    PROVE  Lowered(c, Entered(c, s, branch), <<>>) /\ Sane(Entered(c, s, branch))
<1>1. PICK a, b, d : /\ a = Flag("F3204", s.kind = "let" /\ s.name \in Reserved)
                     /\ b = Flag("F3003", s.kind = "let" /\ s.name \in DOMAIN c.env)
                     /\ d = Flag("F3100", s.kind \in {"check", "measure"} /\ branch = NoBranch)
  OBVIOUS
<1>2. IsList(a) /\ IsList(b) /\ IsList(d)
  BY <1>1, FlagFacts
<1>3. IsList(a \o b \o d)
  BY <1>2, ListsJoin
<1>4. Entered(c, s, branch) = Reported(c, a \o b \o d)
  BY <1>1 DEF Entered
<1>5. Lowered(c, Reported(c, a \o b \o d), <<>>)
  BY <1>3, LoweredReported
<1> QED
  BY <1>4, <1>5 DEF Lowered

LEMMA PlainLowered ==
    ASSUME NEW level \in Levels, NEW c, Sane(c), NEW s, NEW branch, WellFormed(level, s),
           s.value.op # "explore"
    PROVE  Lowered(c, AtLevel(level, c, s, branch), TraversalAt(level, s.value))
<1>1. PICK e, a, d, type, ops :
          /\ e = s.value /\ a = Entered(c, s, branch) /\ d = Visited(a, e, branch)
          /\ type = TypeOf(a, e, branch) /\ ops = IR!Own(e)
  OBVIOUS
<1>2. AtLevel(level, c, s, branch) = Settled(d, s, type, branch)
  BY <1>1, Unfolded
<1>3. TraversalAt(level, s.value) = ops
  BY <1>1 DEF TraversalAt, Levels, IR!Inner, IR!Traversal
<1>4. Lowered(c, a, <<>>) /\ Sane(a)
  BY <1>1, LoweredEntered
<1>5. Worded(e) /\ s.kind \in Kinds
  BY <1>1 DEF WellFormed
<1>6. /\ Lowered(a, d, ops) /\ d.env = a.env
      /\ d.diagnostics = <<>> /\ Clean(a) => type.kind # "error"
  BY <1>1, <1>4, <1>5, LoweredVisited
<1>7. Sane(d) /\ IsList(ops) /\ (Clean(d) <=> Clean(a))
  BY <1>6 DEF Lowered, Clean
<1>8. Lowered(d, Settled(d, s, type, branch), <<>>)
  BY <1>5, <1>6, <1>7, LoweredSettled
<1>9. Lowered(c, d, ops)
  BY <1>4, <1>6, <1>7, LoweredNothing
<1> QED
  BY <1>2, <1>3, <1>7, <1>8, <1>9, LoweredNothing

LEMMA LoweredInside ==
    ASSUME NEW c, Sane(c), NEW item, item.kind # "error", NEW start,
           start = [c EXCEPT !.env = Bind(@, Item, item)],
           NEW g, NEW ops, Lowered(start, g, ops)
    PROVE  Lowered(c, [g EXCEPT !.env = c.env], ops)
<1>1. Lowered(c, [c EXCEPT !.env = Bind(@, Item, item)], <<>>)
  BY LoweredBound
<1>2. IsList(ops)
  BY DEF Lowered
<1>3. Lowered(c, g, ops)
  BY <1>1, <1>2, LoweredNothing
<1>4. PICK d, env : d = [g EXCEPT !.env = env] /\ env = c.env
  OBVIOUS
<1>5. /\ IsReference(d) /\ d.diagnostics = g.diagnostics /\ d.types = g.types
      /\ d.used = g.used /\ d.env = env
  BY <1>3, <1>4 DEF Lowered, Sane, IsReference
<1>6. Sane(d) /\ (Clean(c) => Clean(d))
  BY <1>3, <1>4, <1>5 DEF Lowered, Sane, Clean
<1> QED
  BY <1>3, <1>4, <1>5, <1>6 DEF Lowered

LEMMA BodyLowered ==
    ASSUME NEW level \in {2, 3}, Lowerable(Deeper(level)), NEW e, NEW k \in Nat,
           \A i \in 1 .. k : WellFormed(Deeper(level), e.body[i]),
           NEW origin, NEW start, Sane(start), NEW g,
           Looped(ReferenceLoop(level, origin, e), start, g, k), NEW lists,
           lists = [i \in 1 .. k |-> TraversalAt(Deeper(level), e.body[i].value)]
    PROVE  Lowered(start, g[k], FlattenSeq(lists))
<1>1. PICK below, there, loop :
          /\ below = Deeper(level) /\ there = InnerBranch(origin, e)
          /\ loop = ReferenceLoop(level, origin, e)
  OBVIOUS
<1>2. IsList(lists) /\ Len(lists) = k
  <2>1. lists = [i \in 1 .. k |-> lists[i]]
    OBVIOUS
  <2> QED
    BY <2>1, ListOf
<1>3. \A i \in 1 .. k : lists[i] = TraversalAt(below, e.body[i].value)
  BY <1>1
<1>4. \A i \in 1 .. k : \A c : Sane(c) => Lowered(c, AtLevel(below, c, e.body[i], there), lists[i])
  BY <1>1, <1>3 DEF Lowerable
<1>5. Lists(lists)
  BY <1>2, <1>4 DEF Lists, Lowered
<1>6. g[0] = start /\ \A i \in 0 .. k - 1 : g[i + 1] = Goes(loop, g[i], i + 1)
  <2>1. Looped(loop, start, g, k)
    BY <1>1
  <2> QED
    BY <2>1, LoopFacts
<1> DEFINE S == {i \in 0 .. k : Lowered(start, g[i], Joined(lists, i))}
<1>7. 0 \in S
  <2>1. Lowered(start, Reported(start, <<>>), <<>>) /\ Reported(start, <<>>) = start
    <3>1. IsList(<<>>) /\ start.diagnostics \o <<>> = start.diagnostics
      BY EmptyList, ConcatEmpty DEF Sane
    <3>2. Reported(start, <<>>) = start
      BY <3>1 DEF Reported, Sane, IsReference
    <3> QED
      BY <3>1, <3>2, LoweredReported
  <2>2. Joined(lists, 0) = <<>> /\ g[0] = start
    BY <1>5, <1>6, JoinedFacts
  <2> QED
    BY <2>1, <2>2
<1>8. ASSUME NEW i \in 0 .. k - 1, i \in S PROVE i + 1 \in S
  <2>1. i + 1 \in 0 .. k /\ i + 1 \in 1 .. k /\ Lowered(start, g[i], Joined(lists, i))
    BY <1>8
  <2>2. PICK d, codes, ops :
            /\ d = AtLevel(below, g[i], e.body[i + 1], there)
            /\ codes = Flag("F3209", Twice(e, i + 1)) /\ ops = lists[i + 1]
    OBVIOUS
  <2>3. Sane(g[i])
    BY <2>1 DEF Lowered
  <2>4. Lowered(g[i], d, ops)
    BY <1>4, <2>1, <2>2, <2>3
  <2>5. Sane(d) /\ IsList(ops) /\ IsList(codes)
    BY <2>2, <2>4, FlagFacts DEF Lowered
  <2>6. Lowered(d, Reported(d, codes), <<>>)
    BY <2>5, LoweredReported
  <2>7. Lowered(g[i], Reported(d, codes), ops)
    BY <2>3, <2>4, <2>5, <2>6, LoweredNothing
  <2>8. g[i + 1] = Reported(d, codes)
    BY <1>1, <1>6, <2>2 DEF Goes, ReferenceLoop
  <2>9. Lowered(start, g[i + 1], Joined(lists, i) \o ops)
    BY <2>1, <2>7, <2>8, LoweredFurther
  <2>10. Joined(lists, i + 1) = Joined(lists, i) \o ops
    BY <1>2, <1>5, <2>2, JoinedFacts
  <2> QED
    BY <2>1, <2>9, <2>10
<1>9. k \in S
  <2> HIDE DEF S
  <2>1. \A i \in 0 .. k : i \in S
    BY <1>7, <1>8, Climbs
  <2> QED
    BY <2>1
<1> QED
  BY <1>2, <1>5, <1>9, JoinedFacts

LEMMA ExploreLowered ==
    ASSUME NEW level \in {2, 3}, Lowerable(Deeper(level)), NEW c, Sane(c), NEW s, NEW branch,
           WellFormed(level, s), s.value.op = "explore"
    PROVE  Lowered(c, AtLevel(level, c, s, branch), TraversalAt(level, s.value))
<1>1. PICK e, a, d, type, ops, k :
          /\ e = s.value /\ a = Entered(c, s, branch) /\ d = Visited(a, e, branch)
          /\ type = TypeOf(a, e, branch) /\ ops = IR!Own(e) /\ k = Len(e.body)
  OBVIOUS
<1>2. level \in Levels /\ level # 1 /\ e.op = "explore"
  BY <1>1 DEF Levels
<1>3. AtLevel(level, c, s, branch) = Settled(BodyAt(level, d, e), s, type, branch)
  BY <1>1, <1>2, Unfolded
<1>4. Lowered(c, a, <<>>) /\ Sane(a)
  BY <1>1, LoweredEntered
<1>5. Worded(e) /\ s.kind \in Kinds
  BY <1>1 DEF WellFormed
<1>6. /\ Lowered(a, d, ops) /\ d.env = a.env
      /\ d.diagnostics = <<>> /\ Clean(a) => type.kind # "error"
  BY <1>1, <1>4, <1>5, LoweredVisited
<1>7. Sane(d) /\ IsList(ops) /\ (Clean(d) <=> Clean(a))
  BY <1>6 DEF Lowered, Clean
<1>8. k \in Nat /\ \A i \in 1 .. k : WellFormed(Deeper(level), e.body[i])
  BY <1>1, DeeperFormed
<1>9. PICK start : start = InnerStart(d, e)
  OBVIOUS
<1>10. PICK g : /\ Looped(ReferenceLoop(level, d, e), start, g, k)
                /\ BodyAt(level, d, e) = [g[k] EXCEPT !.env = d.env]
  <2>1. Len(e.body) \in Nat
    BY <1>1, <1>8
  <2>2. \E g : /\ Looped(ReferenceLoop(level, d, e), InnerStart(d, e), g, Len(e.body))
               /\ BodyAt(level, d, e) = [g[Len(e.body)] EXCEPT !.env = d.env]
    BY <2>1, BodyUnfolded
  <2> QED
    BY <1>1, <1>9, <2>2
<1>11. PICK item : item = ItemOf(d, e)
  OBVIOUS
<1>12. start = [d EXCEPT !.env = Bind(@, Item, item)] /\ item.kind # "error"
  BY <1>9, <1>11, BindingFacts DEF InnerStart, ItemOf
<1>13. Sane(start)
  <2>1. Lowered(d, [d EXCEPT !.env = Bind(@, Item, item)], <<>>)
    BY <1>7, <1>12, LoweredBound
  <2> QED
    BY <1>12, <2>1 DEF Lowered
<1>14. PICK lists : lists = [i \in 1 .. k |-> TraversalAt(Deeper(level), e.body[i].value)]
  OBVIOUS
<1>15. Lowered(start, g[k], FlattenSeq(lists))
  BY <1>8, <1>10, <1>13, <1>14, BodyLowered
<1>16. PICK final, inner : final = BodyAt(level, d, e) /\ inner = FlattenSeq(lists)
  OBVIOUS
<1>17. Lowered(d, final, inner)
  BY <1>7, <1>10, <1>12, <1>15, <1>16, LoweredInside
<1>18. Lowered(a, final, ops \o inner)
  BY <1>4, <1>6, <1>17, LoweredFurther
<1>19. IsList(ops \o inner) /\ Sane(final)
  BY <1>17, <1>18 DEF Lowered
<1>20. final.diagnostics = <<>> /\ Clean(final) => type.kind # "error"
  <2>1. final.env = d.env
    <3>1. IsReference(g[k])
      BY <1>15 DEF Lowered, Sane
    <3> QED
      BY <1>10, <1>16, <3>1 DEF IsReference
  <2>2. final.diagnostics = <<>> => d.diagnostics = <<>>
    BY <1>17 DEF Lowered
  <2> QED
    BY <1>6, <2>1, <2>2 DEF Clean
<1>21. Lowered(final, Settled(final, s, type, branch), <<>>)
  BY <1>5, <1>19, <1>20, LoweredSettled
<1>22. Lowered(c, final, ops \o inner)
  BY <1>4, <1>18, <1>19, LoweredNothing
<1>23. Lowered(c, Settled(final, s, type, branch), ops \o inner)
  BY <1>19, <1>21, <1>22, LoweredNothing
<1>24. TraversalAt(level, e) = ops \o inner
  <2>1. DOMAIN e.body = 1 .. k
    <3>1. IsList(e.body)
      BY <1>1 DEF WellFormed, Flat, Nesting, Parsed
    <3> QED
      BY <1>1, <3>1, ListFacts
  <2>2. CASE level = 2
    <3>1. lists = [i \in DOMAIN e.body |-> IR!Own(e.body[i].value)]
      BY <1>14, <2>1, <2>2 DEF Deeper, TraversalAt
    <3> QED
      BY <1>1, <1>2, <1>16, <2>2, <3>1, LanguageAgain DEF TraversalAt, IR!Inner
  <2>3. CASE level = 3
    <3>1. lists = [i \in DOMAIN e.body |-> IR!Inner(e.body[i].value)]
      BY <1>14, <2>1, <2>3 DEF Deeper, TraversalAt
    <3> QED
      BY <1>1, <1>2, <1>16, <2>3, <3>1, LanguageAgain DEF TraversalAt, IR!Traversal
  <2> QED
    BY <2>2, <2>3
<1> QED
  BY <1>1, <1>3, <1>16, <1>23, <1>24

(* What the reference goes through without an error, the lowerer can go    *)
(* through (Lowerer::statement).                                           *)
LEMMA StatementsLowered == \A level \in Levels : Lowerable(level)
<1>1. ASSUME NEW level \in Levels, level # 1 => Lowerable(Deeper(level)) PROVE Lowerable(level)
  <2>1. SUFFICES ASSUME NEW c, NEW branch, NEW s, WellFormed(level, s), Sane(c)
                 PROVE  Lowered(c, AtLevel(level, c, s, branch), TraversalAt(level, s.value))
    BY DEF Lowerable
  <2>2. CASE s.value.op # "explore"
    BY <2>1, <2>2, PlainLowered
  <2>3. CASE s.value.op = "explore"
    <3>1. level \in {2, 3}
      BY <2>1, <2>3 DEF WellFormed
    <3>2. Lowerable(Deeper(level))
      BY <1>1, <3>1
    <3> QED
      BY <2>1, <2>3, <3>1, <3>2, ExploreLowered
  <2> QED
    BY <2>2, <2>3
<1>2. Lowerable(1)
  BY <1>1 DEF Levels
<1>3. Lowerable(2)
  BY <1>1, <1>2 DEF Levels, Deeper
<1>4. Lowerable(3)
  BY <1>1, <1>3 DEF Levels, Deeper
<1> QED
  BY <1>2, <1>3, <1>4 DEF Levels

-----------------------------------------------------------------------------
(* The table of types, sorted.                                             *)
LEMMA CountsAlike == \A S : Native!Cardinality(S) = Cardinality(S)
BY DEF Native!Cardinality, Cardinality

Entries(rows, types, n) == \A row : row \in rows <=> \E i \in 1 .. n : row = Entry(types, i)
LEMMA Ranks ==
    ASSUME NEW types, NEW n \in Nat, NEW rows,
           Entries(rows, types, n), NEW i \in 1 .. n
    PROVE  Cardinality({other \in rows : other.node <= Entry(types, i).node}) = i
<1>1. PICK T : T = {other \in rows : other.node <= Entry(types, i).node}
  OBVIOUS
<1>2. \A j : Entry(types, j).node = j - 1
  BY DEF Entry
<1>3. PICK f : f = [j \in 1 .. i |-> Entry(types, j)]
  OBVIOUS
<1>4. \A row : row \in T <=> \E j \in 1 .. i : row = Entry(types, j)
  <2>1. ASSUME NEW row \in T PROVE \E j \in 1 .. i : row = Entry(types, j)
    <3>1. PICK j \in 1 .. n : row = Entry(types, j)
      BY <1>1 DEF Entries
    <3>2. j - 1 <= i - 1
      BY <1>1, <1>2, <3>1
    <3> QED
      BY <3>1, <3>2
  <2>2. ASSUME NEW j \in 1 .. i PROVE Entry(types, j) \in T
    <3>1. j \in 1 .. n /\ j - 1 <= i - 1
      OBVIOUS
    <3>2. Entry(types, j) \in rows
      BY <3>1 DEF Entries
    <3> QED
      BY <1>1, <1>2, <3>1, <3>2
  <2> QED
    BY <2>1, <2>2
<1>5. f \in Bijection(1 .. i, T)
  <2>1. f \in [1 .. i -> T]
    BY <1>3, <1>4
  <2>2. \A j, k \in 1 .. i : f[j] = f[k] => j = k
    <3>1. ASSUME NEW j \in 1 .. i, NEW k \in 1 .. i, f[j] = f[k] PROVE j = k
      <4>1. Entry(types, j) = Entry(types, k)
        BY <1>3, <3>1
      <4>2. j - 1 = k - 1
        BY <1>2, <4>1
      <4> QED
        BY <4>2
    <3> QED
      BY <3>1
  <2>3. \A row \in T : \E j \in 1 .. i : f[j] = row
    BY <1>3, <1>4
  <2> QED
    BY <2>1, <2>2, <2>3 DEF Bijection, Injection, Surjection, IsInjective
<1>6. ExistsBijection(1 .. i, T)
  BY <1>5 DEF ExistsBijection
<1>7. IsFiniteSet(1 .. i) /\ Cardinality(1 .. i) = i
  BY FS_Interval
<1> QED
  BY <1>1, <1>6, <1>7, FS_Bijection

(* The analysis of a checker that describes a list of types is that list,  *)
(* however late each of them was described (TypeAnalysis).                 *)
LEMMA AnalysisFacts ==
    ASSUME NEW n, NEW types, Table(n, types, {})
    PROVE  LET rows == Native!Analysis(n) IN
           /\ IsList(rows) /\ Len(rows) = Len(types)
           /\ \A i \in 1 .. Len(types) : rows[i] = Entry(types, i)
<1>1. PICK k, all, list : k = Len(types) /\ all = ToSet(n.expressions) /\ list = Native!Analysis(n)
  OBVIOUS
<1>2. k \in Nat /\ Len(n.expressions) = k /\ DOMAIN n.expressions = 1 .. k
  <2>1. Cardinality({}) = 0
    BY FS_EmptySet
  <2>2. /\ Len(n.expressions) + Cardinality({}) = n.nodes /\ n.nodes = Len(types)
        /\ IsList(types) /\ IsList(n.expressions)
    BY DEF Table
  <2>3. Len(types) \in Nat /\ Len(n.expressions) \in Nat
    BY <2>2, ListFacts
  <2> QED
    BY <1>1, <2>1, <2>2, <2>3, ListFacts
<1>3. \A row : row \in all <=> \E i \in 1 .. k : row = Entry(types, i)
  BY <1>1 DEF Table
<1>4. PICK placed : placed = {<<Cardinality({other \in all : other.node <= row.node}), row>> : row \in all}
  OBVIOUS
<1>5. \A place : place \in placed <=> \E i \in 1 .. k : place = <<i, Entry(types, i)>>
  <2>1. \A i \in 1 .. k : Cardinality({other \in all : other.node <= Entry(types, i).node}) = i
    <3>1. ASSUME NEW i \in 1 .. k
          PROVE  Cardinality({other \in all : other.node <= Entry(types, i).node}) = i
      <4>1. k \in Nat /\ Entries(all, types, k)
        BY <1>2, <1>3 DEF Entries
      <4>2. PICK number : number = Cardinality({other \in all : other.node <= Entry(types, i).node})
        OBVIOUS
      <4>3. number = i
        BY <4>1, <4>2, Ranks
      <4> QED
        BY <4>2, <4>3
    <3> QED
      BY <3>1
  <2>2. ASSUME NEW place \in placed PROVE \E i \in 1 .. k : place = <<i, Entry(types, i)>>
    <3>1. PICK row \in all : place = <<Cardinality({other \in all : other.node <= row.node}), row>>
      BY <1>4
    <3>2. PICK i \in 1 .. k : row = Entry(types, i)
      BY <1>3
    <3> QED
      BY <2>1, <3>1, <3>2
  <2>3. ASSUME NEW i \in 1 .. k PROVE <<i, Entry(types, i)>> \in placed
    <3>1. Entry(types, i) \in all
      BY <1>3
    <3>2. <<Cardinality({other \in all : other.node <= Entry(types, i).node}), Entry(types, i)>>
             \in placed
      BY <1>4, <3>1
    <3> QED
      BY <2>1, <3>2
  <2> QED
    BY <2>2, <2>3
<1>6. list = [i \in 1 .. k |-> (CHOOSE place \in placed : place[1] = i)[2]]
  <2>1. Native!ToSet(n.expressions) = all
    BY <1>1, SameLanguage
  <2>2. Native!Analysis(n) =
           [i \in DOMAIN n.expressions |-> (CHOOSE place \in placed : place[1] = i)[2]]
    <3>1. placed = {<<Native!Cardinality({other \in all : other.node <= row.node}), row>> : row \in all}
      BY <1>4, CountsAlike
    <3> QED
      BY <2>1, <3>1 DEF Native!Analysis
  <2> QED
    BY <1>1, <1>2, <2>2
<1>7. ASSUME NEW i \in 1 .. k PROVE list[i] = Entry(types, i)
  <2>1. PICK chosen : chosen = CHOOSE place \in placed : place[1] = i
    OBVIOUS
  <2>2. \E place \in placed : place[1] = i
    <3>1. <<i, Entry(types, i)>> \in placed
      BY <1>5
    <3> QED
      BY <3>1
  <2>3. chosen \in placed /\ chosen[1] = i
    BY <2>1, <2>2
  <2>4. chosen = <<i, Entry(types, i)>>
    BY <1>5, <2>3
  <2> QED
    BY <1>6, <2>1, <2>4
<1>8. IsList(list) /\ Len(list) = k
  <2>1. list = [i \in 1 .. k |-> list[i]]
    BY <1>6
  <2> QED
    BY <1>2, <2>1, ListOf
<1> QED
  BY <1>1, <1>7, <1>8

(* Rows that are readable fit what is lowered, and are taken.              *)
LEMMA TakenRows ==
    ASSUME NEW n, NEW types, NEW rows, NEW ops, IsList(types), IsList(ops), Readable(rows, ops),
           Table(n, types \o rows, {})
    PROVE  IR!TakeAll([next |-> Len(types), mismatch |-> FALSE], Native!Analysis(n), ops) =
              [next |-> Len(types \o rows), mismatch |-> FALSE]
<1>1. PICK k, m, all, list :
          /\ k = Len(types) /\ m = Len(ops) /\ all = types \o rows /\ list = Native!Analysis(n)
  OBVIOUS
<1>2. /\ k \in Nat /\ m \in Nat /\ DOMAIN ops = 1 .. m /\ IsList(rows) /\ Len(rows) = m
  BY <1>1, ListFacts DEF Readable
<1>3. Len(all) = k + m /\ \A i \in 1 .. k + m : all[i] = IF i <= k THEN types[i] ELSE rows[i - k]
  <2>1. /\ Len(all) = Len(types) + Len(rows)
        /\ \A i \in 1 .. Len(types) + Len(rows) :
              all[i] = IF i <= Len(types) THEN types[i] ELSE rows[i - Len(types)]
    BY <1>1, <1>2, ConcatFacts
  <2> QED
    BY <1>1, <1>2, <2>1
<1>4. Len(list) = k + m /\ \A i \in 1 .. k + m : list[i] = Entry(all, i)
  <2>1. Table(n, all, {})
    BY <1>1
  <2>2. Len(list) = Len(all) /\ \A i \in 1 .. Len(all) : list[i] = Entry(all, i)
    BY <1>1, <2>1, AnalysisFacts
  <2> QED
    BY <1>3, <2>2
<1>5. ASSUME NEW i \in 1 .. m PROVE IR!Fits(list, k + i - 1, ops[i])
  <2>1. k + i - 1 < k + m /\ (k + i - 1) + 1 = k + i /\ k + i \in 1 .. k + m /\ ~(k + i <= k)
        /\ (k + i) - k = i /\ k + i - 1 \in Nat
    BY <1>2
  <2>2. all[k + i] = rows[i]
    BY <1>3, <2>1
  <2>3. rows[i].op = ops[i] /\ rows[i].type.kind # "error"
    BY <1>1 DEF Readable
  <2>4. list[k + i] = [node |-> k + i - 1, op |-> rows[i].op, type |-> rows[i].type]
    BY <1>4, <2>1, <2>2 DEF Entry
  <2> QED
    BY <1>4, <2>1, <2>3, <2>4 DEF IR!Fits
<1>6. PICK l : l = [next |-> k, mismatch |-> FALSE]
  OBVIOUS
<1>7. IR!TakeAll(l, list, ops) = [next |-> k + m, mismatch |-> FALSE]
  <2>1. l.next = k /\ l.mismatch = FALSE
    BY <1>6
  <2>2. ~(\E i \in DOMAIN ops : ~IR!Fits(list, l.next + i - 1, ops[i]))
    BY <1>2, <1>5, <2>1
  <2> QED
    BY <1>1, <2>1, <2>2 DEF IR!TakeAll
<1> QED
  BY <1>1, <1>3, <1>6, <1>7

-----------------------------------------------------------------------------
(* Before and after the statements.                                        *)
LEMMA DeferredSteps ==
    ASSUME NEW n, IsNative(n), NEW codes, Ordinary(codes), ToSet(codes) \subseteq Deferred[n.stage]
    PROVE  Steps(n, n, codes, <<>>)
<1>1. PICK D : D = Deferred[n.stage]
  OBVIOUS
<1>2. ASSUME NEW told, IsList(told), Told(n, told) PROVE Told(n, told \o codes)
  <2>1. IsList(codes) /\ Without(codes, D) = <<>>
    BY <1>1, WithoutAll DEF Ordinary
  <2>2. /\ Without(told \o codes, D) = Without(told, D) \o Without(codes, D)
        /\ IsList(Without(told, D))
    <3>1. IsList(told) /\ IsList(codes)
      BY <1>2, <2>1
    <3> QED
      BY <3>1, WithoutConcat
  <2>3. Without(told \o codes, D) = Without(told, D)
    BY <2>1, <2>2, ConcatEmpty
  <2> QED
    BY <1>1, <1>2, <2>3 DEF Told
<1>3. Adds(n, n, codes)
  BY <1>2 DEF Adds
<1>4. Steps(n, n, <<>>, <<>>)
  BY NothingMoves
<1> QED
  BY <1>3, <1>4 DEF Steps, Moves

LEMMA EachSteps ==
    ASSUME NEW n, IsNative(n), NEW code \in Permissions, NEW set, IsFiniteSet(set)
    PROVE  Steps(n, IF Native!EffectsEnabled(n)
                    THEN Native!Errors(n, code, Native!Cardinality(set)) ELSE n,
                 Each(code, set), <<>>)
<1>1. PICK k, codes, lists, loop :
          /\ k = Cardinality(set) /\ codes = Each(code, set)
          /\ lists = [i \in 1 .. k |-> <<code>>] /\ loop = [of |-> "errors", code |-> code]
  OBVIOUS
<1>2. k \in Nat /\ Native!Cardinality(set) = k
  BY <1>1, FS_CardinalityType, CountsAlike
<1>3. IsList(codes) /\ Len(codes) = k /\ \A i \in 1 .. k : codes[i] = code
  <2>1. codes = [i \in 1 .. k |-> code]
    BY <1>1 DEF Each
  <2>2. codes = [i \in 1 .. k |-> codes[i]]
    BY <2>1
  <2> QED
    BY <1>2, <2>1, <2>2, ListOf
<1>4. ToSet(codes) \subseteq {code} /\ DOMAIN codes = 1 .. k
  BY <1>3, ListFacts DEF ToSet
<1>5. Ordinary(codes)
  BY <1>3, <1>4 DEF Ordinary, Codes
<1>6. CASE ~Native!EffectsEnabled(n)
  <2>1. n.stage = "types"
    BY <1>6 DEF Native!EffectsEnabled
  <2>2. code \in Deferred[n.stage]
    BY <2>1, CodesFacts DEF IsNative
  <2>3. Steps(n, n, codes, <<>>)
    BY <1>4, <1>5, <2>2, DeferredSteps
  <2> QED
    BY <1>1, <1>6, <2>3
<1>7. CASE Native!EffectsEnabled(n)
  <2>1. Lists(lists) /\ Len(lists) = k /\ FlattenSeq(lists) = codes
    <3>1. lists = [i \in 1 .. Len(codes) |-> <<codes[i]>>]
      BY <1>1, <1>3
    <3>2. Lists([i \in 1 .. Len(codes) |-> <<codes[i]>>])
          /\ FlattenSeq([i \in 1 .. Len(codes) |-> <<codes[i]>>]) = codes
      BY <1>3, Singles
    <3>3. lists = [i \in 1 .. k |-> lists[i]]
      BY <1>1
    <3> QED
      BY <1>2, <3>1, <3>2, <3>3, ListOf
  <2>2. PICK h : h = CHOOSE f : f = [i \in 0 .. k |-> IF i = 0 THEN n ELSE Native!Error(f[i - 1], code)]
    OBVIOUS
  <2>3. h[0] = n /\ \A i \in 0 .. k - 1 : h[i + 1] = Native!Error(h[i], code)
    <3>1. \A x, i : Goes(loop, x, i) = Native!Error(x, code)
      BY <1>1 DEF Goes
    <3>2. \E f : f = [i \in 0 .. k |-> IF i = 0 THEN n ELSE Native!Error(f[i - 1], code)]
      <4>1. PICK g : Looped(loop, n, g, k)
        BY <1>2, Loops
      <4> QED
        BY <1>1, <4>1 DEF Looped, Goes
    <3>3. Looped(loop, n, h, k)
      BY <2>2, <3>1, <3>2 DEF Looped
    <3>4. h[0] = n /\ \A i \in 0 .. k - 1 : h[i + 1] = Goes(loop, h[i], i + 1)
      BY <1>2, <3>3, LoopFacts
    <3> QED
      BY <3>1, <3>4
  <2>4. Native!Errors(n, code, Native!Cardinality(set)) = h[k]
    BY <1>2, <2>2 DEF Native!Errors
  <2> DEFINE S == {i \in 0 .. k : Steps(n, h[i], Joined(lists, i), <<>>)}
  <2>5. 0 \in S
    <3>1. Joined(lists, 0) = <<>>
      BY <2>1, JoinedFacts
    <3>2. Steps(n, n, <<>>, <<>>)
      BY NothingMoves
    <3> QED
      BY <1>2, <2>3, <3>1, <3>2
  <2>6. ASSUME NEW i \in 0 .. k - 1, i \in S PROVE i + 1 \in S
    <3>1. PICK a, m : a = Joined(lists, i) /\ m = h[i]
      OBVIOUS
    <3>2. Steps(n, m, a, <<>>) /\ IsNative(m) /\ SameView(n, m)
      BY <2>6, <3>1 DEF Steps, Moves
    <3>3. i + 1 \in 1 .. k /\ i + 1 \in 0 .. k
      BY <1>2
    <3>4. Steps(m, Native!ErrorIf(m, code, TRUE), Flag(code, TRUE), <<>>)
      <4>1. Native!EffectsEnabled(m)
        BY <1>7, <3>2, Enabled
      <4>2. TRUE <=> Native!EffectsEnabled(m) /\ TRUE
        BY <4>1
      <4> QED
        BY <3>2, <4>2, PermissionError
    <3>5. Steps(m, h[i + 1], lists[i + 1], <<>>)
      BY <1>1, <2>3, <3>1, <3>3, <3>4 DEF Native!ErrorIf, Flag
    <3>6. Moves(n, h[i + 1], a \o lists[i + 1], <<>>)
      BY <3>2, <3>5, NotedAfter DEF Steps
    <3>7. SameBooks(n, h[i + 1])
      BY <3>2, <3>5 DEF Steps, SameBooks
    <3>8. Joined(lists, i + 1) = a \o lists[i + 1]
      BY <2>1, <3>1, JoinedFacts
    <3> QED
      BY <3>3, <3>6, <3>7, <3>8 DEF Steps
  <2>7. \A i \in 0 .. k : i \in S
    <3> HIDE DEF S
    <3> QED
      BY <1>2, <2>5, <2>6, Climbs
  <2>8. k \in 0 .. k
    BY <1>2
  <2>9. Steps(n, h[k], FlattenSeq(lists), <<>>)
    BY <2>1, <2>7, <2>8, JoinedFacts
  <2> QED
    BY <1>1, <1>7, <2>1, <2>4, <2>9
<1> QED
  BY <1>6, <1>7

LEMMA TargetsFinite ==
    ASSUME NEW declared, IsFiniteSet(declared)
    PROVE  IsFiniteSet(UnknownTargets(declared))
<1>1. PICK f, T : f = [x \in declared |-> x[2]] /\ T = {x[2] : x \in declared}
  OBVIOUS
<1>2. f \in Surjection(declared, T)
  BY <1>1 DEF Surjection
<1>3. IsFiniteSet(T)
  BY <1>2, FS_Surjection
<1>4. IsFiniteSet(T \ {Catalog, Planner})
  BY <1>3, FS_Difference
<1> QED
  BY <1>1, <1>4 DEF UnknownTargets

LEMMA InvalidEffects ==
    ASSUME NEW declared, declared \subseteq Declarable
    PROVE  {effect \in declared : ~Native!Matches(effect)} = declared \ Effects
<1>1. ASSUME NEW effect \in declared PROVE effect \in Effects <=> Native!Matches(effect)
  <2>1. PICK kind, target : effect = <<kind, target>>
    BY <1>1 DEF Declarable
  <2>2. effect[1] = kind /\ effect[2] = target
    BY <2>1
  <2>3. effect \in Effects <=> kind \in EffectKinds /\ target = TargetOf(kind)
    BY <2>1 DEF Effects
  <2>4. Native!Matches(effect) <=>
           \/ kind \in {"Snapshot", "Explore", "Commit"} /\ target = Catalog
           \/ kind = "Infer" /\ target = Planner
    BY <2>2 DEF Native!Matches
  <2> QED
    BY <2>3, <2>4 DEF EffectKinds, TargetOf
<1> QED
  BY <1>1

LEMMA ReportedTwice ==
    ASSUME NEW c, IsList(c.diagnostics), NEW a, NEW b, IsList(a), IsList(b)
    PROVE  Reported(Reported(c, a), b) = Reported(c, a \o b)
<1>1. PICK d : d = c.diagnostics
  OBVIOUS
<1>2. (d \o a) \o b = d \o (a \o b)
  <2>1. IsList(d)
    BY <1>1
  <2> QED
    BY <2>1, ConcatAgain
<1> QED
  BY <1>1, <1>2 DEF Reported

LEMMA ClosedFollows ==
    ASSUME NEW n, NEW c, NEW before, IsList(before), NEW declared, IsFiniteSet(declared),
           Follows(n, c, NoBranch, before, {}), Sane(c)
    PROVE  /\ Follows(Native!Close(n, declared), CheckEffects(c, declared), NoBranch, before, {})
           /\ Native!Close(n, declared).stage = n.stage
           /\ Lowered(c, CheckEffects(c, declared), <<>>)
           /\ CheckEffects(c, declared).types = c.types
<1>1. PICK missing, unknown, a, b :
          /\ missing = c.used \ declared /\ unknown = UnknownTargets(declared)
          /\ a = Each("F3001", missing) /\ b = Each("F3002", unknown)
  OBVIOUS
<1>2. IsFiniteSet(missing) /\ IsFiniteSet(unknown)
  BY <1>1, FS_Difference, TargetsFinite DEF Sane
<1>3. IsNative(n) /\ {"F3001", "F3002"} \subseteq Permissions
  BY DEF Follows, Sees, Permissions
<1>4. PICK m : m = IF Native!EffectsEnabled(n)
                   THEN Native!Errors(n, "F3001", Native!Cardinality(missing)) ELSE n
  OBVIOUS
<1>5. Steps(n, m, a, <<>>)
  BY <1>1, <1>2, <1>3, <1>4, EachSteps
<1>6. IsNative(m) /\ SameView(n, m) /\ (Native!EffectsEnabled(m) <=> Native!EffectsEnabled(n))
  BY <1>5, Enabled DEF Steps, Moves
<1>7. PICK k : k = IF Native!EffectsEnabled(m)
                   THEN Native!Errors(m, "F3002", Native!Cardinality(unknown)) ELSE m
  OBVIOUS
<1>8. Steps(m, k, b, <<>>)
  BY <1>1, <1>2, <1>3, <1>6, <1>7, EachSteps
<1>9. Follows(m, Reported(c, a), NoBranch, before, {}) /\ m.stage = n.stage
  BY <1>5, FollowsSteps
<1>10. Follows(k, Reported(Reported(c, a), b), NoBranch, before, {}) /\ k.stage = m.stage
  BY <1>8, <1>9, FollowsSteps
<1>11. IsList(a) /\ IsList(b)
  BY <1>5, <1>8 DEF Steps, Moves, Adds, Ordinary
<1>12. CheckEffects(c, declared) = Reported(c, a \o b)
  BY <1>1 DEF CheckEffects, Undeclared
<1>13. Reported(Reported(c, a), b) = Reported(c, a \o b)
  BY <1>11, ReportedTwice DEF Sane
<1>14. Native!Close(n, declared) = k
  <2>1. unknown = {effect[2] : effect \in declared} \ {Catalog, Planner}
    BY <1>1 DEF UnknownTargets
  <2>2. Native!EffectsEnabled(n) => n.used = c.used
    BY DEF Follows
  <2> QED
    BY <1>1, <1>4, <1>6, <1>7, <2>1, <2>2 DEF Native!Close
<1>15. Lowered(c, Reported(c, a \o b), <<>>) /\ Reported(c, a \o b).types = c.types
  <2>1. IsList(a \o b)
    BY <1>11, ListsJoin
  <2> QED
    BY <2>1, LoweredReported
<1> QED
  BY <1>9, <1>10, <1>12, <1>13, <1>14, <1>15

LEMMA CheckerFacts ==
    ASSUME NEW stage \in Native!Stages
    PROVE  LET n == Native!Checker(stage) IN
           /\ IsNative(n) /\ n.stage = stage /\ Sees(n, NewChecker, NoBranch)
           /\ n.used = {} /\ n.snapshots = 0 /\ n.selections = 0
           /\ Told(n, <<>>) /\ Table(n, <<>>, {})
<1>1. PICK n : n = Native!Checker(stage)
  OBVIOUS
<1>2. /\ IsNative(n) /\ n.stage = stage /\ n.used = {} /\ n.snapshots = 0 /\ n.selections = 0
      /\ n.env = <<>> /\ n.consumed = {} /\ n.errors = <<>> /\ n.nodes = 0 /\ n.expressions = <<>>
      /\ n.base = Native!NoBase /\ n.resource = Native!NoResource
  BY <1>1 DEF Native!Checker, IsNative
<1>3. IsList(<<>>) /\ Len(<<>>) = 0 /\ ToSet(<<>>) = {} /\ DOMAIN <<>> = {}
  BY EmptyList, ListFacts DEF ToSet
<1>4. Sees(n, NewChecker, NoBranch)
  <2>1. NewChecker.env = <<>> /\ NewChecker.consumed = {}
    BY DEF NewChecker
  <2>2. n.env = [name \in DOMAIN NewChecker.env |-> Typed(NewChecker.env[name])]
    BY <1>2, <2>1
  <2> QED
    BY <1>2, <1>3, <2>1, <2>2 DEF Sees, Inside
<1>5. Told(n, <<>>)
  <2>1. Without(<<>>, Deferred[stage]) = <<>>
    BY <1>3, WithoutNone
  <2>2. Capped(<<>>) = <<>>
    BY <1>3, CompilersAssumption DEF Capped
  <2> QED
    BY <1>2, <2>1, <2>2 DEF Told
<1>6. Table(n, <<>>, {})
  <2>1. Cardinality({}) = 0
    BY FS_EmptySet
  <2> QED
    BY <1>2, <1>3, <2>1 DEF Table
<1> QED
  BY <1>1, <1>2, <1>4, <1>5, <1>6

LEMMA NewIsSane ==
    /\ Sane(NewChecker) /\ Clean(NewChecker) /\ NewChecker.types = <<>>
    /\ NewChecker.diagnostics = <<>>
<1>1. /\ IsReference(NewChecker) /\ NewChecker.types = <<>> /\ NewChecker.diagnostics = <<>>
      /\ NewChecker.used = {} /\ NewChecker.env = <<>>
  BY DEF NewChecker, IsReference
<1>2. IsList(<<>>) /\ ToSet(<<>>) = {} /\ DOMAIN <<>> = {}
  BY EmptyList, ListFacts DEF ToSet
<1> QED
  BY <1>1, <1>2, FS_EmptySet DEF Sane, Clean, Rows

LEMMA JoinedWithin ==
    ASSUME NEW lists, Lists(lists), NEW D, \A i \in 1 .. Len(lists) : ToSet(lists[i]) \subseteq D
    PROVE  IsList(FlattenSeq(lists)) /\ ToSet(FlattenSeq(lists)) \subseteq D
<1>1. PICK n : n = Len(lists)
  OBVIOUS
<1>2. n \in Nat
  BY <1>1, ListFacts DEF Lists
<1> DEFINE S == {k \in 0 .. n : ToSet(Joined(lists, k)) \subseteq D}
<1>3. 0 \in S
  <2>1. Joined(lists, 0) = <<>>
    BY JoinedFacts
  <2>2. ToSet(<<>>) = {}
    BY EmptyList, ListFacts DEF ToSet
  <2> QED
    BY <1>2, <2>1, <2>2
<1>4. ASSUME NEW k \in 0 .. n - 1, k \in S PROVE k + 1 \in S
  <2>1. k + 1 \in 0 .. n /\ k + 1 \in 1 .. n /\ k \in 0 .. n /\ ToSet(Joined(lists, k)) \subseteq D
    BY <1>2, <1>4
  <2>2. Joined(lists, k + 1) = Joined(lists, k) \o lists[k + 1]
    BY <1>1, JoinedFacts
  <2>3. IsList(Joined(lists, k)) /\ IsList(lists[k + 1]) /\ ToSet(lists[k + 1]) \subseteq D
    BY <1>1, <2>1, JoinedFacts DEF Lists
  <2>4. ToSet(Joined(lists, k) \o lists[k + 1]) = ToSet(Joined(lists, k)) \cup ToSet(lists[k + 1])
    BY <2>3, ConcatFacts
  <2> QED
    BY <2>1, <2>2, <2>3, <2>4
<1>5. \A i \in 0 .. n : i \in S
  <2> HIDE DEF S
  <2> QED
    BY <1>2, <1>3, <1>4, Climbs
<1>6. n \in S /\ n \in 0 .. n
  BY <1>2, <1>5
<1> QED
  BY <1>1, <1>6, JoinedFacts

WellDeclared(p) == IsList(p.resources) /\ IsList(p.models) /\ IsList(p.decisions)
BadItems(items, type) ==
    FlattenSeq([i \in DOMAIN items |-> Flag("F3201", items[i].type # type)])
LEMMA BadItemsFacts ==
    ASSUME NEW items, IsList(items), NEW type
    PROVE  IsList(BadItems(items, type)) /\ ToSet(BadItems(items, type)) \subseteq Declarative
<1>1. PICK n, lists : /\ n = Len(items)
                      /\ lists = [i \in DOMAIN items |-> Flag("F3201", items[i].type # type)]
  OBVIOUS
<1>2. n \in Nat /\ DOMAIN items = 1 .. n
  BY <1>1, ListFacts
<1>3. IsList(lists) /\ Len(lists) = n
  <2>1. lists = [i \in 1 .. n |-> lists[i]]
    BY <1>1, <1>2
  <2> QED
    BY <1>2, <2>1, ListOf
<1>4. \A i \in 1 .. n : IsList(lists[i]) /\ ToSet(lists[i]) \subseteq Declarative
  BY <1>1, <1>2, FlagFacts DEF Declarative
<1>5. Lists(lists)
  BY <1>3, <1>4 DEF Lists
<1>6. IsList(FlattenSeq(lists)) /\ ToSet(FlattenSeq(lists)) \subseteq Declarative
  BY <1>3, <1>4, <1>5, JoinedWithin
<1> QED
  BY <1>1, <1>6 DEF BadItems

LEMMA DeclarationFacts ==
    ASSUME NEW p, WellDeclared(p)
    PROVE  /\ IsList(DeclarationErrors(p)) /\ ToSet(DeclarationErrors(p)) \subseteq Declarative
           /\ Native!DeclarationErrors(p) = Capped(DeclarationErrors(p))
<1>1. PICK x, y : /\ x = ({Len(p.decisions), Len(p.resources), Len(p.models)} # {1})
                  /\ y = ~IsInjective(NamesDeclared(p))
  OBVIOUS
<1>2. PICK a, b, c, d, all :
          /\ a = Flag("F3200", x) /\ b = BadItems(p.resources, "Catalog")
          /\ c = BadItems(p.models, "Planner") /\ d = Flag("F3000", y)
          /\ all = a \o b \o c \o d
  OBVIOUS
<1>3. DeclarationErrors(p) = all
  BY <1>1, <1>2 DEF DeclarationErrors, BadItems
<1>4. /\ IsList(a) /\ IsList(b) /\ IsList(c) /\ IsList(d)
      /\ ToSet(a) \subseteq Declarative /\ ToSet(b) \subseteq Declarative
      /\ ToSet(c) \subseteq Declarative /\ ToSet(d) \subseteq Declarative
  BY <1>2, BadItemsFacts, FlagFacts DEF WellDeclared, Declarative
<1>5. IsList(all) /\ ToSet(all) \subseteq Declarative
  <2>1. IsList(a \o b) /\ ToSet(a \o b) = ToSet(a) \cup ToSet(b)
    BY <1>4, ConcatFacts
  <2>2. IsList(a \o b \o c) /\ ToSet(a \o b \o c) = ToSet(a \o b) \cup ToSet(c)
    BY <1>4, <2>1, ConcatFacts
  <2>3. IsList(a \o b \o c \o d) /\ ToSet(a \o b \o c \o d) = ToSet(a \o b \o c) \cup ToSet(d)
    BY <1>4, <2>2, ConcatFacts
  <2> QED
    BY <1>2, <1>4, <2>1, <2>2, <2>3
<1>6. \A code, wrong : Native!Push(code, wrong) = Flag(code, wrong)
  BY DEF Native!Push, Flag
<1>7. \A items, type : Native!BadTypes(items, type) = BadItems(items, type)
  <2>1. \A lists : Native!FlattenSeq(lists) = FlattenSeq(lists)
    BY DEF Native!FlattenSeq, FlattenSeq
  <2> QED
    BY <1>6, <2>1 DEF Native!BadTypes, BadItems
<1>8. (Len(p.resources) # 1 \/ Len(p.models) # 1 \/ Len(p.decisions) # 1) <=> x
  BY <1>1
<1>9. Native!Duplicate(Native!Symbols(p)) <=> y
  <2>1. Native!Symbols(p) = NamesDeclared(p)
    BY DEF Native!Symbols, NamesDeclared
  <2>2. PICK names : names = NamesDeclared(p)
    OBVIOUS
  <2>3. IsList(names)
    <3>1. PICK u, v : /\ u = [i \in DOMAIN p.resources |-> p.resources[i].name]
                      /\ v = [i \in DOMAIN p.models |-> p.models[i].name]
      OBVIOUS
    <3>2. IsList(u)
      <4>1. PICK n : n = Len(p.resources) /\ n \in Nat /\ DOMAIN p.resources = 1 .. n
        BY ListFacts DEF WellDeclared
      <4>2. u = [i \in 1 .. n |-> u[i]]
        BY <3>1, <4>1
      <4> QED
        BY <4>1, <4>2, ListOf
    <3>3. IsList(v)
      <4>1. PICK n : n = Len(p.models) /\ n \in Nat /\ DOMAIN p.models = 1 .. n
        BY ListFacts DEF WellDeclared
      <4>2. v = [i \in 1 .. n |-> v[i]]
        BY <3>1, <4>1
      <4> QED
        BY <4>1, <4>2, ListOf
    <3>4. PICK w : w = p.decisions /\ IsList(w)
      BY DEF WellDeclared
    <3>5. IsList((u \o v) \o w)
      BY <3>2, <3>3, <3>4, ListsJoin
    <3> QED
      BY <2>2, <3>1, <3>4, <3>5 DEF NamesDeclared
  <2>4. PICK n : n \in Nat /\ DOMAIN names = 1 .. n
    BY <2>3, ListFacts
  <2>5. ASSUME Native!Duplicate(names) PROVE ~IsInjective(names)
    <3>1. PICK i \in 1 .. n : \E j \in 1 .. i - 1 : names[j] = names[i]
      BY <2>4, <2>5 DEF Native!Duplicate
    <3>2. PICK j \in 1 .. i - 1 : names[j] = names[i]
      BY <3>1
    <3>3. j \in 1 .. n /\ j # i
      BY <2>4, <3>1, <3>2
    <3> QED
      BY <2>4, <3>1, <3>2, <3>3 DEF IsInjective
  <2>6. ASSUME ~IsInjective(names) PROVE Native!Duplicate(names)
    <3>1. PICK i \in 1 .. n, j \in 1 .. n : names[i] = names[j] /\ i # j
      BY <2>4, <2>6 DEF IsInjective
    <3>2. CASE i < j
      <4>1. i \in 1 .. j - 1
        BY <2>4, <3>2
      <4> QED
        BY <2>4, <3>1, <4>1 DEF Native!Duplicate
    <3>3. CASE j < i
      <4>1. j \in 1 .. i - 1
        BY <2>4, <3>3
      <4> QED
        BY <2>4, <3>1, <4>1 DEF Native!Duplicate
    <3> QED
      BY <2>4, <3>1, <3>2, <3>3
  <2> QED
    BY <1>1, <2>1, <2>2, <2>5, <2>6
<1>10. Native!DeclarationErrors(p) =
          IF Len(all) > MaxDiagnostics
          THEN Append(SubSeq(all, 1, MaxDiagnostics - 1), "F0002") ELSE all
  <2>1. Native!Push("F3200", \/ Len(p.resources) # 1
                             \/ Len(p.models) # 1
                             \/ Len(p.decisions) # 1) = a
    BY <1>2, <1>6, <1>8 DEF Flag
  <2>2. Native!Push("F3000", Native!Duplicate(Native!Symbols(p))) = d
    BY <1>2, <1>6, <1>9 DEF Flag
  <2>3. Native!BadTypes(p.resources, "Catalog") = b /\ Native!BadTypes(p.models, "Planner") = c
    BY <1>2, <1>7
  <2> QED
    BY <1>2, <2>1, <2>2, <2>3 DEF Native!DeclarationErrors
<1>11. Len(all) \in Nat /\ MaxDiagnostics \in Nat
  BY <1>5, ListFacts, CompilersAssumption
<1>12. Native!DeclarationErrors(p) = Capped(all)
  BY <1>10, <1>11 DEF Capped
<1> QED
  BY <1>3, <1>5, <1>12

LEMMA OpenedFollows ==
    ASSUME NEW stage \in Native!Stages, NEW h, WellDeclared(h.declarations),
           h.declared \subseteq Declarable, IsFiniteSet(h.declared)
    PROVE  /\ Follows(Native!Open(stage, h), Open(h), NoBranch,
                      DeclarationErrors(h.declarations), {})
           /\ Native!Open(stage, h).stage = stage
<1>1. PICK n, D, a, b, invalid, c :
          /\ n = Native!Checker(stage) /\ D = DeclarationErrors(h.declarations)
          /\ invalid = h.declared \ Effects /\ a = Each("F3202", invalid)
          /\ b = Flag("F3203", ~h.terminated) /\ c = Reported(NewChecker, D)
  OBVIOUS
<1>2. /\ IsNative(n) /\ n.stage = stage /\ Sees(n, NewChecker, NoBranch) /\ n.used = {}
      /\ n.snapshots = 0 /\ n.selections = 0 /\ Told(n, <<>>) /\ Table(n, <<>>, {})
  BY <1>1, CheckerFacts
<1>3. IsList(D)
  BY <1>1, DeclarationFacts
<1>4. /\ IsReference(c) /\ c.env = <<>> /\ c.used = {} /\ c.snapshots = 0 /\ c.selections = 0
      /\ c.consumed = {} /\ c.types = <<>> /\ c.diagnostics = D
  <2>1. <<>> \o D = D
    BY <1>3, ConcatEmpty
  <2> QED
    BY <1>1, <2>1 DEF Reported, NewChecker, IsReference
<1>5. Follows(n, c, NoBranch, D, {})
  <2>1. Sees(n, c, NoBranch)
    BY <1>2, <1>4 DEF Sees, NewChecker
  <2>2. \E codes : Ordinary(codes) /\ c.diagnostics = D \o codes /\ Told(n, codes)
    <3>1. Ordinary(<<>>)
      BY EmptyList, ListFacts DEF Ordinary, ToSet
    <3>2. D \o <<>> = D
      BY <1>3, ConcatEmpty
    <3> QED
      BY <1>2, <1>4, <3>1, <3>2
  <2> QED
    BY <1>2, <1>4, <2>1, <2>2 DEF Follows
<1>6. PICK m : m = IF Native!EffectsEnabled(n)
                   THEN Native!Errors(n, "F3202", Native!Cardinality(invalid)) ELSE n
  OBVIOUS
<1>7. Steps(n, m, a, <<>>)
  <2>1. IsFiniteSet(invalid) /\ "F3202" \in Permissions
    BY <1>1, FS_Difference DEF Permissions
  <2> QED
    BY <1>1, <1>2, <1>6, <2>1, EachSteps
<1>8. PICK k : k = Native!ErrorIf(m, "F3203", ~h.terminated)
  OBVIOUS
<1>9. Steps(m, k, b, <<>>)
  <2>1. IsNative(m) /\ "F3203" \in Plain
    BY <1>7 DEF Steps, Moves, Plain
  <2> QED
    BY <1>1, <1>8, <2>1, PlainError
<1>10. Follows(m, Reported(c, a), NoBranch, D, {}) /\ m.stage = n.stage
  BY <1>3, <1>5, <1>7, FollowsSteps
<1>11. Follows(k, Reported(Reported(c, a), b), NoBranch, D, {}) /\ k.stage = m.stage
  BY <1>3, <1>9, <1>10, FollowsSteps
<1>12. Native!Open(stage, h) = k
  <2>1. {effect \in h.declared : ~Native!Matches(effect)} = invalid
    BY <1>1, InvalidEffects
  <2> QED
    BY <1>1, <1>6, <1>8, <2>1 DEF Native!Open
<1>13. Open(h) = Reported(Reported(c, a), b)
  <2>1. IsList(a) /\ IsList(b)
    BY <1>7, <1>9 DEF Steps, Moves, Adds, Ordinary
  <2>2. Reported(Reported(c, a), b) = Reported(c, a \o b) /\ IsList(a \o b)
    BY <1>3, <1>4, <2>1, ReportedTwice, ListsJoin
  <2>3. NewChecker.diagnostics = <<>> /\ IsList(<<>>)
    BY NewIsSane, EmptyList
  <2>4. Reported(c, a \o b) = Reported(NewChecker, D \o (a \o b))
    BY <1>1, <1>3, <2>2, <2>3, ReportedTwice
  <2>5. (D \o a) \o b = D \o (a \o b)
    BY <1>3, <2>1, ConcatAgain
  <2> QED
    BY <1>1, <2>2, <2>4, <2>5 DEF Open
<1> QED
  BY <1>1, <1>2, <1>10, <1>11, <1>12, <1>13

LEMMA OpenedSane ==
    ASSUME NEW h, WellDeclared(h.declarations), h.declared \subseteq Declarable,
           IsFiniteSet(h.declared)
    PROVE  Sane(Open(h)) /\ Clean(Open(h)) /\ Open(h).types = <<>>
<1>1. PICK D, a, b : /\ D = DeclarationErrors(h.declarations)
                     /\ a = Each("F3202", h.declared \ Effects) /\ b = Flag("F3203", ~h.terminated)
  OBVIOUS
<1>2. IsList(D) /\ IsList(b)
  BY <1>1, DeclarationFacts, FlagFacts
<1>3. IsList(a)
  <2>1. PICK n : n = Cardinality(h.declared \ Effects)
    OBVIOUS
  <2>2. n \in Nat
    BY <2>1, FS_Difference, FS_CardinalityType
  <2>3. a = [i \in 1 .. n |-> a[i]]
    BY <1>1, <2>1 DEF Each
  <2> QED
    BY <2>2, <2>3, ListOf
<1>4. IsList((D \o a) \o b)
  BY <1>2, <1>3, ListsJoin
<1>5. Open(h) = Reported(NewChecker, (D \o a) \o b)
  BY <1>1 DEF Open
<1>6. /\ Lowered(NewChecker, Reported(NewChecker, (D \o a) \o b), <<>>)
      /\ Reported(NewChecker, (D \o a) \o b).env = NewChecker.env
      /\ Reported(NewChecker, (D \o a) \o b).types = NewChecker.types
  BY <1>4, NewIsSane, LoweredReported
<1> QED
  BY <1>5, <1>6, NewIsSane DEF Lowered, Clean

-----------------------------------------------------------------------------
(* Statements that are written are statements of a decision.               *)
LEMMA ExpressionFacts ==
    ASSUME NEW op \in Operations, NEW names, NEW e \in Expressions(op, names)
    PROVE  Worded(e) /\ e.op = op /\ (op = "explore" => e.body \in Bodies)
<1>1. CASE op = "snapshot"
  BY <1>1 DEF Expressions, SnapshotExpr, Worded, Operations
<1>2. CASE op = "propose"
  BY <1>2 DEF Expressions, ProposeExpr, Worded, Operations
<1>3. CASE op = "explore"
  BY <1>3 DEF Expressions, ExploreExpr, Worded, Operations
<1>4. CASE op = "simulate"
  BY <1>4 DEF Expressions, SimulateExpr, Worded, Operations
<1>5. CASE op = "call"
  <2>1. PICK m \in Methods \cup Foreign :
           e \in [op : {"call"}, target : Mentioned, method : {m}, args : [1 .. Arity[m] -> names]]
    BY <1>5 DEF Expressions, CallExpr
  <2>2. PICK n, args : n = Arity[m] /\ args = e.args
    OBVIOUS
  <2>3. n \in Nat
    BY <2>1, <2>2 DEF Arity
  <2>4. args \in [1 .. n -> names] /\ e.op = "call"
    BY <2>1, <2>2
  <2>5. args = [i \in 1 .. n |-> args[i]]
    BY <2>4
  <2>6. IsList(args)
    BY <2>3, <2>5, ListOf
  <2> QED
    BY <1>5, <2>2, <2>4, <2>6 DEF Worded
<1>6. CASE op = "select"
  BY <1>6 DEF Expressions, SelectExpr, Worded, Operations
<1>7. CASE op = "commit"
  BY <1>7 DEF Expressions, CommitExpr, Worded, Operations
<1>8. CASE op = "var"
  BY <1>8 DEF Expressions, VarExpr, Worded, Operations
<1> QED
  BY <1>1, <1>2, <1>3, <1>4, <1>5, <1>6, <1>7, <1>8 DEF Operations

LEMMA WrittenFacts ==
    ASSUME NEW s \in Lets \cup Aliases \cup Annotated \cup Others \cup Measures
    PROVE  WellFormed(3, s)
<1>1. ASSUME NEW op \in Operations, NEW names, s.value \in Expressions(op, names), s.kind \in Kinds
      PROVE  WellFormed(3, s)
  <2>1. PICK e : e = s.value
    OBVIOUS
  <2>2. Worded(e) /\ e.op = op /\ (op = "explore" => e.body \in Bodies)
    BY <1>1, <2>1, ExpressionFacts
  <2>3. e.op = "explore" => Nesting(e.body)
    BY <2>2, BodiesAssumption
  <2> QED
    BY <1>1, <2>1, <2>2, <2>3 DEF WellFormed
<1>2. \A names : VarExpr(names) = Expressions("var", names)
  BY DEF Expressions
<1>3. CASE s \in Lets
  <2>1. PICK op \in Operations : s.value \in Expressions(op, NamesInUse)
    BY <1>3 DEF Lets
  <2>2. s.kind \in Kinds
    BY <1>3 DEF Lets, Kinds
  <2> QED
    BY <1>1, <2>1, <2>2
<1>4. CASE s \in Aliases
  <2>1. s.value \in Expressions("var", NamesInUse) /\ s.kind \in Kinds
    BY <1>2, <1>4 DEF Aliases, Kinds
  <2> QED
    BY <1>1, <2>1 DEF Operations
<1>5. CASE s \in Annotated
  <2>1. PICK name \in NamesInUse :
           s \in [kind : {"let"}, name : {NextName}, value : VarExpr({name}),
                  annotation : Annotations(Lookup(reference, name))]
    BY <1>5 DEF Annotated
  <2>2. s.value \in Expressions("var", {name}) /\ s.kind \in Kinds
    BY <1>2, <2>1 DEF Kinds
  <2> QED
    BY <1>1, <2>2 DEF Operations
<1>6. ASSUME s.value \in Values, s.kind \in Kinds PROVE WellFormed(3, s)
  <2>1. PICK op \in {"var", "call", "commit"} : s.value \in Expressions(op, NamesInUse)
    BY <1>6 DEF Values
  <2> QED
    BY <1>1, <1>6, <2>1 DEF Operations
<1>7. CASE s \in Others
  BY <1>6, <1>7 DEF Others, Kinds
<1>8. CASE s \in Measures
  BY <1>6, <1>8 DEF Measures, Kinds
<1> QED
  BY <1>3, <1>4, <1>5, <1>7, <1>8

LEMMA WrittenFollows ==
    ASSUME NEW n, NEW c, NEW before, IsList(before), NEW s, WellFormed(3, s),
           Follows(n, c, NoBranch, before, {})
    PROVE  /\ Follows(Native!Statement(n, s), CheckStatement(c, s), NoBranch, before, {})
           /\ Native!Statement(n, s).stage = n.stage
<1>1. Faithful(3)
  BY StatementsAgree DEF Levels
<1>2. /\ Follows(NativeAtLevel(3, n, s), AtLevel(3, c, s, NoBranch), NoBranch, before, {})
      /\ NativeAtLevel(3, n, s).stage = n.stage
  BY <1>1 DEF Faithful
<1>3. NativeAtLevel(3, n, s) = Native!Statement(n, s)
  BY DEF NativeAtLevel
<1>4. AtLevel(3, c, s, NoBranch) = CheckStatement(c, s)
  BY DEF AtLevel, CheckStatement
<1> QED
  BY <1>2, <1>3, <1>4

(* The lowerer keeps up with a checker that finds nothing.                 *)
KeepsUp(l, c) ==
    /\ Sane(c)
    /\ c.diagnostics = <<>> =>
          Clean(c) /\ l = [next |-> Len(c.types), mismatch |-> FALSE]
LEMMA WrittenKeepsUp ==
    ASSUME NEW c, NEW l, KeepsUp(l, c), NEW s, WellFormed(3, s), NEW n,
           Table(n, CheckStatement(c, s).types, {})
    PROVE  KeepsUp(IR!Statement(l, Native!Analysis(n), s), CheckStatement(c, s))
<1>1. PICK d, ops : d = CheckStatement(c, s) /\ ops = IR!Traversal(s.value)
  OBVIOUS
<1>2. Lowered(c, d, ops) /\ Sane(c)
  <2>1. Lowerable(3) /\ Sane(c)
    BY StatementsLowered DEF Levels, KeepsUp
  <2>2. Lowered(c, AtLevel(3, c, s, NoBranch), TraversalAt(3, s.value))
    BY <2>1 DEF Lowerable
  <2>3. AtLevel(3, c, s, NoBranch) = d /\ TraversalAt(3, s.value) = ops
    BY <1>1 DEF AtLevel, CheckStatement, TraversalAt
  <2> QED
    BY <2>1, <2>2, <2>3
<1>3. ASSUME d.diagnostics = <<>>
      PROVE  /\ Clean(d)
             /\ IR!Statement(l, Native!Analysis(n), s) = [next |-> Len(d.types), mismatch |-> FALSE]
  <2>1. c.diagnostics = <<>>
    BY <1>2, <1>3 DEF Lowered
  <2>2. Clean(c) /\ l = [next |-> Len(c.types), mismatch |-> FALSE]
    BY <2>1 DEF KeepsUp
  <2>3. PICK rows : Clean(d) /\ Readable(rows, ops) /\ d.types = c.types \o rows
    BY <1>2, <1>3, <2>2 DEF Lowered
  <2>4. PICK types : types = c.types
    OBVIOUS
  <2>5. IsList(types) /\ IsList(ops) /\ Table(n, types \o rows, {})
    BY <1>1, <1>2, <2>3, <2>4 DEF Lowered, Sane
  <2>6. IR!TakeAll([next |-> Len(types), mismatch |-> FALSE], Native!Analysis(n), ops) =
           [next |-> Len(types \o rows), mismatch |-> FALSE]
    BY <2>3, <2>5, TakenRows
  <2>7. IR!Statement(l, Native!Analysis(n), s) = IR!TakeAll(l, Native!Analysis(n), ops)
    BY <1>1 DEF IR!Statement
  <2> QED
    BY <2>2, <2>3, <2>4, <2>6, <2>7
<1>4. Sane(d)
  BY <1>2 DEF Lowered
<1> QED
  BY <1>1, <1>3, <1>4 DEF KeepsUp

LEMMA OnlyDeclarations ==
    ASSUME NEW before, IsList(before), ToSet(before) \subseteq Declarative, NEW codes,
           Ordinary(codes)
    PROVE  Without(before \o codes, ToSet(before \o codes) \ Declarative) = before
<1>1. IsList(codes) /\ ToSet(codes) \cap Declarative = {}
  BY CodesFacts DEF Ordinary
<1>2. ToSet(before \o codes) = ToSet(before) \cup ToSet(codes)
  BY <1>1, ConcatFacts
<1>3. PICK D : D = ToSet(before \o codes) \ Declarative
  OBVIOUS
<1>4. ToSet(before) \cap D = {} /\ ToSet(codes) \subseteq D
  BY <1>1, <1>2, <1>3
<1>5. Without(before, D) = before /\ Without(codes, D) = <<>>
  BY <1>1, <1>4, WithoutNone, WithoutAll
<1>6. Without(before \o codes, D) = Without(before, D) \o Without(codes, D)
  BY <1>1, WithoutConcat
<1> QED
  BY <1>3, <1>5, <1>6, ConcatEmpty

LEMMA CappedNothing ==
    ASSUME NEW codes, IsList(codes), Capped(codes) = <<>>
    PROVE  codes = <<>>
<1>1. PICK m, S : m = MaxDiagnostics /\ S = ToSet(codes)
  OBVIOUS
<1>2. m \in Nat \ {0} /\ codes \in Seq(S) /\ Len(codes) \in Nat
  BY <1>1, CompilersAssumption, ListFacts DEF IsList
<1>3. SUFFICES ASSUME ~(Len(codes) <= m) PROVE FALSE
  BY <1>1 DEF Capped
<1>4. PICK t : t = SubSeq(codes, 1, m - 1)
  OBVIOUS
<1>5. t \in Seq(S)
  <2>1. 1 \in 1 .. Len(codes) + 1 /\ m - 1 \in 0 .. Len(codes)
    BY <1>2, <1>3
  <2>2. \A i \in 1 .. m - 1 : codes[i] \in S
    BY <1>2, <1>3
  <2> QED
    BY <1>2, <1>4, <2>1, <2>2
<1>6. Append(t, "F0002") # <<>>
  BY <1>5
<1> QED
  BY <1>1, <1>3, <1>4, <1>6 DEF Capped

-----------------------------------------------------------------------------
(* Every checker of the native compiler is where the reference is, and so  *)
(* is the lowering of a program in which nothing was found: what holds     *)
(* before and after each statement.                                        *)
WellBegun ==
    /\ WellDeclared(header.declarations)
    /\ header.declared \subseteq Declarable /\ IsFiniteSet(header.declared)
WellScripted == \E S : script \in Seq(S) /\ \A s \in S : WellFormed(3, s)
InStep ==
    /\ native = [stage \in Native!Stages |-> native[stage]]
    /\ \A stage \in Native!Stages :
          /\ Follows(native[stage], reference, NoBranch, DeclarationErrors(header.declarations), {})
          /\ native[stage].stage = stage
IInv == WellBegun /\ WellScripted /\ InStep /\ KeepsUp(lowerer, reference)

LEMMA Begins == Init => IInv
<1> SUFFICES ASSUME Init PROVE IInv
  OBVIOUS
<1>1. PICK b \in Beginnings :
          /\ header = b.header /\ reference = Open(b.header)
          /\ native = [stage \in Native!Stages |-> Native!Open(stage, b.header)]
          /\ lowerer = IR!Lowerer /\ script = b.body
  BY DEF Init
<1>2. WellBegun
  BY <1>1, BeginningsAssumption DEF WellBegun, WellDeclared
<1>3. WellScripted
  <2>1. Parsed(script) /\ \A i \in DOMAIN script :
           script[i].value.op = "explore" => Nesting(script[i].value.body)
    BY <1>1, BeginningsAssumption
  <2>2. \A i \in DOMAIN script : WellFormed(3, script[i])
    BY <2>1 DEF Parsed, WellFormed, Worded
  <2>3. script \in Seq(ToSet(script)) /\ \A s \in ToSet(script) : \E i \in DOMAIN script : s = script[i]
    BY <2>1 DEF Parsed, IsList, ToSet
  <2> QED
    BY <2>2, <2>3 DEF WellScripted
<1>4. InStep
  <2>1. ASSUME NEW stage \in Native!Stages
        PROVE  /\ Follows(native[stage], reference, NoBranch, DeclarationErrors(header.declarations), {})
               /\ native[stage].stage = stage
    <3>1. native[stage] = Native!Open(stage, header) /\ reference = Open(header)
      BY <1>1
    <3>2. /\ Follows(Native!Open(stage, header), Open(header), NoBranch,
                     DeclarationErrors(header.declarations), {})
          /\ Native!Open(stage, header).stage = stage
      BY <1>2, OpenedFollows DEF WellBegun
    <3> QED
      BY <3>1, <3>2
  <2>2. native = [stage \in Native!Stages |-> native[stage]]
    BY <1>1
  <2> QED
    BY <2>1, <2>2 DEF InStep
<1>5. KeepsUp(lowerer, reference)
  <2>1. Sane(reference) /\ Clean(reference) /\ reference.types = <<>>
    BY <1>1, <1>2, OpenedSane DEF WellBegun
  <2>2. lowerer = [next |-> 0, mismatch |-> FALSE] /\ Len(<<>>) = 0
    BY <1>1, EmptyList DEF IR!Lowerer
  <2> QED
    BY <2>1, <2>2 DEF KeepsUp
<1> QED
  BY <1>2, <1>3, <1>4, <1>5 DEF IInv

LEMMA WritingKeeps ==
    ASSUME IInv, NEW s, WellFormed(3, s), Write(s)
    PROVE  WellBegun' /\ InStep' /\ KeepsUp(lowerer, reference)'
<1>1. /\ reference' = CheckStatement(reference, s) /\ header' = header
      /\ native' = [stage \in Native!Stages |-> Native!Statement(native[stage], s)]
      /\ lowerer' = IR!Statement(lowerer, Native!Analysis(native'["ownership"]), s)
  BY DEF Write
<1>2. PICK before : before = DeclarationErrors(header.declarations)
  OBVIOUS
<1>3. IsList(before)
  BY <1>2, DeclarationFacts DEF IInv, WellBegun
<1>4. ASSUME NEW stage \in Native!Stages
      PROVE  /\ Follows(native'[stage], reference', NoBranch, before, {})
             /\ native'[stage].stage = stage
  <2>1. PICK n, c : n = native[stage] /\ c = reference
    OBVIOUS
  <2>2. Follows(n, c, NoBranch, before, {}) /\ n.stage = stage
    BY <1>2, <2>1 DEF IInv, InStep
  <2>3. /\ Follows(Native!Statement(n, s), CheckStatement(c, s), NoBranch, before, {})
        /\ Native!Statement(n, s).stage = n.stage
    BY <1>3, <2>2, WrittenFollows
  <2> QED
    BY <1>1, <2>1, <2>2, <2>3
<1>5. InStep'
  BY <1>1, <1>2, <1>4 DEF InStep
<1>6. KeepsUp(lowerer, reference)'
  <2>1. PICK n, c, l : n = native'["ownership"] /\ c = reference /\ l = lowerer
    OBVIOUS
  <2>2. Table(n, CheckStatement(c, s).types, {})
    <3>1. Follows(n, CheckStatement(c, s), NoBranch, before, {})
      BY <1>1, <1>4, <2>1 DEF Native!Stages
    <3> QED
      BY <3>1 DEF Follows
  <2>3. KeepsUp(l, c)
    BY <2>1 DEF IInv
  <2>4. KeepsUp(IR!Statement(l, Native!Analysis(n), s), CheckStatement(c, s))
    BY <2>2, <2>3, WrittenKeepsUp
  <2>5. KeepsUp(lowerer', reference')
    BY <1>1, <2>1, <2>4
  <2> QED
    BY <2>5
<1>7. WellBegun'
  BY <1>1 DEF IInv, WellBegun
<1> QED
  BY <1>5, <1>6, <1>7

LEMMA EndingKeeps ==
    ASSUME IInv, End
    PROVE  IInv'
<1>1. /\ reference' = CheckEffects(reference, header.declared) /\ header' = header
      /\ native' = [stage \in Native!Stages |-> Native!Close(native[stage], header.declared)]
      /\ lowerer' = lowerer /\ script' = script
  BY DEF End
<1>2. PICK before, declared : before = DeclarationErrors(header.declarations) /\ declared = header.declared
  OBVIOUS
<1>3. IsList(before) /\ IsFiniteSet(declared)
  BY <1>2, DeclarationFacts DEF IInv, WellBegun
<1>4. ASSUME NEW stage \in Native!Stages
      PROVE  /\ Follows(native'[stage], reference', NoBranch, before, {})
             /\ native'[stage].stage = stage
             /\ Lowered(reference, reference', <<>>) /\ reference'.types = reference.types
  <2>1. PICK n, c : n = native[stage] /\ c = reference
    OBVIOUS
  <2>2. Follows(n, c, NoBranch, before, {}) /\ n.stage = stage /\ Sane(c)
    BY <1>2, <2>1 DEF IInv, InStep, KeepsUp
  <2>3. /\ Follows(Native!Close(n, declared), CheckEffects(c, declared), NoBranch, before, {})
        /\ Native!Close(n, declared).stage = n.stage
        /\ Lowered(c, CheckEffects(c, declared), <<>>)
        /\ CheckEffects(c, declared).types = c.types
    BY <1>3, <2>2, ClosedFollows
  <2> QED
    BY <1>1, <1>2, <2>1, <2>2, <2>3
<1>5. InStep'
  BY <1>1, <1>2, <1>4 DEF InStep
<1>6. KeepsUp(lowerer, reference)'
  <2>1. Lowered(reference, reference', <<>>) /\ reference'.types = reference.types
    BY <1>4 DEF Native!Stages
  <2>2. KeepsUp(lowerer, reference)
    BY DEF IInv
  <2>3. KeepsUp(lowerer', reference')
    BY <1>1, <2>1, <2>2 DEF KeepsUp, Lowered
  <2> QED
    BY <2>3
<1>7. WellBegun' /\ WellScripted'
  BY <1>1 DEF IInv, WellBegun, WellScripted
<1> QED
  BY <1>5, <1>6, <1>7 DEF IInv

LEMMA Keeps == IInv /\ [Next]_vars => IInv'
<1> SUFFICES ASSUME IInv, [Next]_vars PROVE IInv'
  OBVIOUS
<1>1. CASE WriteFirst
  <2>1. script # <<>> /\ Write(Head(script)) /\ script' = Tail(script)
    BY <1>1 DEF WriteFirst
  <2>2. PICK S : script \in Seq(S) /\ \A s \in S : WellFormed(3, s)
    BY DEF IInv, WellScripted
  <2>3. Head(script) \in S /\ Tail(script) \in Seq(S)
    BY <2>1, <2>2
  <2>4. WellFormed(3, Head(script))
    BY <2>2, <2>3
  <2>5. WellBegun' /\ InStep' /\ KeepsUp(lowerer, reference)'
    BY <2>1, <2>4, WritingKeeps
  <2>6. WellScripted'
    BY <2>1, <2>2, <2>3 DEF WellScripted
  <2> QED
    BY <2>5, <2>6 DEF IInv
<1>2. CASE WriteMore
  <2>1. PICK s \in Lets \cup Aliases \cup Annotated \cup Others \cup Measures : Write(s)
    BY <1>2 DEF WriteMore
  <2>2. WellBegun' /\ InStep' /\ KeepsUp(lowerer, reference)'
    BY <2>1, WrittenFacts, WritingKeeps
  <2>3. WellScripted'
    BY <1>2 DEF WriteMore, IInv, WellScripted
  <2> QED
    BY <2>2, <2>3 DEF IInv
<1>3. CASE End
  BY <1>3, EndingKeeps
<1>4. CASE UNCHANGED vars
  BY <1>4 DEF IInv, WellBegun, WellScripted, InStep, KeepsUp, vars
<1> QED
  BY <1>1, <1>2, <1>3, <1>4 DEF Next

LEMMA StageAgrees ==
    ASSUME IInv, NEW stage \in Native!Stages
    PROVE  /\ Found(stage) = Expected(stage)
           /\ SameBindings(stage) /\ SameTypes(stage)
<1>1. PICK n, c, before : /\ n = native[stage] /\ c = reference
                          /\ before = DeclarationErrors(header.declarations)
  OBVIOUS
<1>2. Follows(n, c, NoBranch, before, {}) /\ n.stage = stage /\ Sane(c)
  BY <1>1 DEF IInv, InStep, KeepsUp
<1>3. /\ IsList(before) /\ ToSet(before) \subseteq Declarative
      /\ Native!DeclarationErrors(header.declarations) = Capped(before)
  BY <1>1, DeclarationFacts DEF IInv, WellBegun
<1>4. PICK codes : Ordinary(codes) /\ c.diagnostics = before \o codes /\ Told(n, codes)
  BY <1>2 DEF Follows
<1>5. Sound <=> before = <<>>
  BY <1>1 DEF Sound
<1>6. Found(stage) = Expected(stage)
  <2>1. CASE Sound
    <3>1. c.diagnostics = codes
      BY <1>4, <1>5, <2>1, ConcatEmpty DEF Ordinary
    <3> QED
      BY <1>1, <1>2, <1>4, <2>1, <3>1 DEF Found, Expected, Told
  <2>2. CASE ~Sound
    <3>1. Without(c.diagnostics, ToSet(c.diagnostics) \ Declarative) = before
      BY <1>3, <1>4, OnlyDeclarations
    <3> QED
      BY <1>1, <1>3, <2>2, <3>1 DEF Found, Expected
  <2> QED
    BY <2>1, <2>2
<1>7. SameBindings(stage)
  <2>1. n.env = [name \in DOMAIN c.env |-> Typed(c.env[name])]
    BY <1>2 DEF Follows, Sees
  <2>2. DOMAIN n.env = DOMAIN c.env
    BY <2>1
  <2>3. ASSUME NEW name \in DOMAIN c.env
        PROVE  Described("var", c.env[name]).type = Native!Report(n.env[name])
    <3>1. n.env[name] = Typed(c.env[name])
      BY <2>1
    <3>2. Native!Report(Typed(c.env[name])) = Described("var", c.env[name]).type
      BY TypedFacts
    <3> QED
      BY <3>1, <3>2
  <2> QED
    BY <1>1, <2>2, <2>3 DEF SameBindings
<1>8. SameTypes(stage)
  <2>1. PICK rows, k : rows = Native!Analysis(n) /\ k = Len(c.types)
    OBVIOUS
  <2>2. Table(n, c.types, {})
    BY <1>2 DEF Follows
  <2>3. IsList(rows) /\ Len(rows) = k /\ \A i \in 1 .. k : rows[i] = Entry(c.types, i)
    BY <2>1, <2>2, AnalysisFacts
  <2>4. IsList(c.types) /\ k \in Nat /\ DOMAIN c.types = 1 .. k /\ DOMAIN rows = 1 .. k
    BY <1>2, <2>1, <2>3, ListFacts DEF Sane
  <2>5. PICK shown : shown = [i \in DOMAIN rows |-> [op |-> rows[i].op, type |-> rows[i].type]]
    OBVIOUS
  <2>6. IsList(shown) /\ Len(shown) = k
    <3>1. shown = [i \in 1 .. k |-> shown[i]]
      BY <2>4, <2>5
    <3> QED
      BY <2>4, <3>1, ListOf
  <2>7. ASSUME NEW i \in 1 .. k PROVE c.types[i] = shown[i]
    <3>1. c.types[i] \in ToSet(c.types)
      BY <2>4 DEF ToSet
    <3>2. c.types[i] = [op |-> c.types[i].op, type |-> c.types[i].type]
      BY <1>2, <3>1 DEF Sane, Rows
    <3>3. shown[i] = [op |-> Entry(c.types, i).op, type |-> Entry(c.types, i).type]
      BY <2>3, <2>4, <2>5
    <3> QED
      BY <3>2, <3>3 DEF Entry
  <2>8. c.types = shown
    BY <2>1, <2>4, <2>6, <2>7, SameList
  <2> QED
    BY <1>1, <2>1, <2>5, <2>8 DEF SameTypes
<1> QED
  BY <1>6, <1>7, <1>8

LEMMA AcceptedIsLowered ==
    ASSUME IInv, Accepted
    PROVE  IR!Lowers(lowerer, Native!Analysis(native["ownership"]))
<1>1. PICK n, c, before : /\ n = native["ownership"] /\ c = reference
                          /\ before = DeclarationErrors(header.declarations)
  OBVIOUS
<1>2. Follows(n, c, NoBranch, before, {}) /\ n.stage = "ownership" /\ KeepsUp(lowerer, c)
  BY <1>1 DEF IInv, InStep, Native!Stages
<1>3. IsList(before) /\ Native!DeclarationErrors(header.declarations) = Capped(before)
  BY <1>1, DeclarationFacts DEF IInv, WellBegun
<1>4. PICK codes : Ordinary(codes) /\ c.diagnostics = before \o codes /\ Told(n, codes)
  BY <1>2 DEF Follows
<1>5. before = <<>>
  <2>1. CASE Sound
    BY <1>1, <2>1 DEF Sound
  <2>2. CASE ~Sound
    <3>1. Capped(before) = <<>>
      BY <1>3, <2>2 DEF Accepted, Found
    <3> QED
      BY <1>3, <3>1, CappedNothing
  <2> QED
    BY <2>1, <2>2
<1>6. codes = <<>>
  <2>1. n.errors = <<>>
    BY <1>1, <1>5 DEF Accepted, Found, Sound
  <2>2. Without(codes, {}) = codes
    BY <1>4, WithoutNone DEF Ordinary
  <2>3. Capped(codes) = <<>>
    BY <1>2, <1>4, <2>1, <2>2 DEF Told, Deferred
  <2> QED
    BY <1>4, <2>3, CappedNothing DEF Ordinary
<1>7. c.diagnostics = <<>>
  BY <1>4, <1>5, <1>6, ConcatEmpty, EmptyList
<1>8. lowerer = [next |-> Len(c.types), mismatch |-> FALSE]
  BY <1>2, <1>7 DEF KeepsUp
<1>9. Len(Native!Analysis(n)) = Len(c.types)
  <2>1. Table(n, c.types, {})
    BY <1>2 DEF Follows
  <2> QED
    BY <2>1, AnalysisFacts
<1> QED
  BY <1>1, <1>8, <1>9 DEF IR!Lowers

(* Every stage of the native compiler finds what the reference finds, but  *)
(* for what it defers, and infers the same types; what the last stage      *)
(* accepts is lowered without an internal error (compiler.py, Checker.     *)
(* check; check in foresee-semantics; ir.rs, lower_source).  Programs and  *)
(* their explorations are of any length, and errors as many as there are.  *)
THEOREM StagesAgree == Spec => []CompilersAgree
<1>1. IInv => CompilersAgree
  BY StageAgrees, AcceptedIsLowered DEF CompilersAgree
<1> QED
  BY <1>1, Begins, Keeps, PTL DEF Spec
=============================================================================
