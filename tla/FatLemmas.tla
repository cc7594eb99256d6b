------------------------------- MODULE FatLemmas ------------------------------
(***************************************************************************)
(* Lemmas about the operators of Fat: what the look-ups read from a table  *)
(* and a disk that stand for a tree, and how a change of the table or of a *)
(* unit changes the tree.  Each operation is then followed write by write: *)
(* its writes lead from the tree before it to the tree after it.           *)
(***************************************************************************)
EXTENDS FatInv, SequenceTheorems, FiniteSetTheorems, WellFoundedInduction, TLAPS

(***************************************************************************)
(* Numbers, units, chains and the recursion that a folder is read by.      *)
(***************************************************************************)

(* A set of numbers has a smallest one.                                    *)
LEMMA Least ==
  ASSUME NEW S, S \subseteq Nat, S # {}
  PROVE  \E m \in S : \A k \in S : m <= k
<1>1. \E m \in S : \A k \in S : ~(<<k, m>> \in OpToRel(<, Nat))
  BY NatLessThanWellFounded, WFMin
<1>2. PICK m \in S : \A k \in S : ~(<<k, m>> \in OpToRel(<, Nat))
  BY <1>1
<1>3. ASSUME NEW k \in S, k < m PROVE <<k, m>> \in OpToRel(<, Nat)
  BY <1>3, SMT DEF OpToRel
<1>4. \A k \in S : k \in Nat /\ m \in Nat /\ ~(k < m)
  BY <1>2, <1>3
<1>5. \A k \in S : m <= k
  BY <1>4
<1> QED
  BY <1>5

(* Min is the smallest one.                                                *)
LEMMA MinFacts ==
  ASSUME NEW S, S \subseteq Nat, S # {}
  PROVE  Min(S) \in S /\ \A k \in S : Min(S) <= k
BY Least DEF Min

(* The kinds of units and of entries tell them apart.                      *)
LEMMA KindFacts ==
  /\ Blank.kind = "blank" /\ Label.kind = "label" /\ Missing.kind = "missing"
  /\ \A c : Dot(c).kind = "dot"
  /\ \A v : Datum(v).kind = "data"
  /\ RootEntry.kind = "entry" /\ RootEntry.dir = TRUE /\ RootEntry.first = Root
  /\ RootEntry # Missing
  /\ \A e \in EntryType : /\ e.kind = "entry" /\ e # Blank /\ e # Missing 
                          /\ e.name \in Names /\ e.dir \in BOOLEAN /\ e.first \in Clusters /\ e.size \in Nat
BY DEF Blank, Label, Missing, Dot, Datum, RootEntry, Entry, EntryType

(* The only element of a set.                                              *)
LEMMA The_ == ASSUME NEW v PROVE The({v}) = v
BY DEF The

(* What the assumptions say of the constants and of the special numbers.   *)
LEMMA ConstantFacts ==
  /\ Clusters \subseteq Nat /\ IsFiniteSet(Clusters) /\ Cardinality(Clusters) \in Nat /\ Cardinality(Clusters) > 0
  /\ EOC \notin Clusters /\ Free \notin Clusters /\ Root \notin Clusters /\ Table \notin Clusters
  /\ Table \notin Areas /\ Free # EOC
  /\ Size \in Nat /\ Size > 2 /\ RootSize \in Nat /\ RootSize > 1
<1>1. Clusters \subseteq 2 .. 2847 /\ Clusters # {}
  BY FatAssumption
<1>3. IsFiniteSet(Clusters)
  <2>1. \A c \in Clusters : c \in Nat /\ c <= 2847
    BY <1>1
  <2>2. Clusters \in SUBSET Nat /\ 2847 \in Nat
    BY <2>1
  <2> QED
    BY <2>1, <2>2, FS_BoundedSetOfNaturals
<1>4. Cardinality(Clusters) \in Nat /\ Cardinality(Clusters) # 0
  BY <1>1, <1>3, FS_EmptySet, FS_CardinalityType
<1>5. /\ Size \in Nat /\ Size > 2 /\ RootSize \in Nat /\ RootSize > 1
  BY FatAssumption
<1> QED
  BY <1>1, <1>3, <1>4, <1>5 DEF EOC, Free, Root, Table, Areas

(* Induction, for a set of numbers.                                        *)
LEMMA SetInduction ==
  ASSUME NEW S, S \subseteq Nat, 0 \in S, \A n \in S : n + 1 \in S
  PROVE  S = Nat
<1> SUFFICES ASSUME Nat \ S # {} PROVE FALSE
  OBVIOUS
<1>1. PICK m \in Nat \ S : \A k \in Nat \ S : m <= k
  BY Least, Nat \ S \subseteq Nat
<1>2. m # 0 /\ m - 1 \in Nat /\ m - 1 < m
  BY <1>1
<1>3. m - 1 \in S
  BY <1>1, <1>2
<1>4. (m - 1) + 1 = m
  BY <1>1
<1> QED
  BY <1>1, <1>3, <1>4

(* Two functions that begin alike and go on alike are alike.               *)
LEMMA SameUpTo ==
  ASSUME NEW top \in Nat, NEW f, NEW g, f[0] = g[0],
         \A n \in Nat : n < top /\ f[n] = g[n] => f[n + 1] = g[n + 1]
  PROVE  \A n \in 0 .. top : f[n] = g[n]
<1> DEFINE S == {n \in Nat : n <= top => f[n] = g[n]}
<1>1. 0 \in S
  OBVIOUS
<1>2. ASSUME NEW n \in S PROVE n + 1 \in S
  <2>1. n \in Nat /\ (n <= top => f[n] = g[n])
    OBVIOUS
  <2>2. n + 1 <= top => f[n + 1] = g[n + 1]
    BY <2>1
  <2> QED
    BY <2>1, <2>2
<1>3. S = Nat
  <2>1. S \subseteq Nat
    OBVIOUS
  <2> HIDE DEF S
  <2> QED
    BY <1>1, <1>2, <2>1, SetInduction
<1> QED
  BY <1>3

(* Quotient and remainder of a number.                                     *)
LEMMA DivMod ==
  ASSUME NEW w \in Nat, w > 0, NEW k \in Nat
  PROVE  /\ k \div w \in Nat /\ k % w \in 0 .. w - 1
         /\ k = w * (k \div w) + (k % w)
OBVIOUS

(* They are the only ones.                                                 *)
LEMMA DivModOf ==
  ASSUME NEW w \in Nat, w > 0, NEW i \in Nat, NEW j \in 0 .. w - 1
  PROVE  (w * i + j) \div w = i /\ (w * i + j) % w = j
<1>1. w * i + j \in Nat
  OBVIOUS
<1> QED
  BY <1>1

(* The quotient of a number below a product.                               *)
LEMMA DivBound ==
  ASSUME NEW w \in Nat, w > 0, NEW n \in Nat, NEW k \in 0 .. w * n - 1
  PROVE  k \div w \in 0 .. n - 1
OBVIOUS

(* Unit k of the clusters of a chain, w units each, is unit Within(w, k)   *)
(* of cluster Nth(w, k), and unit j of cluster i is unit Place(w, i, j).   *)
Place(w, i, j) == w * (i - 1) + j
Nth(w, k)      == (k - 1) \div w + 1
Within(w, k)   == ((k - 1) % w) + 1

(* Unit k of some clusters is in one of them, at its place there.          *)
LEMMA PlaceOf ==
  ASSUME NEW w \in Nat, w > 0, NEW n \in Nat, NEW k \in 1 .. w * n
  PROVE  /\ Nth(w, k) \in 1 .. n /\ Within(w, k) \in 1 .. w
         /\ Place(w, Nth(w, k), Within(w, k)) = k
<1>1. w * n \in Nat /\ k - 1 \in Nat /\ k - 1 \in 0 .. w * n - 1
  OBVIOUS
<1>2. (k - 1) \div w \in 0 .. n - 1 /\ (k - 1) % w \in 0 .. w - 1
  BY <1>1, DivMod, DivBound
<1>3. k - 1 = w * ((k - 1) \div w) + ((k - 1) % w)
  BY <1>1, DivMod
<1> DEFINE q == (k - 1) \div w
           r == (k - 1) % w
<1>4. w * ((q + 1) - 1) = w * q /\ q \in Nat /\ r \in Nat
  BY <1>2
<1> QED
  BY <1>2, <1>3, <1>4 DEF Place, Nth, Within

(* The unit at a place of a cluster, counted over all clusters.            *)
LEMMA PlaceIs ==
  ASSUME NEW w \in Nat, w > 0, NEW n \in Nat, NEW i \in 1 .. n, NEW j \in 1 .. w
  PROVE  /\ Place(w, i, j) \in 1 .. w * n
         /\ Nth(w, Place(w, i, j)) = i /\ Within(w, Place(w, i, j)) = j
<1>1. w * (i - 1) + j \in 1 .. w * n
  OBVIOUS
<1>2. i - 1 \in Nat /\ j - 1 \in 0 .. w - 1 /\ (w * (i - 1) + j) - 1 = w * (i - 1) + (j - 1)
  OBVIOUS
<1>3. (w * (i - 1) + (j - 1)) \div w = i - 1 /\ (w * (i - 1) + (j - 1)) % w = j - 1
  BY <1>2, DivModOf
<1> QED
  BY <1>1, <1>2, <1>3 DEF Place, Nth, Within

(* The clusters of something in use are areas of one width.                *)
LEMMA ShapedFacts ==
  ASSUME NEW d \in DiskType, NEW s, Shaped(s)
  PROVE  /\ s \in Seq(Areas) /\ Len(s) \in Nat /\ Len(s) > 0 /\ s[1] \in Areas /\ Distinct(s)
         /\ DOMAIN s = 1 .. Len(s)
         /\ Width(s[1]) \in Nat /\ Width(s[1]) >= 2 /\ Width(s[1]) >= Header(s[1])
         /\ Header(s[1]) \in {1, 2}
         /\ \A i \in 1 .. Len(s) : /\ s[i] \in Areas /\ d[s[i]] \in Seq(Unit)
                                   /\ Len(d[s[i]]) = Width(s[1])
         /\ \A a \in Areas : d[a] \in Seq(Unit) /\ Len(d[a]) = Width(a)
<1>1. \A a \in Areas : d[a] \in Seq(Unit) /\ Len(d[a]) = Width(a)
  BY DEF DiskType
<1>2. CASE s = <<Root>>
  <2>1. s \in Seq(Areas) /\ Len(s) = 1 /\ s[1] = Root /\ Distinct(s) /\ Root \in Areas /\ DOMAIN s = 1 .. 1
    BY <1>2 DEF Areas, Distinct
  <2>2. Width(s[1]) = RootSize /\ Header(s[1]) = 1
    BY <2>1 DEF Width, Header
  <2> QED
    BY <1>1, <2>1, <2>2, ConstantFacts
<1>3. CASE s \in Seq(Clusters) /\ s # <<>> /\ Distinct(s)
  <2>1. Len(s) \in Nat /\ Len(s) > 0 /\ DOMAIN s = 1 .. Len(s) /\ \A i \in 1 .. Len(s) : s[i] \in Clusters
    BY <1>3
  <2>2. \A c \in Clusters : c \in Areas /\ c # Root /\ Width(c) = Size /\ Header(c) = 2
    BY ConstantFacts DEF Areas, Width, Header
  <2>3. s \in Seq(Areas)
    BY <1>3 DEF Areas
  <2>4. s[1] \in Clusters /\ Width(s[1]) = Size /\ Header(s[1]) = 2
    BY <2>1, <2>2
  <2>5. \A i \in 1 .. Len(s) : s[i] \in Areas /\ Width(s[i]) = Width(s[1])
    BY <2>1, <2>2, <2>4
  <2>6. Width(s[1]) \in Nat /\ Width(s[1]) >= 2 /\ Width(s[1]) >= Header(s[1])
    BY <2>4, ConstantFacts
  <2> QED
    BY <1>1, <1>3, <2>1, <2>3, <2>4, <2>5, <2>6
<1> QED
  BY <1>2, <1>3 DEF Shaped

(* Units puts the units of the clusters one after the other.               *)
LEMMA UnitsFacts ==
  ASSUME NEW d \in DiskType, NEW s, Shaped(s), NEW w, w = Width(s[1])
  PROVE  /\ Len(Units(d, s)) = w * Len(s) /\ DOMAIN Units(d, s) = 1 .. w * Len(s)
         /\ w * Len(s) \in Nat /\ w * Len(s) >= w
         /\ Units(d, s) \in Seq(Unit)
         /\ \A k \in 1 .. w * Len(s) :
              /\ Nth(w, k) \in 1 .. Len(s) /\ Within(w, k) \in 1 .. w
              /\ Units(d, s)[k] = d[s[Nth(w, k)]][Within(w, k)]
              /\ Units(d, s)[k] \in Unit
         /\ \A i \in 1 .. Len(s) : \A j \in 1 .. w :
              /\ Place(w, i, j) \in 1 .. w * Len(s)
              /\ Units(d, s)[Place(w, i, j)] = d[s[i]][j]
<1> DEFINE U == Units(d, s)
<1>1. /\ w \in Nat /\ w > 0 /\ Len(s) \in Nat /\ Len(s) > 0 /\ 1 \in 1 .. Len(s)
      /\ \A i \in 1 .. Len(s) : d[s[i]] \in Seq(Unit) /\ Len(d[s[i]]) = w
  BY ShapedFacts
<1>2. U = [k \in 1 .. w * Len(s) |-> d[s[Nth(w, k)]][Within(w, k)]]
  BY <1>1 DEF Units, Nth, Within
<1> HIDE DEF U
<1>3. w * Len(s) \in Nat /\ w * Len(s) >= w
  BY <1>1
<1>4. ASSUME NEW k \in 1 .. w * Len(s)
      PROVE  /\ Nth(w, k) \in 1 .. Len(s) /\ Within(w, k) \in 1 .. w
             /\ U[k] = d[s[Nth(w, k)]][Within(w, k)]
             /\ U[k] \in Unit
  <2>1. Nth(w, k) \in 1 .. Len(s) /\ Within(w, k) \in 1 .. w
    BY <1>1, PlaceOf
  <2>2. d[s[Nth(w, k)]][Within(w, k)] \in Unit
    BY <1>1, <2>1, ElementOfSeq
  <2> QED
    BY <1>2, <2>1, <2>2
<1>5. ASSUME NEW i \in 1 .. Len(s), NEW j \in 1 .. w
      PROVE  Place(w, i, j) \in 1 .. w * Len(s) /\ U[Place(w, i, j)] = d[s[i]][j]
  <2>1. /\ Place(w, i, j) \in 1 .. w * Len(s)
        /\ Nth(w, Place(w, i, j)) = i /\ Within(w, Place(w, i, j)) = j
    BY <1>1, PlaceIs
  <2> QED
    BY <1>2, <2>1
<1>6. U \in Seq(Unit) /\ Len(U) = w * Len(s) /\ DOMAIN U = 1 .. w * Len(s)
  <2>1. U \in [1 .. w * Len(s) -> Unit]
    BY <1>2, <1>4
  <2> QED
    BY <1>3, <2>1
<1> QED
  BY <1>3, <1>4, <1>5, <1>6 DEF U

(* The same for clusters, which have Size units each.                      *)
LEMMA ClusterUnits ==
  ASSUME NEW d \in DiskType, NEW s, Shaped(s), s # <<Root>>
  PROVE  /\ Width(s[1]) = Size /\ Header(s[1]) = 2 /\ \A i \in 1 .. Len(s) : s[i] \in Clusters
         /\ Len(Units(d, s)) = Size * Len(s) /\ Size * Len(s) \in Nat
         /\ \A k \in 1 .. Size * Len(s) :
              /\ Nth(Size, k) \in 1 .. Len(s) /\ Within(Size, k) \in 1 .. Size
              /\ Units(d, s)[k] = d[s[Nth(Size, k)]][Within(Size, k)]
         /\ \A i \in 1 .. Len(s) : \A j \in 1 .. Size :
              Units(d, s)[Place(Size, i, j)] = d[s[i]][j]
<1>1. s \in Seq(Clusters) /\ s # <<>>
  BY DEF Shaped
<1>2. Len(s) \in Nat /\ Len(s) > 0 /\ \A i \in 1 .. Len(s) : s[i] \in Clusters
  BY <1>1
<1>3. s[1] \in Clusters /\ s[1] # Root
  BY <1>2, ConstantFacts
<1>4. Size = Width(s[1]) /\ Header(s[1]) = 2
  BY <1>3 DEF Width, Header
<1>5. /\ Len(Units(d, s)) = Size * Len(s) /\ Size * Len(s) \in Nat
      /\ \A k \in 1 .. Size * Len(s) :
           /\ Nth(Size, k) \in 1 .. Len(s) /\ Within(Size, k) \in 1 .. Size
           /\ Units(d, s)[k] = d[s[Nth(Size, k)]][Within(Size, k)]
      /\ \A i \in 1 .. Len(s) : \A j \in 1 .. Size :
           Units(d, s)[Place(Size, i, j)] = d[s[i]][j]
  BY <1>4, UnitsFacts
<1> QED
  BY <1>2, <1>4, <1>5

(* Disks that agree in the clusters have the same units there.             *)
LEMMA UnitsEqual ==
  ASSUME NEW d \in DiskType, NEW e \in DiskType, NEW s, Shaped(s),
         \A i \in 1 .. Len(s) : e[s[i]] = d[s[i]]
  PROVE  Units(e, s) = Units(d, s)
<1>1. Len(s) > 0 /\ Len(s) \in Nat /\ 1 \in 1 .. Len(s) /\ Width(s[1]) \in Nat
  BY ShapedFacts
<1>2. Len(e[s[1]]) = Width(s[1]) /\ Len(d[s[1]]) = Width(s[1])
  BY <1>1, ShapedFacts
<1> DEFINE w == Width(s[1])
<1>3. /\ Units(e, s) = [k \in 1 .. w * Len(s) |-> e[s[Nth(w, k)]][Within(w, k)]]
      /\ Units(d, s) = [k \in 1 .. w * Len(s) |-> d[s[Nth(w, k)]][Within(w, k)]]
  BY <1>2 DEF Units, Nth, Within
<1>4. \A k \in 1 .. w * Len(s) : Nth(w, k) \in 1 .. Len(s)
  BY UnitsFacts
<1> HIDE DEF w
<1>5. \A k \in 1 .. w * Len(s) : e[s[Nth(w, k)]] = d[s[Nth(w, k)]]
  BY <1>4
<1> QED
  BY <1>3, <1>5

(* A write of one unit changes that unit and nothing else.                 *)
LEMMA PutFacts ==
  ASSUME NEW d \in DiskType, NEW s, Shaped(s), NEW u \in Unit,
         NEW k \in 0 .. Width(s[1]) * Len(s) - 1
  PROVE  /\ Put(d, s, k, u) \in DiskType
         /\ Len(Units(Put(d, s, k, u), s)) = Len(Units(d, s))
         /\ \A i \in 1 .. Width(s[1]) * Len(s) :
              Units(Put(d, s, k, u), s)[i] = IF i = k + 1 THEN u ELSE Units(d, s)[i]
         /\ \A a \in Areas : a \notin ToSet(s) => Put(d, s, k, u)[a] = d[a]
<1> DEFINE w == Width(s[1])
           q == k \div w
           r == k % w
           c == s[q + 1]
           e == Put(d, s, k, u)
<1>1. /\ w \in Nat /\ w > 0 /\ Len(s) \in Nat /\ Len(s) > 0 /\ Distinct(s) /\ DOMAIN s = 1 .. Len(s)
      /\ \A i \in 1 .. Len(s) : s[i] \in Areas /\ d[s[i]] \in Seq(Unit) /\ Len(d[s[i]]) = w
      /\ Len(d[s[1]]) = w
  BY ShapedFacts
<1>2. e = [d EXCEPT ![c] = [d[c] EXCEPT ![r + 1] = u]]
  BY <1>1 DEF Put
<1>3. k \in Nat /\ w * Len(s) \in Nat
  BY <1>1
<1> HIDE DEF w
<1>4. q \in 0 .. Len(s) - 1 /\ r \in 0 .. w - 1 /\ k = w * q + r
  BY <1>1, <1>3, DivMod, DivBound DEF w
<1> HIDE DEF q, r
<1>5. q + 1 \in 1 .. Len(s) /\ r + 1 \in 1 .. w /\ c \in Areas /\ d[c] \in Seq(Unit) /\ Len(d[c]) = w /\ c \in ToSet(s)
  BY <1>1, <1>4 DEF ToSet
<1> HIDE DEF c, e
<1>6. [d[c] EXCEPT ![r + 1] = u] \in Seq(Unit) /\ Len([d[c] EXCEPT ![r + 1] = u]) = w
  BY <1>5, ExceptSeq
<1>7. DOMAIN d = Areas /\ \A a \in Areas : d[a] \in Seq(Unit) /\ Len(d[a]) = Width(a)
  BY DEF DiskType
<1>8. e \in DiskType
  <2>1. e \in [Areas -> Seq(Unit)]
    BY <1>2, <1>6, <1>7, d \in [Areas -> Seq(Unit)] DEF DiskType
  <2>2. \A a \in Areas : Len(e[a]) = Width(a)
    BY <1>2, <1>5, <1>6, <1>7
  <2> QED
    BY <2>1, <2>2 DEF DiskType
<1>9. \A a \in Areas : a \notin ToSet(s) => e[a] = d[a]
  BY <1>2, <1>5, <1>7
<1>10. ASSUME NEW i \in 1 .. w * Len(s)
       PROVE  Units(e, s)[i] = IF i = k + 1 THEN u ELSE Units(d, s)[i]
  <2> DEFINE qi == Nth(w, i)
             ri == Within(w, i)
  <2>1. /\ qi \in 1 .. Len(s) /\ ri \in 1 .. w
        /\ Units(e, s)[i] = e[s[qi]][ri] /\ Units(d, s)[i] = d[s[qi]][ri]
    BY <1>8, UnitsFacts DEF w
  <2>2. i - 1 \in Nat /\ i \in Nat
    BY <1>3
  <2>3. Place(w, qi, ri) = i
    BY <1>1, PlaceOf
  <2> HIDE DEF qi, ri
  <2>4. CASE qi = q + 1
    <3>1. s[qi] = c /\ e[c] = [d[c] EXCEPT ![r + 1] = u]
      BY <1>2, <1>5, <1>7, <2>4 DEF c
    <3>2. e[c][ri] = IF ri = r + 1 THEN u ELSE d[c][ri]
        <4>1. DOMAIN d[c] = 1 .. w /\ ri \in 1 .. w
        BY <1>4, <1>5, <2>1, <2>3
      <4> QED
        BY <3>1, <4>1
    <3>3. (i = k + 1) <=> (ri = r + 1)
      <4>1. Place(w, qi, ri) = w * q + ri
        BY <1>1, <1>4, <2>4 DEF Place
      <4> DEFINE m == w * q
      <4>2. m \in Nat /\ k = m + r /\ i = m + ri
        BY <1>1, <1>4, <2>3, <4>1
      <4> HIDE DEF m
      <4>3. r \in Int /\ ri \in Int /\ k \in Int
        BY <1>1, <1>3, <1>4, <2>1
      <4> QED
        BY ONLY <2>2, <4>2, <4>3
    <3> QED
      BY <2>1, <3>1, <3>2, <3>3
  <2>5. CASE qi # q + 1
    <3>1. s[qi] # c
      <4>1. qi \in DOMAIN s /\ q + 1 \in DOMAIN s
        BY <1>1, <1>5, <2>1
      <4> QED
        BY <1>1, <2>5, <4>1 DEF Distinct, c
    <3>2. e[s[qi]] = d[s[qi]]
      BY <1>1, <1>2, <1>7, <2>1, <3>1
    <3>3. i # k + 1
      <4>1. SUFFICES ASSUME i - 1 = k PROVE FALSE
        BY <1>3, <2>2
      <4> QED
        BY <4>1, <2>5 DEF qi, q, Nth
    <3> QED
      BY <2>1, <3>2, <3>3
  <2> QED
    BY <2>4, <2>5
<1>11. Len(Units(e, s)) = Len(Units(d, s))
  BY <1>8, UnitsFacts
<1> QED
  BY <1>8, <1>9, <1>10, <1>11 DEF e, w

(* One more cluster at the end.                                            *)
LEMMA ShapedLonger ==
  ASSUME NEW s, Shaped(s), NEW c \in Clusters, s # <<Root>>, c \notin ToSet(s)
  PROVE  /\ Shaped(Append(s, c)) /\ Append(s, c)[1] = s[1] /\ Append(s, c) # <<Root>>
         /\ s \in Seq(Clusters) /\ Len(s) \in Nat /\ Len(s) > 0 /\ s[1] \in Clusters
         /\ DOMAIN s = 1 .. Len(s) /\ DOMAIN Append(s, c) = 1 .. Len(s) + 1
         /\ Append(s, c) \in Seq(Clusters) /\ Distinct(Append(s, c))
         /\ Len(Append(s, c)) = Len(s) + 1 /\ Append(s, c)[Len(s) + 1] = c
         /\ \A i \in 1 .. Len(s) : Append(s, c)[i] = s[i]
<1> DEFINE z == Append(s, c)
           n == Len(s)
<1>1. s \in Seq(Clusters) /\ s # <<>> /\ Distinct(s)
  BY DEF Shaped
<1>2. n \in Nat /\ n > 0 /\ DOMAIN s = 1 .. n
  BY <1>1
<1>3. z \in Seq(Clusters) /\ z # <<>> /\ Len(z) = n + 1 /\ z[n + 1] = c /\ \A i \in 1 .. n : z[i] = s[i]
  BY <1>1, <1>2, AppendProperties
<1>3a. DOMAIN z = 1 .. n + 1
  BY <1>2, <1>3
<1> HIDE DEF n, z
<1>4. Distinct(z)
  <2> SUFFICES ASSUME NEW i \in 1 .. n + 1, NEW j \in 1 .. n + 1, z[i] = z[j] PROVE i = j
    BY <1>3a DEF Distinct
  <2>1. \A m \in 1 .. n : z[m] # c
    BY <1>2, <1>3 DEF ToSet
  <2>2. CASE i = n + 1
    BY <1>2, <1>3, <2>1, <2>2
  <2>3. CASE j = n + 1
    BY <1>2, <1>3, <2>1, <2>3
  <2>4. CASE i \in 1 .. n /\ j \in 1 .. n
    BY <1>1, <1>2, <1>3, <2>4 DEF Distinct
  <2> QED
    BY <1>2, <2>2, <2>3, <2>4
<1>5. Shaped(z)
  BY <1>3, <1>4 DEF Shaped
<1>6. z[1] = s[1] /\ s[1] \in Clusters
  <2>1. 1 \in 1 .. n
    BY <1>2
  <2> QED
    BY <1>1, <1>2, <1>3, <2>1, ElementOfSeq DEF n
<1>7. z # <<Root>>
  BY <1>2, <1>3
<1> QED
  BY <1>1, <1>2, <1>3, <1>3a, <1>4, <1>5, <1>6, <1>7 DEF z, n

(* The units of one more cluster come last.                                *)
LEMMA UnitsLonger ==
  ASSUME NEW d \in DiskType, NEW s, Shaped(s), NEW c \in Clusters,
         s # <<Root>>, c \notin ToSet(s)
  PROVE  /\ Shaped(Append(s, c)) /\ Append(s, c)[1] = s[1]
         /\ Width(s[1]) = Size /\ Width(Append(s, c)[1]) = Size
         /\ Len(Units(d, Append(s, c))) = Size * Len(s) + Size
         /\ \A k \in 1 .. Size * Len(s) : Units(d, Append(s, c))[k] = Units(d, s)[k]
         /\ \A j \in 1 .. Size : Units(d, Append(s, c))[Size * Len(s) + j] = d[c][j]
<1> DEFINE z == Append(s, c)
           n == Len(s)
<1>1. /\ Shaped(z) /\ z[1] = s[1] /\ s[1] \in Clusters /\ z # <<Root>> /\ n \in Nat /\ n > 0
      /\ Len(z) = n + 1 /\ z[n + 1] = c /\ \A i \in 1 .. n : z[i] = s[i]
  BY ShapedLonger
<1> HIDE DEF n, z
<1>2. n \in Nat /\ n > 0
  BY <1>1
<1>3. Len(z) = n + 1 /\ z[n + 1] = c /\ \A i \in 1 .. n : z[i] = s[i]
  BY <1>1
<1>5. Shaped(z)
  BY <1>1
<1>6. z[1] = s[1]
  BY <1>1
<1>7. s # <<Root>> /\ z # <<Root>> /\ Size \in Nat /\ Size > 0
  BY <1>1, ConstantFacts
<1>8. Size * (n + 1) = Size * n + Size /\ Size * n \in Nat
  BY <1>2, <1>7
<1>9. /\ Len(Units(d, z)) = Size * (n + 1) /\ Width(z[1]) = Size
      /\ \A k \in 1 .. Size * (n + 1) : Units(d, z)[k] = d[z[Nth(Size, k)]][Within(Size, k)]
      /\ \A j \in 1 .. Size : Units(d, z)[Place(Size, n + 1, j)] = d[c][j]
  <2>1. n + 1 \in 1 .. Len(z)
    BY <1>2, <1>3
  <2>2. /\ Len(Units(d, z)) = Size * Len(z) /\ Width(z[1]) = Size
        /\ \A k \in 1 .. Size * Len(z) : Units(d, z)[k] = d[z[Nth(Size, k)]][Within(Size, k)]
        /\ \A i \in 1 .. Len(z) : \A j \in 1 .. Size : Units(d, z)[Place(Size, i, j)] = d[z[i]][j]
    BY <1>5, <1>7, ClusterUnits
  <2> QED
    BY <1>3, <2>1, <2>2
<1>10. ASSUME NEW k \in 1 .. Size * n PROVE Units(d, z)[k] = Units(d, s)[k]
  <2>1. k \in 1 .. Size * (n + 1)
    BY <1>7, <1>8
  <2>2. Nth(Size, k) \in 1 .. n /\ Units(d, s)[k] = d[s[Nth(Size, k)]][Within(Size, k)]
    BY <1>7, ClusterUnits DEF n
  <2> QED
    BY <1>3, <1>9, <2>1, <2>2
<1>11. ASSUME NEW j \in 1 .. Size PROVE Units(d, z)[Size * n + j] = d[c][j]
  BY <1>2, <1>9, (n + 1) - 1 = n DEF Place
<1> QED
  BY <1>5, <1>6, <1>8, <1>9, <1>10, <1>11 DEF z, n

(* A sequence of different clusters is no longer than there are clusters.  *)
LEMMA ShortEnough ==
  ASSUME NEW s \in Seq(Clusters), Distinct(s)
  PROVE  Len(s) <= Cardinality(Clusters)
<1> DEFINE n == Len(s)
           I == 1 .. n
<1>1. n \in Nat /\ s \in [I -> Clusters] /\ DOMAIN s = I
  OBVIOUS
<1>2. IsFiniteSet(I) /\ Cardinality(I) = n
  <2>1. 1 \in Int /\ n \in Int
    BY <1>1
  <2> HIDE DEF n
  <2>2. IsFiniteSet(1 .. n) /\ Cardinality(1 .. n) = IF 1 > n THEN 0 ELSE n - 1 + 1
    BY <2>1, FS_Interval
  <2> QED
    BY <1>1, <2>2
<1> HIDE DEF n, I
<1>3. s \in Injection(I, Clusters)
  BY <1>1 DEF Injection, IsInjective, Distinct
<1>4. Cardinality(I) <= Cardinality(Clusters)
  BY <1>3, ConstantFacts, FS_Injection
<1> QED
  BY <1>2, <1>4 DEF n

(* The root folder has its own area.                                       *)
LEMMA ChainOfRoot == \A t : Chain(t, Root) = <<Root>>
BY DEF Chain

(* What Chain follows in the table is the chain that the table holds.      *)
LEMMA ChainIs ==
  ASSUME NEW t \in TableType, NEW s, IsChain(t, s)
  PROVE  Chain(t, s[1]) = s /\ Shaped(s) /\ s # <<Root>>
<1> DEFINE L == Len(s)
           N == Cardinality(Clusters)
           c == s[1]
<1>1. /\ s \in Seq(Clusters) /\ s # <<>> /\ Distinct(s)
      /\ \A i \in 1 .. Len(s) - 1 : t[s[i]] = s[i + 1]
      /\ t[s[Len(s)]] = EOC
  BY DEF IsChain
<1>2. /\ L \in Nat /\ L > 0 /\ N \in Nat /\ N > 0 /\ L <= N
      /\ \A i \in 1 .. L : s[i] \in Clusters
      /\ c \in Clusters /\ c # Root
  BY <1>1, ConstantFacts, ShortEnough
<1> HIDE DEF L, N, c
<1> DEFINE Short(n) == SubSeq(s, 1, n)
<1>3. \A n \in 1 .. L : /\ Short(n) \in Seq(Clusters) /\ Len(Short(n)) = n
                        /\ \A i \in 1 .. n : Short(n)[i] = s[i]
  <2> TAKE n \in 1 .. L
  <2>1. \A i \in 1 .. n : s[i] \in Clusters
    BY <1>2
  <2>2. 1 \in Int /\ n \in Int /\ 1 <= n /\ n - 1 + 1 = n
    BY <1>2
  <2>3. /\ SubSeq(s, 1, n) \in Seq(Clusters) /\ Len(SubSeq(s, 1, n)) = n - 1 + 1
        /\ \A i \in 1 .. n - 1 + 1 : SubSeq(s, 1, n)[i] = s[1 + i - 1]
    BY <2>1, <2>2, SubSeqProperties
  <2> QED
    BY <2>2, <2>3
<1>4. Short(1) = <<c>>
  <2>1. Short(1) \in Seq(Clusters) /\ Len(Short(1)) = 1 /\ Short(1)[1] = c
    BY <1>2, <1>3 DEF c
  <2> HIDE DEF Short
  <2> QED
    BY <2>1
<1>5. Short(L) = s
  BY <1>1, <1>2, SubSeqFull DEF L
<1> HIDE DEF Short
<1>6. ASSUME NEW n \in 1 .. L - 1 PROVE Followed(t, Short(n)) = Short(n + 1)
  <2>1. n \in 1 .. L /\ n + 1 \in 1 .. L
    BY <1>2
  <2>2. Last(Short(n)) = s[n]
    BY <1>3, <2>1 DEF Last
  <2>3. t[s[n]] = s[n + 1] /\ s[n + 1] \in Clusters
    BY <1>1, <1>2, <2>1 DEF L
  <2>4. Followed(t, Short(n)) = Append(Short(n), s[n + 1])
    BY <2>2, <2>3 DEF Followed
  <2>5. Append(Short(n), s[n + 1]) = Short(n + 1)
    <3>1. /\ Append(Short(n), s[n + 1]) \in Seq(Clusters) /\ Len(Append(Short(n), s[n + 1])) = n + 1
          /\ \A i \in 1 .. n : Append(Short(n), s[n + 1])[i] = s[i]
          /\ Append(Short(n), s[n + 1])[n + 1] = s[n + 1]
      BY <1>3, <2>1, <2>3, AppendProperties
    <3>2. \A i \in 1 .. n + 1 : Append(Short(n), s[n + 1])[i] = Short(n + 1)[i]
      BY <1>3, <2>1, <3>1
    <3> QED
      BY <1>3, <2>1, <3>1, <3>2, SeqEqual
  <2> QED
    BY <2>4, <2>5
<1>7. Followed(t, Short(L)) = Short(L)
  <2>1. Last(Short(L)) = s[L]
    BY <1>2, <1>3 DEF Last
  <2> QED
    BY <1>1, <2>1, ConstantFacts DEF Followed, L
<1> DEFINE Least2(n) == IF n + 1 < L THEN n + 1 ELSE L
           g == [n \in Nat |-> Short(Least2(n))]
           F(f) == [n \in Nat |-> IF n = 0 THEN <<c>>
                                  ELSE The({Followed(t, x) : x \in {f[n - 1]}})]
           follow == CHOOSE f : f = F(f)
<1>8. ASSUME NEW f, NEW n \in Nat
      PROVE  F(f)[n] = IF n = 0 THEN <<c>> ELSE Followed(t, f[n - 1])
  <2>1. {Followed(t, x) : x \in {f[n - 1]}} = {Followed(t, f[n - 1])}
    OBVIOUS
  <2>2. The({Followed(t, x) : x \in {f[n - 1]}}) = Followed(t, f[n - 1])
    BY <2>1, The_
  <2> QED
    BY <2>2
<1>9. g = F(g)
  <2> SUFFICES ASSUME NEW n \in Nat
               PROVE  g[n] = IF n = 0 THEN <<c>> ELSE Followed(t, g[n - 1])
    <3>1. ASSUME NEW n \in Nat PROVE F(g)[n] = g[n]
      <4> HIDE DEF g, F
      <4> QED
        BY <1>8
    <3>2. DOMAIN g = Nat /\ DOMAIN F(g) = Nat /\ g = [n \in Nat |-> g[n]] /\ F(g) = [n \in Nat |-> F(g)[n]]
      OBVIOUS
    <3> QED
      BY <3>1, <3>2
  <2>1. CASE n = 0
    <3>1. g[n] = Short(1)
      BY <1>2, <2>1
    <3> QED
      BY <1>4, <2>1, <3>1
  <2>2. CASE n # 0 /\ n < L
    <3>1. n - 1 \in Nat /\ g[n - 1] = Short(n) /\ g[n] = Short(n + 1) /\ n \in 1 .. L - 1
      BY <1>2, <2>2
    <3> QED
      BY <1>6, <2>2, <3>1
  <2>3. CASE n # 0 /\ n >= L
    <3>1. n - 1 \in Nat /\ g[n - 1] = Short(L) /\ g[n] = Short(L)
      BY <1>2, <2>3
    <3> QED
      BY <1>7, <2>3, <3>1
  <2> QED
    BY <1>2, <2>1, <2>2, <2>3
<1>10. follow = F(follow)
  <2> HIDE DEF g, F
  <2> QED
    BY <1>9
<1> HIDE DEF follow
<1>11. follow[0] = <<c>> /\ \A n \in Nat : follow[n + 1] = Followed(t, follow[n])
  <2>1. ASSUME NEW n \in Nat PROVE n + 1 \in Nat /\ n + 1 # 0 /\ (n + 1) - 1 = n
    OBVIOUS
  <2>2. \A n \in Nat : follow[n] = IF n = 0 THEN <<c>> ELSE Followed(t, follow[n - 1])
    <3> HIDE DEF F
    <3> QED
      BY <1>8, <1>10
  <2> HIDE DEF F
  <2> QED
    BY <2>1, <2>2
<1>12. g[0] = <<c>> /\ \A n \in Nat : g[n + 1] = Followed(t, g[n])
  <2>1. ASSUME NEW n \in Nat PROVE n + 1 \in Nat /\ n + 1 # 0 /\ (n + 1) - 1 = n
    OBVIOUS
  <2>2. \A n \in Nat : g[n] = IF n = 0 THEN <<c>> ELSE Followed(t, g[n - 1])
    <3> HIDE DEF F, g
    <3> QED
      BY <1>8, <1>9
  <2> HIDE DEF F, g
  <2> QED
    BY <2>1, <2>2
<1>13. g[N - 1] = s
  BY <1>2, <1>5
<1> HIDE DEF F, g
<1>14. \A n \in 0 .. N - 1 : follow[n] = g[n]
  <2>1. N - 1 \in Nat
    BY <1>2
  <2> QED
    BY <1>11, <1>12, <2>1, SameUpTo
<1>15. Chain(t, c) = follow[N - 1]
  BY <1>2 DEF Chain, follow, F, N
<1>16. Shaped(s) /\ s # <<Root>>
  <2>1. \A i \in 1 .. Len(s) : s[i] # Root
    BY <1>2, ConstantFacts DEF L
  <2> QED
    BY <1>1, <2>1 DEF Shaped
<1> QED
  BY <1>2, <1>13, <1>14, <1>15, <1>16 DEF c

(* A stretch of a sequence that is a stretch of another one.               *)
LEMMA SameStretch ==
  ASSUME NEW S, NEW x \in Seq(S), NEW u \in Seq(S), NEW b \in Nat, NEW p \in Nat, NEW q \in Nat,
         p > 0, q <= Len(x), b + q <= Len(u), \A j \in p .. q : x[j] = u[b + j]
  PROVE  SubSeq(x, p, q) = SubSeq(u, b + p, b + q)
<1>1. Len(x) \in Nat /\ Len(u) \in Nat
  OBVIOUS
<1>2. \A i \in p .. q : x[i] \in S
  BY <1>1, ElementOfSeq
<1>3. \A i \in b + p .. b + q : u[i] \in S
  BY <1>1, ElementOfSeq
<1>4. /\ SubSeq(x, p, q) \in Seq(S) /\ Len(SubSeq(x, p, q)) = IF p <= q THEN q - p + 1 ELSE 0
      /\ \A i \in 1 .. q - p + 1 : SubSeq(x, p, q)[i] = x[p + i - 1]
  BY <1>2, SubSeqProperties
<1>5. b + p \in Int /\ b + q \in Int
  OBVIOUS
<1>6. /\ SubSeq(u, b + p, b + q) \in Seq(S)
      /\ Len(SubSeq(u, b + p, b + q)) = IF b + p <= b + q THEN (b + q) - (b + p) + 1 ELSE 0
      /\ \A i \in 1 .. (b + q) - (b + p) + 1 : SubSeq(u, b + p, b + q)[i] = u[(b + p) + i - 1]
  BY <1>3, <1>5, SubSeqProperties
<1>7. (b + q) - (b + p) + 1 = q - p + 1 /\ (b + p <= b + q <=> p <= q)
  OBVIOUS
<1>8. ASSUME NEW i \in 1 .. q - p + 1 PROVE x[p + i - 1] = u[(b + p) + i - 1]
  <2>1. p + i - 1 \in p .. q /\ (b + p) + i - 1 = b + (p + i - 1)
    OBVIOUS
  <2> QED
    BY <2>1
<1> DEFINE y == SubSeq(x, p, q)
           z == SubSeq(u, b + p, b + q)
<1>9. Len(y) = Len(z) /\ Len(y) = IF p <= q THEN q - p + 1 ELSE 0
  BY <1>4, <1>6, <1>7
<1>10. \A i \in 1 .. Len(y) : y[i] = z[i]
  BY <1>4, <1>6, <1>7, <1>8, <1>9
<1> HIDE DEF y, z
<1>11. y \in Seq(S) /\ z \in Seq(S)
  BY <1>4, <1>6 DEF y, z
<1>12. y = z
  BY <1>9, <1>10, <1>11, SeqEqual
<1> QED
  BY <1>12 DEF y, z

(* How far a cluster is used: up to its first blank unit.                  *)
LEMMA UsedIs ==
  ASSUME NEW S, NEW x \in Seq(S), NEW m \in 0 .. Len(x),
         \A j \in 1 .. m : x[j] # Blank, m < Len(x) => x[m + 1] = Blank
  PROVE  Used(x) = m
<1> DEFINE B == {i \in 1 .. Len(x) : x[i] = Blank} \cup {Len(x) + 1}
<1>1. Len(x) \in Nat /\ m \in Nat
  OBVIOUS
<1>2. B \subseteq Nat /\ B # {} /\ m + 1 \in B /\ \A k \in B : k >= m + 1
  BY <1>1
<1> HIDE DEF B
<1>3. Min(B) \in B /\ \A k \in B : Min(B) <= k
  BY <1>2, MinFacts
<1>4. Min(B) = m + 1
  <2>1. Min(B) \in Nat /\ Min(B) <= m + 1
    BY <1>2, <1>3
  <2>2. Min(B) >= m + 1
    BY <1>2, <1>3
  <2> QED
    BY <1>1, <2>1, <2>2
<1> QED
  BY <1>1, <1>4 DEF Used, B

(* The first n units of the chain s are in use, the others are blank.      *)
Filled(d, s, n) ==
  /\ n \in 0 .. Len(Units(d, s))
  /\ \A k \in 1 .. n : Units(d, s)[k] # Blank
  /\ \A k \in n + 1 .. Len(Units(d, s)) : Units(d, s)[k] = Blank

(* What a folder lists in one cluster is a stretch of its units.           *)
LEMMA ItemsOfFilled ==
  ASSUME NEW d \in DiskType, NEW s, Shaped(s), NEW n, Filled(d, s, n), NEW i \in 1 .. Len(s)
  PROVE  LET w == Width(s[1])
             b == w * (i - 1)
             q == IF n <= b THEN 0 ELSE IF n >= b + w THEN w ELSE n - b
             p == IF i = 1 THEN Header(s[1]) + 1 ELSE 1
         IN ItemsOf(d, s, i) = SubSeq(Units(d, s), b + p, b + q)
<1> DEFINE w == Width(s[1])
           b == w * (i - 1)
           q == IF n <= b THEN 0 ELSE IF n >= b + w THEN w ELSE n - b
           p == IF i = 1 THEN Header(s[1]) + 1 ELSE 1
           U == Units(d, s)
           x == d[s[i]]
<1>1. w \in Nat /\ w > 0 /\ Len(s) \in Nat /\ x \in Seq(Unit) /\ Len(x) = w /\ p \in Nat /\ p > 0
  BY ShapedFacts
<1>2. Len(U) = w * Len(s) /\ U \in Seq(Unit) /\ \A j \in 1 .. w : U[Place(w, i, j)] = x[j] /\ Place(w, i, j) \in 1 .. w * Len(s)
  BY UnitsFacts
<1>3. n \in 0 .. Len(U) /\ (\A k \in 1 .. n : U[k] # Blank) /\ \A k \in n + 1 .. Len(U) : U[k] = Blank
  BY DEF Filled
<1>4. ItemsOf(d, s, i) = SubSeq(x, p, Used(x))
  BY DEF ItemsOf
<1> HIDE DEF x, U, p, w
<1>5. b \in Nat /\ b + w <= w * Len(s) /\ w * Len(s) \in Nat
  BY <1>1
<1>6. \A j \in 1 .. w : Place(w, i, j) = b + j
  BY DEF Place
<1> HIDE DEF b
<1>7. q \in 0 .. w /\ (q < w => n <= b + q) /\ (q > 0 => n >= b + q) /\ b + q <= w * Len(s)
  BY <1>1, <1>2, <1>3, <1>5
<1> HIDE DEF q
<1>8. \A j \in 1 .. w : x[j] = U[b + j]
  BY <1>2, <1>6
<1>9. \A j \in 1 .. q : x[j] # Blank
  <2> TAKE j \in 1 .. q
  <2>1. j \in 1 .. w /\ b + j \in 1 .. n
    BY <1>1, <1>2, <1>3, <1>5, <1>7
  <2> QED
    BY <1>3, <1>8, <2>1
<1>10. q < Len(x) => x[q + 1] = Blank
  <2> SUFFICES ASSUME q < Len(x) PROVE x[q + 1] = Blank
    OBVIOUS
  <2>1. q + 1 \in 1 .. w /\ b + (q + 1) \in n + 1 .. Len(U)
    BY <1>1, <1>2, <1>3, <1>5, <1>7
  <2> QED
    BY <1>3, <1>8, <2>1
<1>11. Used(x) = q
  <2>1. q \in 0 .. Len(x)
    BY <1>1, <1>7
  <2> QED
    BY <1>1, <1>9, <1>10, <2>1, UsedIs
<1>12. SubSeq(x, p, q) = SubSeq(U, b + p, b + q)
  <2>1. \A j \in p .. q : x[j] = U[b + j]
    BY <1>1, <1>7, <1>8
  <2>2. q \in Nat /\ q <= Len(x) /\ b + q <= Len(U)
    BY <1>1, <1>2, <1>7
  <2> QED
    BY <1>1, <1>2, <1>5, <2>1, <2>2, SameStretch
<1> QED
  BY <1>4, <1>11, <1>12 DEF U, b, p, q, w

(* What a folder lists are its units behind the header, up to the blank.   *)
LEMMA ItemsInFilled ==
  ASSUME NEW d \in DiskType, NEW s, Shaped(s), NEW n, Filled(d, s, n)
  PROVE  ItemsIn(d, s) = SubSeq(Units(d, s), Header(s[1]) + 1, n)
<1> DEFINE w == Width(s[1])
           h == Header(s[1])
           L == Len(s)
           U == Units(d, s)
<1>1. /\ w \in Nat /\ w > 0 /\ L \in Nat /\ L > 0 /\ h \in Nat /\ h > 0 /\ h <= w
  BY ShapedFacts
<1>2. Len(U) = w * L /\ U \in Seq(Unit) /\ w * L \in Nat /\ Len(U) \in Nat
  BY UnitsFacts
<1>3. n \in 0 .. Len(U) /\ n \in Nat
  BY DEF Filled
<1> DEFINE e(i) == IF n <= w * i THEN n ELSE w * i
           q(i) == IF n <= w * (i - 1) THEN 0
                   ELSE IF n >= w * (i - 1) + w THEN w ELSE n - w * (i - 1)
<1>4. ASSUME NEW i \in 1 .. L
      PROVE  ItemsOf(d, s, i) =
               SubSeq(U, w * (i - 1) + (IF i = 1 THEN h + 1 ELSE 1), w * (i - 1) + q(i))
  BY ItemsOfFilled
<1> HIDE DEF w, h, L, U
<1>5. ASSUME NEW i \in 1 .. L
      PROVE  SubSeq(U, h + 1, e(i - 1)) \o ItemsOf(d, s, i) = SubSeq(U, h + 1, e(i))
  <2> DEFINE b == w * (i - 1)
             x == ItemsOf(d, s, i)
             y == SubSeq(U, h + 1, e(i))
  <2>1. i \in Nat /\ i - 1 \in Nat /\ b \in Nat /\ w * i = b + w /\ b + w <= w * L
    BY <1>1
  <2>2. x = SubSeq(U, b + (IF i = 1 THEN h + 1 ELSE 1), b + q(i))
    BY <1>4
  <2>3. e(i) = IF n <= b + w THEN n ELSE b + w
    BY <2>1
  <2>4. e(i - 1) = (IF n <= b THEN n ELSE b) /\ q(i) = IF n <= b THEN 0 ELSE IF n >= b + w THEN w ELSE n - b
    OBVIOUS
  <2>5. i # 1 => b >= w
    BY <1>1, <2>1
  <2>6. i = 1 => b = 0
    BY <1>1
  <2> HIDE DEF b, x
  <2> DEFINE ee == e(i)
             ee1 == e(i - 1)
             qq == q(i)
  <2> HIDE DEF ee, ee1, qq
  <2>7. ee \in 0 .. Len(U) /\ ee1 \in 0 .. Len(U) /\ qq \in 0 .. w
    BY <1>1, <1>2, <1>3, <2>1, <2>3, <2>4 DEF ee, ee1, qq
  <2>8. CASE i = 1
    <3>1. ee1 = 0 /\ ee = qq
      BY <1>1, <1>3, <2>1, <2>3, <2>4, <2>6, <2>8 DEF ee, ee1, qq
    <3>2. SubSeq(U, h + 1, ee1) = <<>>
      BY <1>1, <3>1, SubSeqEmpty
    <3>3. x = SubSeq(U, h + 1, ee)
      BY <1>1, <2>2, <2>6, <2>8, <3>1, <2>7, b + (h + 1) = h + 1, b + qq = qq DEF qq
    <3>4. SubSeq(U, h + 1, ee) \in Seq(Unit)
      <4>1. \A j \in h + 1 .. ee : U[j] \in Unit
        BY <1>1, <1>2, <2>7, ElementOfSeq
      <4> QED
        BY <1>1, <2>7, <4>1, SubSeqProperties
    <3>5. <<>> \o SubSeq(U, h + 1, ee) = SubSeq(U, h + 1, ee)
      BY <3>4, ConcatEmptySeq
    <3> QED
      BY <3>2, <3>3, <3>5 DEF ee, ee1, x
  <2>9. CASE i # 1 /\ n <= b
    <3>1. ee1 = n /\ ee = n /\ qq = 0
      BY <1>1, <1>3, <2>1, <2>3, <2>4, <2>9 DEF ee, ee1, qq
    <3>2. x = <<>>
      BY <2>1, <2>2, <2>9, <3>1, SubSeqEmpty DEF qq
    <3>3. SubSeq(U, h + 1, n) \in Seq(Unit)
      <4>1. \A j \in h + 1 .. n : U[j] \in Unit
        BY <1>1, <1>2, <1>3, ElementOfSeq
      <4> QED
        BY <1>1, <1>3, <4>1, SubSeqProperties
    <3>4. SubSeq(U, h + 1, n) \o <<>> = SubSeq(U, h + 1, n)
      BY <3>3, ConcatEmptySeq
    <3> QED
      BY <3>1, <3>2, <3>4 DEF ee, ee1, x
  <2>10. CASE i # 1 /\ n > b
    <3>1. ee1 = b /\ ee = b + qq /\ ee >= b
      BY <1>1, <1>3, <2>1, <2>3, <2>4, <2>10 DEF ee, ee1, qq
    <3>2. x = SubSeq(U, b + 1, ee)
      BY <2>2, <2>10, <3>1 DEF qq
    <3> DEFINE m == h + 1
    <3>3. m \in 1 .. Len(U) + 1 /\ b \in m - 1 .. Len(U) /\ ee \in b .. Len(U)
      BY <1>1, <1>2, <2>1, <2>5, <2>7, <2>10, <3>1
    <3> HIDE DEF m
    <3>5. SubSeq(U, m, b) \o SubSeq(U, b + 1, ee) = SubSeq(U, m, ee)
      BY <1>2, <3>3, ConcatAdjacentSubSeq
    <3>4. SubSeq(U, h + 1, b) \o SubSeq(U, b + 1, ee) = SubSeq(U, h + 1, ee)
      BY <3>5 DEF m
    <3> QED
      BY <3>1, <3>2, <3>4 DEF ee, ee1, x
  <2>11. n <= b \/ n > b
    BY <1>3, <2>1
  <2> HIDE DEF e
  <2> QED
    BY <2>8, <2>9, <2>10, <2>11
<1> DEFINE F(f) == [i \in 0 .. L |-> IF i = 0 THEN <<>> ELSE f[i - 1] \o ItemsOf(d, s, i)]
           upTo == CHOOSE f : f = F(f)
           g == [i \in 0 .. L |-> SubSeq(U, h + 1, e(i))]
<1>6. SubSeq(U, h + 1, e(0)) = <<>>
  <2>1. e(0) = 0
    BY <1>1, <1>3
  <2> QED
    BY <1>1, <2>1, SubSeqEmpty
<1>7. g = F(g)
  <2> SUFFICES ASSUME NEW i \in 0 .. L PROVE F(g)[i] = g[i]
    OBVIOUS
  <2>1. CASE i = 0
    BY <1>6, <2>1
  <2>2. CASE i # 0
    <3>1. i \in 1 .. L /\ i - 1 \in 0 .. L
      BY <1>1, <2>2
    <3> HIDE DEF e
    <3> QED
      BY <1>5, <2>2, <3>1
  <2> QED
    BY <2>1, <2>2
<1>8. upTo = F(upTo)
  <2> HIDE DEF g, F
  <2> QED
    BY <1>7
<1>9. ASSUME NEW f, f = F(f)
      PROVE  f[0] = <<>> /\ \A i \in Nat : i < L => f[i + 1] = f[i] \o ItemsOf(d, s, i + 1)
  <2>1. \A i \in 0 .. L : f[i] = IF i = 0 THEN <<>> ELSE f[i - 1] \o ItemsOf(d, s, i)
    BY <1>9
  <2>2. ASSUME NEW i \in Nat, i < L PROVE i + 1 \in 0 .. L /\ i + 1 # 0 /\ (i + 1) - 1 = i
    BY <1>1, <2>2
  <2> HIDE DEF F
  <2>3. f[0] = <<>>
    BY <1>1, <2>1
  <2>4. \A i \in Nat : i < L => f[i + 1] = f[i] \o ItemsOf(d, s, i + 1)
    BY <2>1, <2>2
  <2> QED
    BY <2>3, <2>4
<1> HIDE DEF g, F, upTo, e, q
<1>10. \A i \in 0 .. L : upTo[i] = g[i]
  <2>1. upTo[0] = <<>> /\ \A i \in Nat : i < L => upTo[i + 1] = upTo[i] \o ItemsOf(d, s, i + 1)
    BY <1>8, <1>9
  <2>2. g[0] = <<>> /\ \A i \in Nat : i < L => g[i + 1] = g[i] \o ItemsOf(d, s, i + 1)
    BY <1>7, <1>9
  <2>3. \A i \in Nat : i < L /\ upTo[i] = g[i] => upTo[i + 1] = g[i + 1]
    BY <2>1, <2>2
  <2> QED
    BY <1>1, <2>1, <2>2, <2>3, SameUpTo
<1>11. ItemsIn(d, s) = upTo[L]
  BY DEF ItemsIn, upTo, F, L
<1>12. g[L] = SubSeq(U, h + 1, n)
  <2>1. e(L) = n
    BY <1>2, <1>3 DEF e
  <2>2. L \in 0 .. L
    BY <1>1
  <2> QED
    BY <2>1, <2>2 DEF g
<1>13. L \in 0 .. L
  BY <1>1
<1> QED
  BY <1>10, <1>11, <1>12, <1>13 DEF U, h

(* g is the run of the step function F from v, up to n.                   *)
Runs(n, g, v, F) == g[0] = v /\ \A i \in 0 .. n - 1 : g[i + 1] = F[i][g[i]]

(* One more step of a recursion.                                           *)
LEMMA RunLonger ==
  ASSUME NEW V, NEW v \in V, NEW F \in [Nat -> [V -> V]], NEW n \in Nat,
         NEW g \in [0 .. n -> V], Runs(n, g, v, F)
  PROVE  \E h \in [0 .. n + 1 -> V] : Runs(n + 1, h, v, F)
<1> DEFINE h == [i \in 0 .. n + 1 |-> IF i <= n THEN g[i] ELSE F[n][g[n]]]
<1>1. n \in 0 .. n /\ 0 \in 0 .. n + 1 /\ n + 1 \in 0 .. n + 1 /\ n + 1 \in Nat
  OBVIOUS
<1>2. g[n] \in V /\ F[n][g[n]] \in V
  BY <1>1
<1>3. h \in [0 .. n + 1 -> V]
  <2>1. ASSUME NEW i \in 0 .. n + 1, i <= n PROVE g[i] \in V
    <3>1. i \in 0 .. n
      BY <2>1
    <3> QED
      BY <3>1
  <2> QED
    BY <1>2, <2>1
<1>4. \A i \in 0 .. n : h[i] = g[i]
  OBVIOUS
<1>5. h[n + 1] = F[n][g[n]]
  OBVIOUS
<1> HIDE DEF h
<1>6. h[0] = v
  BY <1>4 DEF Runs
<1>7. ASSUME NEW i \in 0 .. (n + 1) - 1 PROVE h[i + 1] = F[i][h[i]]
  <2>1. CASE i = n
    BY <1>1, <1>4, <1>5, <2>1
  <2>2. CASE i # n
    <3>1. i \in 0 .. n - 1 /\ i \in 0 .. n /\ i + 1 \in 0 .. n
      BY <2>2
    <3> QED
      BY <1>4, <3>1 DEF Runs
  <2> QED
    BY <2>1, <2>2
<1> QED
  BY <1>3, <1>6, <1>7 DEF Runs

(* The run without an end.                                                *)
RunsOn(g, v, F) == g[0] = v /\ \A n \in Nat : g[n + 1] = F[n][g[n]]

(* A recursion over the numbers has a function.                            *)
LEMMA Recursion ==
  ASSUME NEW V, NEW v \in V, NEW F \in [Nat -> [V -> V]]
  PROVE  \E g \in [Nat -> V] : RunsOn(g, v, F)
<1> DEFINE S == {n \in Nat : \E g \in [0 .. n -> V] : Runs(n, g, v, F)}
<1>1. 0 \in S
  <2>1. [i \in 0 .. 0 |-> v] \in [0 .. 0 -> V] /\ Runs(0, [i \in 0 .. 0 |-> v], v, F)
    BY DEF Runs
  <2> QED BY <2>1
<1>2. ASSUME NEW n \in S PROVE n + 1 \in S
  <2>1. n \in Nat /\ \E g \in [0 .. n -> V] : Runs(n, g, v, F)
    OBVIOUS
  <2> HIDE DEF S
  <2>3. PICK g \in [0 .. n -> V] : Runs(n, g, v, F)
    BY <2>1
  <2>2. n + 1 \in Nat /\ \E h \in [0 .. n + 1 -> V] : Runs(n + 1, h, v, F)
    <3>1. n \in Nat
      BY <2>1
    <3>2. \E h \in [0 .. n + 1 -> V] : Runs(n + 1, h, v, F)
      BY <2>3, <3>1, RunLonger, Zenon
    <3> QED
      BY <3>1, <3>2
  <2> USE DEF S
  <2> QED
    BY <2>2
<1>3. S = Nat
  <2>1. S \subseteq Nat
    OBVIOUS
  <2> HIDE DEF S
  <2> QED
    BY <1>1, <1>2, <2>1, SetInduction
<1>4. \A n \in Nat : \E g \in [0 .. n -> V] : Runs(n, g, v, F)
  BY <1>3
<1> DEFINE G(n) == CHOOSE g \in [0 .. n -> V] : Runs(n, g, v, F)
<1>5. \A n \in Nat : G(n) \in [0 .. n -> V] /\ Runs(n, G(n), v, F)
  BY <1>4
<1> HIDE DEF G
<1>6. \A n \in Nat : G(n + 1)[n] = G(n)[n]
  <2> SUFFICES ASSUME NEW n \in Nat PROVE G(n + 1)[n] = G(n)[n]
    OBVIOUS
  <2> DEFINE E == {k \in Nat : k <= n => G(n + 1)[k] = G(n)[k]}
  <2>0. Runs(n, G(n), v, F) /\ Runs(n + 1, G(n + 1), v, F)
    BY <1>5
  <2>1. 0 \in E
    BY <2>0 DEF Runs
  <2>2. ASSUME NEW k \in E PROVE k + 1 \in E
    <3>1. k \in Nat /\ (k <= n => G(n + 1)[k] = G(n)[k])
      OBVIOUS
    <3>2. ASSUME k + 1 <= n PROVE G(n + 1)[k + 1] = G(n)[k + 1]
      <4>1. k \in 0 .. n - 1 /\ k \in 0 .. (n + 1) - 1
        BY <3>1, <3>2
      <4> QED BY <2>0, <3>1, <3>2, <4>1 DEF Runs
    <3> QED BY <3>1, <3>2
  <2>3. E = Nat
    <3>1. E \subseteq Nat
      OBVIOUS
    <3> HIDE DEF E
    <3> QED BY <2>1, <2>2, <3>1, SetInduction
  <2> QED
    BY <2>3
<1> DEFINE f == [n \in Nat |-> G(n)[n]]
<1>7. f \in [Nat -> V]
  BY <1>5
<1>8. f[0] = v
  BY <1>5 DEF Runs
<1>9. \A n \in Nat : f[n + 1] = F[n][f[n]]
  <2> SUFFICES ASSUME NEW n \in Nat PROVE f[n + 1] = F[n][f[n]]
    OBVIOUS
  <2>1. G(n + 1)[n + 1] = F[n][G(n + 1)[n]]
    BY <1>5 DEF Runs
  <2> QED BY <1>6, <2>1
<1> QED
  BY <1>7, <1>8, <1>9 DEF RunsOn

(* The same with the quantifiers inside.                                   *)
LEMMA RecursionFor ==
  \A V : \A v \in V : \A F \in [Nat -> [V -> V]] : \E g \in [Nat -> V] : RunsOn(g, v, F)
BY Recursion, Zenon

(* The units that a file is made of.                                       *)
Piece == {u \in Unit : u.kind \in {"blank", "data"}}

(* What a file lists, when it is read as a folder, are no entries.         *)
LEMMA ItemsInFile ==
  ASSUME NEW d \in DiskType, NEW s, Shaped(s), s # <<Root>>,
         \A i \in 1 .. Len(s) : NoEntries(d, s[i])
  PROVE  ItemsIn(d, s) \in Seq(Piece)
<1> DEFINE L == Len(s)
           h == Header(s[1])
<1>1. /\ L \in Nat /\ L > 0 /\ h \in Nat /\ h > 0
      /\ \A i \in 1 .. L : d[s[i]] \in Seq(Unit) /\ Len(d[s[i]]) = Size
      /\ Size \in Nat
  <2>1. /\ L \in Nat /\ L > 0 /\ h \in Nat /\ h > 0
        /\ \A i \in 1 .. L : d[s[i]] \in Seq(Unit) /\ Len(d[s[i]]) = Width(s[1])
    BY ShapedFacts
  <2>2. Width(s[1]) = Size
    BY ClusterUnits
  <2> QED
    BY <2>1, <2>2, ConstantFacts
<1>2. ASSUME NEW i \in 1 .. L PROVE ItemsOf(d, s, i) \in Seq(Piece)
  <2> DEFINE x == d[s[i]]
             B == {j \in 1 .. Len(x) : x[j] = Blank} \cup {Len(x) + 1}
             p == IF i = 1 THEN h + 1 ELSE 1
  <2>1. x \in Seq(Unit) /\ Len(x) = Size
    BY <1>1
  <2>2. \A j \in 1 .. Size : x[j].kind \in {"blank", "data"}
    BY DEF NoEntries
  <2> HIDE DEF x
  <2>3. B \subseteq Nat /\ B # {} /\ \A k \in B : k \in 1 .. Size + 1
    BY <1>1, <2>1
  <2>4. Min(B) \in B
    <3> HIDE DEF B
    <3> QED
      BY <2>3, MinFacts
  <2>5. Used(x) = Min(B) - 1
    BY DEF Used
  <2> HIDE DEF B
  <2>6. Used(x) \in 0 .. Size
    <3>1. Min(B) \in 1 .. Size + 1
      BY <2>3, <2>4
    <3> QED
      BY <1>1, <2>5, <3>1
  <2>7. \A j \in p .. Used(x) : x[j] \in Piece
    <3> TAKE j \in p .. Used(x)
    <3>1. j \in 1 .. Size
      BY <1>1, <2>6
    <3> QED
      BY <2>1, <2>2, <3>1, ElementOfSeq DEF Piece
  <2>8. SubSeq(x, p, Used(x)) \in Seq(Piece)
    BY <1>1, <2>6, <2>7, SubSeqProperties
  <2> QED
    BY <2>8 DEF ItemsOf, x
<1> DEFINE O(i) == ItemsOf(d, s, i)
           V == Seq(Piece)
           v == <<>>
           G == [i \in Nat |-> [y \in V |-> IF i < L THEN y \o O(i + 1) ELSE y]]
           F(f) == [i \in 0 .. L |-> IF i = 0 THEN <<>> ELSE f[i - 1] \o O(i)]
           upTo == CHOOSE f : f = F(f)
<1>3. \A i \in 1 .. L : O(i) \in V
  BY <1>2
<1> HIDE DEF O, L, h
<1>4. v \in V
  OBVIOUS
<1>5. G \in [Nat -> [V -> V]]
  <2>1. ASSUME NEW i \in Nat, NEW y \in V, i < L PROVE y \o O(i + 1) \in V
    <3>1. i + 1 \in 1 .. L
      BY <1>1, <2>1
    <3> QED
      BY <1>3, <3>1, ConcatProperties
  <2> HIDE DEF V
  <2> QED
    BY <2>1
<1>6. \E g \in [Nat -> V] : RunsOn(g, v, G)
  <2> HIDE DEF G, V, v
  <2> QED
    BY <1>4, <1>5, RecursionFor
<1>7. PICK g \in [Nat -> V] : RunsOn(g, v, G)
  BY <1>6
<1>8. g[0] = <<>> /\ \A i \in Nat : g[i] \in V /\ g[i + 1] = (IF i < L THEN g[i] \o O(i + 1) ELSE g[i])
  <2>1. \A i \in Nat : g[i] \in V
    BY <1>7
  <2>2. g[0] = v /\ \A i \in Nat : g[i + 1] = G[i][g[i]]
    BY <1>7 DEF RunsOn
  <2>3. \A i \in Nat : G[i][g[i]] = (IF i < L THEN g[i] \o O(i + 1) ELSE g[i])
    BY <2>1
  <2> QED
    BY <2>1, <2>2, <2>3
<1> DEFINE f0 == [i \in 0 .. L |-> g[i]]
<1>9. f0 = F(f0)
  <2> SUFFICES ASSUME NEW i \in 0 .. L PROVE F(f0)[i] = f0[i]
    OBVIOUS
  <2>1. CASE i = 0
    BY <1>8, <2>1
  <2>2. CASE i # 0
    <3>1. i - 1 \in Nat /\ i - 1 < L /\ (i - 1) + 1 = i /\ i - 1 \in 0 .. L
      BY <1>1, <2>2
    <3>2. g[(i - 1) + 1] = g[i - 1] \o O((i - 1) + 1)
      BY <1>8, <3>1
    <3> QED
      BY <2>2, <3>1, <3>2
  <2> QED
    BY <2>1, <2>2
<1>10. upTo = F(upTo)
  <2> HIDE DEF f0, F
  <2> QED
    BY <1>9
<1>11. ASSUME NEW f, f = F(f)
       PROVE  f[0] = <<>> /\ \A i \in Nat : i < L => f[i + 1] = f[i] \o O(i + 1)
  <2>1. \A i \in 0 .. L : f[i] = IF i = 0 THEN <<>> ELSE f[i - 1] \o O(i)
    BY <1>11
  <2>2. ASSUME NEW i \in Nat, i < L PROVE i + 1 \in 0 .. L /\ i + 1 # 0 /\ (i + 1) - 1 = i
    BY <1>1, <2>2
  <2> HIDE DEF F
  <2>3. f[0] = <<>>
    BY <1>1, <2>1
  <2>4. \A i \in Nat : i < L => f[i + 1] = f[i] \o O(i + 1)
    BY <2>1, <2>2
  <2> QED
    BY <2>3, <2>4
<1> HIDE DEF F, upTo
<1>12. upTo[0] = <<>> /\ \A i \in Nat : i < L => upTo[i + 1] = upTo[i] \o O(i + 1)
  BY <1>10, <1>11
<1>13. \A i \in Nat : i < L /\ upTo[i] = g[i] => upTo[i + 1] = g[i + 1]
  BY <1>8, <1>12
<1> HIDE DEF V, v, G
<1>14. \A i \in 0 .. L : upTo[i] = g[i]
  <2>1. upTo[0] = g[0] /\ L \in Nat
    BY <1>1, <1>8, <1>12
  <2> QED
    BY <1>13, <2>1, SameUpTo
<1>15. ItemsIn(d, s) = upTo[L]
  BY DEF ItemsIn, upTo, F, L, O
<1>16. L \in Nat /\ L \in 0 .. L /\ g[L] \in V
  BY <1>1, <1>8
<1> QED
  BY <1>14, <1>15, <1>16 DEF V

(***************************************************************************)
(* What the look-ups find in a table and on a disk that stand for a tree.  *)
(***************************************************************************)

(* A path is its front and its last name.                                  *)
LEMMA PathFacts ==
  ASSUME NEW p \in Seq(Names), p # <<>>
  PROVE  /\ Front(p) \in Seq(Names) /\ Last(p) \in Names /\ Append(Front(p), Last(p)) = p
         /\ Len(p) \in Nat /\ Len(p) > 0 /\ Len(Front(p)) = Len(p) - 1
         /\ Front(p) = SubSeq(p, 1, Len(p) - 1)
<1>1. Len(p) \in Nat /\ Len(p) > 0 /\ \A i \in 1 .. Len(p) : p[i] \in Names
  OBVIOUS
<1>2. 1 \in Int /\ Len(p) - 1 \in Int /\ \A i \in 1 .. Len(p) - 1 : p[i] \in Names
  BY <1>1
<1>3. /\ SubSeq(p, 1, Len(p) - 1) \in Seq(Names) /\ Len(SubSeq(p, 1, Len(p) - 1)) = Len(p) - 1
      /\ \A i \in 1 .. Len(p) - 1 : SubSeq(p, 1, Len(p) - 1)[i] = p[i]
  <2>1. /\ SubSeq(p, 1, Len(p) - 1) \in Seq(Names)
        /\ Len(SubSeq(p, 1, Len(p) - 1)) = IF 1 <= Len(p) - 1 THEN Len(p) - 1 - 1 + 1 ELSE 0
        /\ \A i \in 1 .. Len(p) - 1 - 1 + 1 : SubSeq(p, 1, Len(p) - 1)[i] = p[1 + i - 1]
    BY <1>2, SubSeqProperties
  <2>2. Len(p) - 1 - 1 + 1 = Len(p) - 1 /\ \A i \in 1 .. Len(p) - 1 : 1 + i - 1 = i
    BY <1>1
  <2> QED
    BY <1>1, <2>1, <2>2
<1>4. Front(p) = SubSeq(p, 1, Len(p) - 1) /\ Last(p) = p[Len(p)]
  BY DEF Front, Last
<1> DEFINE f == Front(p)
           l == Last(p)
<1>5. f \in Seq(Names) /\ Len(f) = Len(p) - 1 /\ \A i \in 1 .. Len(p) - 1 : f[i] = p[i]
  BY <1>3, <1>4
<1>6. l = p[Len(p)] /\ l \in Names
  BY <1>1, <1>4
<1> HIDE DEF f, l
<1>7. /\ Append(f, l) \in Seq(Names) /\ Len(Append(f, l)) = Len(f) + 1
      /\ \A i \in 1 .. Len(f) : Append(f, l)[i] = f[i]
      /\ Append(f, l)[Len(f) + 1] = l
  BY <1>5, <1>6, AppendProperties
<1>8. Len(Append(f, l)) = Len(p) /\ \A i \in 1 .. Len(p) : Append(f, l)[i] = p[i]
  BY <1>1, <1>5, <1>6, <1>7
<1>9. Append(f, l) = p
  BY <1>7, <1>8, SeqEqual
<1> QED
  BY <1>1, <1>4, <1>5, <1>6, <1>9 DEF f, l

(* A path and one more name.                                               *)
LEMMA ChildFacts ==
  ASSUME NEW p \in Seq(Names), NEW n \in Names
  PROVE  /\ Append(p, n) \in Seq(Names) /\ Append(p, n) # <<>> /\ Append(p, n) # p
         /\ Front(Append(p, n)) = p /\ Last(Append(p, n)) = n
         /\ Len(Append(p, n)) = Len(p) + 1
<1> DEFINE z == Append(p, n)
<1>1. z \in Seq(Names) /\ z # <<>> /\ Len(z) = Len(p) + 1 /\ Len(p) \in Nat /\ z[Len(p) + 1] = n
      /\ \A i \in 1 .. Len(p) : z[i] = p[i]
  BY AppendProperties
<1> HIDE DEF z
<1>2. /\ Front(z) \in Seq(Names) /\ Len(Front(z)) = Len(z) - 1 /\ Front(z) = SubSeq(z, 1, Len(z) - 1)
  BY <1>1, PathFacts
<1>3. \A i \in 1 .. Len(p) : Front(z)[i] = p[i]
  <2>1. Len(z) - 1 = Len(p)
    BY <1>1
  <2>2. \A i \in 1 .. Len(p) : z[i] \in Names
    BY <1>1
  <2>3. \A i \in 1 .. Len(p) - 1 + 1 : SubSeq(z, 1, Len(p))[i] = z[1 + i - 1]
    BY <1>1, <2>2, SubSeqProperties
  <2>4. \A i \in 1 .. Len(p) : i \in 1 .. Len(p) - 1 + 1 /\ 1 + i - 1 = i
    BY <1>1
  <2> QED
    BY <1>1, <1>2, <2>1, <2>3, <2>4
<1>4. Front(z) = p
  BY <1>1, <1>2, <1>3, SeqEqual, Len(z) - 1 = Len(p)
<1>5. Last(z) = n
  BY <1>1 DEF Last
<1>6. z # p
  BY <1>1
<1> QED
  BY <1>1, <1>4, <1>5, <1>6 DEF z

(* Paths are sequences of names, not longer than the bound.                *)
LEMMA PathsAreSeqs ==
  /\ \A p \in Paths : p \in Seq(Names) /\ p # <<>> /\ Len(p) \in 1 .. Depth
  /\ \A p \in Seq(Names) : p # <<>> /\ Len(p) <= Depth => p \in Paths
  /\ Depth \in Nat
<1>1. Depth \in Nat
  BY FatAssumption
<1>2. ASSUME NEW p \in Paths PROVE p \in Seq(Names) /\ p # <<>> /\ Len(p) \in 1 .. Depth
  <2>1. PICK n \in 1 .. Depth : p \in [1 .. n -> Names]
    BY DEF Paths
  <2>2. n \in Nat /\ n > 0
    BY <1>1, <2>1
  <2>3. p \in Seq(Names) /\ Len(p) = n
    BY <2>1, <2>2
  <2> QED
    BY <2>1, <2>2, <2>3
<1>3. ASSUME NEW p \in Seq(Names), p # <<>>, Len(p) <= Depth PROVE p \in Paths
  <2>1. Len(p) \in 1 .. Depth /\ p \in [1 .. Len(p) -> Names]
    BY <1>1, <1>3
  <2> QED
    BY <2>1 DEF Paths
<1> QED
  BY <1>1, <1>2, <1>3

(* What a tree says of each of its paths.                                  *)
LEMMA TreeFacts ==
  ASSUME NEW E, NEW S, NEW L, IsTree(E, S, L)
  PROVE  /\ <<>> \in DOMAIN E /\ E[<<>>] = RootEntry /\ S[<<>>] = <<Root>>
         /\ DOMAIN S = DOMAIN E /\ DOMAIN L = DOMAIN E
         /\ \A p \in DOMAIN E : /\ p \in Seq(Names) /\ (p # <<>> => p \in Paths)
                                /\ L[p] \in Seq(Names) /\ Distinct(L[p]) /\ E[p].first = S[p][1]
                                /\ E[p].kind = "entry" /\ E[p] # Missing /\ E[p].dir \in BOOLEAN
                                /\ (~E[p].dir => L[p] = <<>>)
                                /\ \A n \in Names : Append(p, n) \in DOMAIN E <=> n \in ToSet(L[p])
         /\ \A p \in DOMAIN E : p # <<>> =>
              E[p] \in EntryType /\ E[p].name = Last(p) /\ Front(p) \in DOMAIN E
<1>1. /\ DOMAIN E \subseteq Paths \cup {<<>>} /\ DOMAIN S = DOMAIN E /\ DOMAIN L = DOMAIN E
      /\ <<>> \in DOMAIN E /\ E[<<>>] = RootEntry /\ S[<<>>] = <<Root>>
      /\ \A p \in DOMAIN E \ {<<>>} :
           E[p] \in EntryType /\ E[p].name = Last(p) /\ Front(p) \in DOMAIN E
      /\ \A p \in DOMAIN E :
           /\ E[p].first = S[p][1]
           /\ L[p] \in Seq(Names) /\ Distinct(L[p]) /\ (~E[p].dir => L[p] = <<>>)
           /\ \A n \in Names : Append(p, n) \in DOMAIN E <=> n \in ToSet(L[p])
  BY DEF IsTree
<1>2. \A p \in DOMAIN E : p \in Seq(Names) /\ (p # <<>> => p \in Paths)
  <2>1. <<>> \in Seq(Names)
    OBVIOUS
  <2> QED
    BY <1>1, <2>1, PathsAreSeqs
<1>3. \A p \in DOMAIN E : E[p].kind = "entry" /\ E[p] # Missing /\ E[p].dir \in BOOLEAN
  <2> TAKE p \in DOMAIN E
  <2>1. CASE p = <<>>
    BY <1>1, <2>1, KindFacts
  <2>2. CASE p # <<>>
    BY <1>1, <2>2, KindFacts
  <2> QED
    BY <2>1, <2>2
<1> QED
  BY <1>1, <1>2, <1>3

(* The chain of each path of a tree is what Chain finds.                   *)
LEMMA ShapeOf ==
  ASSUME NEW t \in TableType, NEW E, NEW S, NEW L, IsTree(E, S, L), ChainsApart(t, E, S),
         NEW p \in DOMAIN E
  PROVE  /\ Shaped(S[p]) /\ Chain(t, E[p].first) = S[p]
         /\ S[p] \in Seq(Areas) /\ Len(S[p]) \in Nat /\ Len(S[p]) > 0 /\ DOMAIN S[p] = 1 .. Len(S[p])
         /\ ToSet(S[p]) = {S[p][i] : i \in 1 .. Len(S[p])}
         /\ p # <<>> => /\ IsChain(t, S[p]) /\ S[p] # <<Root>> /\ S[p][1] \in Clusters
                        /\ S[p] \in Seq(Clusters) /\ ToSet(S[p]) \subseteq Clusters /\ Header(S[p][1]) = 2
         /\ p = <<>> => S[p] = <<Root>> /\ ToSet(S[p]) = {Root} /\ Header(S[p][1]) = 1
<1>1. CASE p = <<>>
  <2>1. S[p] = <<Root>> /\ E[p].first = Root
    BY <1>1, TreeFacts, KindFacts
  <2>2. /\ Root \in Areas /\ <<Root>> \in Seq(Areas) /\ Len(<<Root>>) = 1 /\ DOMAIN <<Root>> = 1 .. 1
        /\ ToSet(<<Root>>) = {Root} /\ <<Root>>[1] = Root
    BY DEF Areas, ToSet
  <2>3. Shaped(<<Root>>) /\ Header(Root) = 1 /\ Chain(t, Root) = <<Root>>
    BY ChainOfRoot DEF Shaped, Header
  <2>4. {S[p][i] : i \in 1 .. Len(S[p])} = {Root}
    BY <2>1, <2>2
  <2> QED
    BY <1>1, <2>1, <2>2, <2>3, <2>4
<1>2. CASE p # <<>>
  <2>1. IsChain(t, S[p]) /\ E[p].first = S[p][1]
    BY <1>2, TreeFacts DEF ChainsApart
  <2>2. Shaped(S[p]) /\ Chain(t, S[p][1]) = S[p] /\ S[p] # <<Root>>
    BY <2>1, ChainIs
  <2>3. S[p] \in Seq(Clusters) /\ S[p] # <<>>
    BY <2>1 DEF IsChain
  <2>4. /\ Len(S[p]) \in Nat /\ Len(S[p]) > 0 /\ DOMAIN S[p] = 1 .. Len(S[p])
        /\ \A i \in 1 .. Len(S[p]) : S[p][i] \in Clusters
    BY <2>3
  <2>5. S[p] \in Seq(Areas)
    BY <2>3 DEF Areas
  <2>6. S[p][1] \in Clusters
    BY <2>4
  <2>7. ToSet(S[p]) = {S[p][i] : i \in 1 .. Len(S[p])} /\ ToSet(S[p]) \subseteq Clusters
    BY <2>4 DEF ToSet
  <2>8. Header(S[p][1]) = 2
    BY <2>6, ConstantFacts DEF Header
  <2> QED
    BY <1>2, <2>1, <2>2, <2>3, <2>4, <2>5, <2>6, <2>7, <2>8
<1> QED
  BY <1>1, <1>2

(* A folder of the tree lists the entries of its names, in their order.    *)
LEMMA ItemsOfFolder ==
  ASSUME NEW t \in TableType, NEW d \in DiskType, NEW E, NEW S, NEW L, Represents(t, d, E, S, L),
         NEW p \in DOMAIN E, E[p].dir
  PROVE  /\ Items(t, d, E[p].first) \in Seq(Unit)
         /\ Len(Items(t, d, E[p].first)) = Len(L[p])
         /\ \A k \in 1 .. Len(L[p]) : Items(t, d, E[p].first)[k] = E[Append(p, L[p][k])]
<1>1. IsTree(E, S, L) /\ ChainsApart(t, E, S) /\ FolderHolds(d, E, S, L, p)
  BY DEF Represents, Holds
<1> DEFINE U == Units(d, S[p])
           h == Header(S[p][1])
           m == Len(L[p])
           X == Items(t, d, E[p].first)
<1>2. Shaped(S[p]) /\ Chain(t, E[p].first) = S[p]
  BY <1>1, ShapeOf
<1>3. L[p] \in Seq(Names) /\ m \in Nat /\ \A k \in 1 .. m : L[p][k] \in Names /\ Append(p, L[p][k]) \in DOMAIN E
                                                            /\ Append(p, L[p][k]) # <<>>
  <2>1. L[p] \in Seq(Names) /\ p \in Seq(Names) /\ \A n \in Names : Append(p, n) \in DOMAIN E <=> n \in ToSet(L[p])
    BY <1>1, TreeFacts
  <2>2. m \in Nat /\ \A k \in 1 .. m : L[p][k] \in Names /\ L[p][k] \in ToSet(L[p])
    BY <2>1 DEF ToSet
  <2> QED
    BY <2>1, <2>2, ChildFacts
<1>4. \A k \in 1 .. m : E[Append(p, L[p][k])] \in EntryType
  BY <1>1, <1>3, TreeFacts
<1>5. /\ h + m <= Len(U)
      /\ Headed(d, S[p]) \/ (m = 0 /\ \A k \in 1 .. h : U[k] = Blank)
      /\ \A k \in 1 .. m : U[h + k] = E[Append(p, L[p][k])]
      /\ \A k \in h + m + 1 .. Len(U) : U[k] = Blank
  BY <1>1 DEF FolderHolds
<1>6. h \in {1, 2} /\ U \in Seq(Unit) /\ Len(U) \in Nat
  BY <1>2, ShapedFacts, UnitsFacts
<1>7. X = ItemsIn(d, S[p])
  <2>1. X = The({ItemsIn(d, c) : c \in {S[p]}})
    BY <1>2 DEF Items
  <2>2. {ItemsIn(d, c) : c \in {S[p]}} = {ItemsIn(d, S[p])}
    OBVIOUS
  <2> QED
    BY <2>1, <2>2, The_
<1>8. CASE Headed(d, S[p])
  <2>1. \A k \in 1 .. h : U[k] # Blank
    BY <1>8 DEF Headed
  <2> HIDE DEF U, h, m, X
  <2>2. \A k \in 1 .. h + m : U[k] # Blank
    <3> TAKE k \in 1 .. h + m
    <3>1. CASE k \in 1 .. h
      BY <2>1, <3>1
    <3>2. CASE k \notin 1 .. h
      <4>1. k - h \in 1 .. m /\ h + (k - h) = k
        BY <1>3, <1>6, <3>2
      <4>2. U[k] = E[Append(p, L[p][k - h])] /\ E[Append(p, L[p][k - h])] \in EntryType
        BY <1>4, <1>5, <4>1
      <4> QED
        BY <4>2, KindFacts
    <3> QED
      BY <3>1, <3>2
  <2>3. h + m \in 0 .. Len(U)
    BY <1>3, <1>5, <1>6
  <2>4. Filled(d, S[p], h + m)
    BY <1>5, <2>2, <2>3 DEF Filled, U
  <2>5. X = SubSeq(U, h + 1, h + m)
    BY <1>2, <1>7, <2>4, ItemsInFilled DEF U, h
  <2>6. \A i \in h + 1 .. h + m : U[i] \in Unit
    BY <1>3, <1>5, <1>6, ElementOfSeq
  <2>7. h + 1 \in Int /\ h + m \in Int /\ (h + m) - (h + 1) + 1 = m /\ (h + 1 <= h + m <=> m # 0)
    BY <1>3, <1>6
  <2>8. /\ X \in Seq(Unit) /\ Len(X) = (IF h + 1 <= h + m THEN (h + m) - (h + 1) + 1 ELSE 0)
        /\ \A i \in 1 .. (h + m) - (h + 1) + 1 : X[i] = U[(h + 1) + i - 1]
    BY <2>5, <2>6, <2>7, SubSeqProperties
  <2>9. Len(X) = m
    BY <1>3, <2>7, <2>8
  <2>10. \A k \in 1 .. m : X[k] = U[h + k]
    <3> TAKE k \in 1 .. m
    <3>1. (h + 1) + k - 1 = h + k
      BY <1>3, <1>6
    <3> QED
      BY <2>7, <2>8, <3>1
  <2> QED
    BY <1>5, <2>8, <2>9, <2>10 DEF X, m
<1>9. CASE m = 0 /\ \A k \in 1 .. h : U[k] = Blank
  <2>1. Filled(d, S[p], 0)
    <3> HIDE DEF U, h, m
    <3>1. \A k \in 0 + 1 .. Len(U) : U[k] = Blank
      <4> TAKE k \in 0 + 1 .. Len(U)
      <4>1. k \in 1 .. h \/ k \in h + m + 1 .. Len(U)
        BY <1>6, <1>9
      <4> QED
        BY <1>5, <1>9, <4>1
    <3>2. 0 \in 0 .. Len(U)
      BY <1>6
    <3> QED
      BY <3>1, <3>2 DEF Filled, U
  <2>2. X = SubSeq(U, h + 1, 0)
    BY <1>2, <1>7, <2>1, ItemsInFilled
  <2>3. X = <<>>
    <3> HIDE DEF U, h
    <3> QED
      BY <1>6, <2>2, SubSeqEmpty
  <2> QED
    BY <1>9, <2>3
<1> QED
  BY <1>5, <1>8, <1>9

(* No entry has the name.                                                  *)
LEMMA IndexNone ==
  ASSUME NEW items \in Seq(Unit), NEW n,
         \A j \in 1 .. Len(items) : ~(items[j].kind = "entry" /\ items[j].name = n)
  PROVE  Index(items, n) = 0 /\ Pick(items, n) = Missing
<1>1. {i \in 1 .. Len(items) : items[i].kind = "entry" /\ items[i].name = n} = {}
  OBVIOUS
<1>2. Index(items, n) = 0
  BY <1>1 DEF Index, SelectInSeq
<1> QED
  BY <1>2 DEF Pick

(* One entry has the name.                                                 *)
LEMMA IndexIs ==
  ASSUME NEW items \in Seq(Unit), NEW n, NEW k \in 1 .. Len(items),
         items[k].kind = "entry", items[k].name = n,
         \A j \in 1 .. Len(items) : items[j].kind = "entry" /\ items[j].name = n => j = k
  PROVE  Index(items, n) = k /\ Pick(items, n) = items[k]
<1>1. {i \in 1 .. Len(items) : items[i].kind = "entry" /\ items[i].name = n} = {k}
  OBVIOUS
<1>2. Len(items) \in Nat /\ k \in Nat /\ k # 0
  OBVIOUS
<1>3. Min({k}) = k
  BY <1>2, MinFacts, {k} \subseteq Nat, {k} # {}
<1>4. Index(items, n) = k
  BY <1>1, <1>3 DEF Index, SelectInSeq
<1> QED
  BY <1>2, <1>4 DEF Pick

(* What a folder has under a name, and where.                              *)
LEMMA UnderFolder ==
  ASSUME NEW t \in TableType, NEW d \in DiskType, NEW E, NEW S, NEW L, Represents(t, d, E, S, L),
         NEW p \in DOMAIN E, E[p].dir, NEW n \in Names
  PROVE  /\ Pick(Items(t, d, E[p].first), n) =
              IF Append(p, n) \in DOMAIN E THEN E[Append(p, n)] ELSE Missing
         /\ \A k \in 1 .. Len(L[p]) : L[p][k] = n => Index(Items(t, d, E[p].first), n) = k
<1> DEFINE X == Items(t, d, E[p].first)
           m == Len(L[p])
<1>1. IsTree(E, S, L)
  BY DEF Represents
<1>2. /\ p \in Seq(Names) /\ L[p] \in Seq(Names) /\ Distinct(L[p])
      /\ \A x \in Names : Append(p, x) \in DOMAIN E <=> x \in ToSet(L[p])
  BY <1>1, TreeFacts
<1>3. m \in Nat /\ DOMAIN L[p] = 1 .. m /\ \A k \in 1 .. m : L[p][k] \in Names /\ L[p][k] \in ToSet(L[p])
  BY <1>2 DEF ToSet
<1>4. X \in Seq(Unit) /\ Len(X) = m /\ \A k \in 1 .. m : X[k] = E[Append(p, L[p][k])]
  BY ItemsOfFolder
<1>5. \A k \in 1 .. m : X[k].kind = "entry" /\ X[k].name = L[p][k]
  <2> TAKE k \in 1 .. m
  <2>1. Append(p, L[p][k]) \in DOMAIN E /\ Append(p, L[p][k]) # <<>> /\ Last(Append(p, L[p][k])) = L[p][k]
    BY <1>2, <1>3, ChildFacts
  <2>2. E[Append(p, L[p][k])].kind = "entry" /\ E[Append(p, L[p][k])].name = L[p][k]
    BY <1>1, <2>1, TreeFacts
  <2> QED
    BY <1>4, <2>2
<1> HIDE DEF X, m
<1>6. ASSUME NEW k \in 1 .. m, L[p][k] = n
      PROVE  Index(X, n) = k /\ Pick(X, n) = E[Append(p, n)] /\ Append(p, n) \in DOMAIN E
  <2>1. \A j \in 1 .. m : X[j].kind = "entry" /\ X[j].name = n => j = k
    BY <1>2, <1>3, <1>5, <1>6 DEF Distinct
  <2>2. Index(X, n) = k /\ Pick(X, n) = X[k]
    BY <1>4, <1>5, <1>6, <2>1, IndexIs
  <2> QED
    BY <1>2, <1>3, <1>4, <1>6, <2>2
<1>7. ASSUME \A k \in 1 .. m : L[p][k] # n
      PROVE  Pick(X, n) = Missing /\ Append(p, n) \notin DOMAIN E
  <2>1. n \notin ToSet(L[p])
    BY <1>3, <1>7 DEF ToSet
  <2>2. \A j \in 1 .. m : ~(X[j].kind = "entry" /\ X[j].name = n)
    BY <1>5, <1>7
  <2> QED
    BY <1>2, <1>4, <2>1, <2>2, IndexNone
<1> QED
  BY <1>6, <1>7 DEF X, m

(* What a file of the tree lists are no entries.                           *)
LEMMA ItemsOfFile ==
  ASSUME NEW t \in TableType, NEW d \in DiskType, NEW E, NEW S, NEW L, Represents(t, d, E, S, L),
         NEW p \in DOMAIN E, ~E[p].dir
  PROVE  Items(t, d, E[p].first) \in Seq(Piece)
<1>1. IsTree(E, S, L) /\ ChainsApart(t, E, S) /\ \A c \in ToSet(S[p]) : NoEntries(d, c)
  BY DEF Represents, Holds
<1>2. p # <<>>
  BY <1>1, TreeFacts, KindFacts
<1>3. Shaped(S[p]) /\ Chain(t, E[p].first) = S[p] /\ S[p] # <<Root>> /\ \A i \in 1 .. Len(S[p]) : S[p][i] \in ToSet(S[p])
  <2>1. Shaped(S[p]) /\ Chain(t, E[p].first) = S[p] /\ S[p] # <<Root>> /\ DOMAIN S[p] = 1 .. Len(S[p])
    BY <1>1, <1>2, ShapeOf
  <2> QED
    BY <2>1 DEF ToSet
<1>4. Items(t, d, E[p].first) = ItemsIn(d, S[p])
  <2>1. Items(t, d, E[p].first) = The({ItemsIn(d, c) : c \in {S[p]}})
    BY <1>3 DEF Items
  <2>2. {ItemsIn(d, c) : c \in {S[p]}} = {ItemsIn(d, S[p])}
    OBVIOUS
  <2> QED
    BY <2>1, <2>2, The_
<1> QED
  BY <1>1, <1>3, <1>4, ItemsInFile

(* What is found under a name is the entry of the path with that name.     *)
LEMMA UnderIs ==
  ASSUME NEW t \in TableType, NEW d \in DiskType, NEW E, NEW S, NEW L, Represents(t, d, E, S, L),
         NEW p \in DOMAIN E, NEW n \in Names
  PROVE  Under(t, d, E[p], n) = IF Append(p, n) \in DOMAIN E THEN E[Append(p, n)] ELSE Missing
<1>1. IsTree(E, S, L)
  BY DEF Represents
<1>2. /\ E[p] # Missing /\ E[p].dir \in BOOLEAN /\ (~E[p].dir => L[p] = <<>>)
      /\ Append(p, n) \in DOMAIN E <=> n \in ToSet(L[p])
  BY <1>1, TreeFacts
<1>3. Under(t, d, E[p], n) = Pick(Items(t, d, E[p].first), n)
  <2>1. {Pick(x, n) : x \in {Items(t, d, E[p].first)}} = {Pick(Items(t, d, E[p].first), n)}
    OBVIOUS
  <2> QED
    BY <1>2, <2>1, The_ DEF Under
<1>4. CASE E[p].dir
  BY <1>3, <1>4, UnderFolder
<1>5. CASE ~E[p].dir
  <2> DEFINE X == Items(t, d, E[p].first)
  <2>1. X \in Seq(Piece)
    BY <1>5, ItemsOfFile
  <2> HIDE DEF X
  <2>2. X \in Seq(Unit) /\ \A j \in 1 .. Len(X) : X[j].kind # "entry"
    BY <2>1, ElementOfSeq DEF Piece
  <2>3. Pick(X, n) = Missing
    BY <2>2, IndexNone
  <2>4. Append(p, n) \notin DOMAIN E
    BY <1>2, <1>5 DEF ToSet
  <2> QED
    BY <1>3, <2>3, <2>4 DEF X
<1> QED
  BY <1>2, <1>4, <1>5

(* The entry of each path.                                                 *)
LEMMA LookupIs ==
  ASSUME NEW t \in TableType, NEW d \in DiskType, NEW E, NEW S, NEW L, Represents(t, d, E, S, L),
         NEW p \in Seq(Names)
  PROVE  Lookup(t, d, p) = IF p \in DOMAIN E THEN E[p] ELSE Missing
<1> DEFINE N == Len(p)
           At(q) == IF q \in DOMAIN E THEN E[q] ELSE Missing
           Short(n) == SubSeq(p, 1, n)
<1>1. IsTree(E, S, L)
  BY DEF Represents
<1>2. N \in Nat
  OBVIOUS
<1> HIDE DEF N
<1>3. Short(0) = <<>> /\ Short(N) = p
  BY SubSeqEmpty, SubSeqFull, 0 < 1 DEF N
<1>4. ASSUME NEW n \in 1 .. N
      PROVE  /\ Short(n) = Append(Short(n - 1), p[n]) /\ p[n] \in Names
             /\ Short(n - 1) \in Seq(Names)
  <2>1. n \in 1 .. Len(p) /\ n \in Nat /\ n > 0 /\ \A i \in 1 .. n : p[i] \in Names
    BY <1>2 DEF N
  <2>2. 1 \in Int /\ n \in Int /\ 1 <= n /\ n - 1 + 1 = n
    BY <2>1
  <2>3. /\ Short(n) \in Seq(Names) /\ Len(Short(n)) = n - 1 + 1
        /\ \A i \in 1 .. n - 1 + 1 : Short(n)[i] = p[1 + i - 1]
    BY <2>1, <2>2, SubSeqProperties
  <2>4. Short(n) # <<>> /\ Len(Short(n)) = n
    BY <2>1, <2>2, <2>3
  <2>5. /\ Front(Short(n)) \in Seq(Names) /\ Front(Short(n)) = SubSeq(Short(n), 1, n - 1)
        /\ Append(Front(Short(n)), Last(Short(n))) = Short(n)
    BY <2>3, <2>4, PathFacts
  <2>6. Last(Short(n)) = p[n]
    BY <2>1, <2>2, <2>3, <2>4 DEF Last
  <2>7. SubSeq(Short(n), 1, n - 1) = Short(n - 1)
    <3>1. /\ SubSeq(p, 1, n - 1) \in Seq(Names) /\ Len(SubSeq(p, 1, n - 1)) = (IF 1 <= n - 1 THEN n - 1 - 1 + 1 ELSE 0)
          /\ \A i \in 1 .. n - 1 - 1 + 1 : SubSeq(p, 1, n - 1)[i] = p[1 + i - 1]
      BY <2>1, n - 1 \in Int, SubSeqProperties
    <3> DEFINE y == Short(n)
               z == Short(n - 1)
    <3>2. y \in Seq(Names) /\ Len(y) = n /\ \A i \in 1 .. n : y[i] = p[1 + i - 1]
      BY <2>2, <2>3
    <3>3. z \in Seq(Names) /\ Len(z) = n - 1 /\ \A i \in 1 .. n - 1 : z[i] = p[1 + i - 1]
      BY <2>1, <3>1
    <3> HIDE DEF y, z
    <3>4. SubSeq(y, 1, n - 1) \in Seq(Names) /\ Len(SubSeq(y, 1, n - 1)) = n - 1
          /\ \A i \in 1 .. n - 1 : SubSeq(y, 1, n - 1)[i] = y[i]
      <4>1. Front(y) = SubSeq(y, 1, Len(y) - 1) /\ Len(Front(y)) = Len(y) - 1 /\ Front(y) \in Seq(Names)
        <5>1. y # <<>>
          BY <2>1, <3>2
        <5> QED
          BY <3>2, <5>1, PathFacts
      <4>2. \A i \in 1 .. n - 1 : y[i] \in Names
        BY <2>1, <3>2
      <4>3. \A i \in 1 .. n - 1 - 1 + 1 : SubSeq(y, 1, n - 1)[i] = y[1 + i - 1]
        BY <2>1, <4>2, n - 1 \in Int, SubSeqProperties
      <4>4. \A i \in 1 .. n - 1 : i \in 1 .. n - 1 - 1 + 1 /\ 1 + i - 1 = i
        BY <2>1
      <4> QED
        BY <3>2, <4>1, <4>3, <4>4
    <3>5. \A i \in 1 .. n - 1 : SubSeq(y, 1, n - 1)[i] = z[i]
      BY <2>1, <3>2, <3>3, <3>4
    <3>6. SubSeq(y, 1, n - 1) = z
      BY <3>3, <3>4, <3>5, SeqEqual
    <3> QED
      BY <3>6 DEF y, z
  <2> QED
    BY <2>1, <2>5, <2>6, <2>7
<1> HIDE DEF Short
<1>5. ASSUME NEW n \in 1 .. N PROVE Under(t, d, At(Short(n - 1)), p[n]) = At(Short(n))
  <2>1. CASE Short(n - 1) \in DOMAIN E
    BY <1>4, <2>1, UnderIs
  <2>2. CASE Short(n - 1) \notin DOMAIN E
    <3>1. Short(n) \notin DOMAIN E
      <4>1. Front(Short(n)) = Short(n - 1) /\ Short(n) # <<>>
        <5>1. Front(Append(Short(n - 1), p[n])) = Short(n - 1) /\ Append(Short(n - 1), p[n]) # <<>>
          BY <1>4, ChildFacts
        <5> QED
          BY <1>4, <5>1
      <4> QED
        BY <1>1, <2>2, <4>1, TreeFacts
    <3> QED
      BY <2>2, <3>1 DEF Under
  <2> QED
    BY <2>1, <2>2
<1> DEFINE F(f) == [n \in 0 .. N |-> IF n = 0 THEN RootEntry
                                     ELSE The({Under(t, d, at, p[n]) : at \in {f[n - 1]}})]
           down == CHOOSE f : f = F(f)
           g == [n \in 0 .. N |-> At(Short(n))]
<1>6. At(Short(0)) = RootEntry
  BY <1>1, <1>3, TreeFacts
<1>7. ASSUME NEW f, NEW n \in 1 .. N PROVE F(f)[n] = Under(t, d, f[n - 1], p[n])
  <2>1. {Under(t, d, at, p[n]) : at \in {f[n - 1]}} = {Under(t, d, f[n - 1], p[n])}
    OBVIOUS
  <2>2. n \in 0 .. N /\ n # 0
    BY <1>2
  <2> QED
    BY <2>1, <2>2, The_
<1>8. g = F(g)
  <2> SUFFICES ASSUME NEW n \in 0 .. N PROVE F(g)[n] = g[n]
    OBVIOUS
  <2>1. CASE n = 0
    BY <1>6, <2>1
  <2>2. CASE n # 0
    <3>1. n \in 1 .. N /\ n - 1 \in 0 .. N
      BY <1>2, <2>2
    <3>2. F(g)[n] = Under(t, d, g[n - 1], p[n])
      <4> HIDE DEF F, g
      <4> QED
        BY <1>7, <3>1
    <3> QED
      BY <1>5, <3>1, <3>2
  <2> QED
    BY <2>1, <2>2
<1>9. down = F(down)
  <2> HIDE DEF g, F
  <2> QED
    BY <1>8
<1>10. ASSUME NEW f, f = F(f)
       PROVE  f[0] = RootEntry /\ \A n \in Nat : n < N => f[n + 1] = Under(t, d, f[n], p[n + 1])
  <2>1. f[0] = RootEntry
    <3>1. 0 \in 0 .. N
      BY <1>2
    <3>2. F(f)[0] = RootEntry
      BY <3>1
    <3> HIDE DEF F
    <3> QED
      BY <1>10, <3>2
  <2>2. ASSUME NEW n \in Nat, n < N PROVE n + 1 \in 1 .. N /\ (n + 1) - 1 = n
    BY <1>2, <2>2
  <2> HIDE DEF F
  <2>3. \A n \in 1 .. N : f[n] = Under(t, d, f[n - 1], p[n])
    BY <1>7, <1>10
  <2>4. \A n \in Nat : n < N => f[n + 1] = Under(t, d, f[n], p[n + 1])
    BY <2>2, <2>3
  <2> QED
    BY <2>1, <2>4
<1> HIDE DEF F, g, down
<1>11. \A n \in 0 .. N : down[n] = g[n]
  <2>1. down[0] = RootEntry /\ \A n \in Nat : n < N => down[n + 1] = Under(t, d, down[n], p[n + 1])
    BY <1>9, <1>10
  <2>2. g[0] = RootEntry /\ \A n \in Nat : n < N => g[n + 1] = Under(t, d, g[n], p[n + 1])
    BY <1>8, <1>10
  <2>3. \A n \in Nat : n < N /\ down[n] = g[n] => down[n + 1] = g[n + 1]
    BY <2>1, <2>2
  <2>4. down[0] = g[0] /\ N \in Nat
    BY <1>2, <2>1, <2>2
  <2> QED
    BY <2>3, <2>4, SameUpTo
<1>12. N \in 0 .. N
  BY <1>2
<1>13. Lookup(t, d, p) = down[N]
  BY DEF Lookup, down, F, N
<1>14. g[N] = At(p)
  BY <1>3, <1>12 DEF g
<1> QED
  BY <1>11, <1>12, <1>13, <1>14

(* No cluster of a chain is free.                                          *)
LEMMA ChainNotFree ==
  ASSUME NEW t \in TableType, NEW s, IsChain(t, s)
  PROVE  \A c \in ToSet(s) : c \in Clusters /\ t[c] # Free
<1>1. /\ s \in Seq(Clusters) /\ s # <<>>
      /\ \A i \in 1 .. Len(s) - 1 : t[s[i]] = s[i + 1]
      /\ t[s[Len(s)]] = EOC
  BY DEF IsChain
<1>2. Len(s) \in Nat /\ DOMAIN s = 1 .. Len(s) /\ \A i \in 1 .. Len(s) : s[i] \in Clusters
  BY <1>1
<1>3. ASSUME NEW i \in 1 .. Len(s) PROVE t[s[i]] # Free
  <2>1. CASE i = Len(s)
    BY <1>1, <2>1, ConstantFacts
  <2>2. CASE i # Len(s)
    <3> DEFINE n == Len(s)
    <3>2. n \in Nat /\ i \in 1 .. n /\ i # n
      BY <1>2, <2>2
    <3> HIDE DEF n
    <3>3. i \in 1 .. n - 1 /\ i + 1 \in 1 .. n
      BY <3>2
    <3>1. i \in 1 .. Len(s) - 1 /\ i + 1 \in 1 .. Len(s)
      BY <3>3 DEF n
    <3> QED
      BY <1>1, <1>2, <3>1, ConstantFacts
  <2> QED
    BY <2>1, <2>2
<1> QED
  BY <1>2, <1>3 DEF ToSet

(* No area belongs to two paths.                                           *)
LEMMA Apart ==
  ASSUME NEW t \in TableType, NEW E, NEW S, NEW L, IsTree(E, S, L), ChainsApart(t, E, S),
         NEW p \in DOMAIN E, NEW q \in DOMAIN E, p # q, NEW a, a \in ToSet(S[p])
  PROVE  a \notin ToSet(S[q])
<1>1. CASE p # <<>> /\ q # <<>>
  BY <1>1 DEF ChainsApart
<1>2. CASE p = <<>>
  <2>1. a = Root
    <3>1. S[p] = <<Root>>
      BY <1>2, TreeFacts
    <3>2. ToSet(<<Root>>) = {Root}
      BY DEF ToSet
    <3> QED
      BY <3>1, <3>2
  <2>2. ToSet(S[q]) \subseteq Clusters
    BY <1>2, ShapeOf
  <2> QED
    BY <2>1, <2>2, ConstantFacts
<1>3. CASE q = <<>>
  <2>1. a \in Clusters
    BY <1>3, ShapeOf
  <2>2. ToSet(S[q]) = {Root}
    <3>1. S[q] = <<Root>>
      BY <1>3, TreeFacts
    <3>2. ToSet(<<Root>>) = {Root}
      BY DEF ToSet
    <3> QED
      BY <3>1, <3>2
  <2> QED
    BY <2>1, <2>2, ConstantFacts
<1> QED
  BY <1>1, <1>2, <1>3

(* A folder whose units and names stay holds what it held.                 *)
LEMMA FolderKept ==
  ASSUME NEW d, NEW e, NEW E, NEW S, NEW L, NEW F, NEW T, NEW M, NEW p,
         FolderHolds(d, E, S, L, p), T[p] = S[p], M[p] = L[p],
         Units(e, S[p]) = Units(d, S[p]),
         \A k \in 1 .. Len(L[p]) : F[Append(p, L[p][k])] = E[Append(p, L[p][k])]
  PROVE  FolderHolds(e, F, T, M, p)
BY DEF FolderHolds, Headed

(* A change of the table outside of the chains.                            *)
LEMMA RepresentsOtherTable ==
  ASSUME NEW t \in TableType, NEW u \in TableType, NEW d \in DiskType, NEW E, NEW S, NEW L,
         Represents(t, d, E, S, L),
         \A p \in DOMAIN E \ {<<>>} : \A c \in ToSet(S[p]) : u[c] = t[c]
  PROVE  Represents(u, d, E, S, L)
<1>1. IsTree(E, S, L) /\ ChainsApart(t, E, S) /\ Holds(d, E, S, L)
  BY DEF Represents
<1>2. ASSUME NEW p \in DOMAIN E \ {<<>>} PROVE IsChain(u, S[p])
  <2>1. IsChain(t, S[p]) /\ \A c \in ToSet(S[p]) : u[c] = t[c]
    BY <1>1 DEF ChainsApart
  <2>2. /\ S[p] \in Seq(Clusters) /\ S[p] # <<>> /\ Distinct(S[p])
        /\ \A i \in 1 .. Len(S[p]) - 1 : t[S[p][i]] = S[p][i + 1]
        /\ t[S[p][Len(S[p])]] = EOC
    BY <2>1 DEF IsChain
  <2>3. Len(S[p]) \in 1 .. Len(S[p]) /\ \A i \in 1 .. Len(S[p]) : S[p][i] \in ToSet(S[p])
    BY <2>2 DEF ToSet
  <2>4. \A i \in 1 .. Len(S[p]) : u[S[p][i]] = t[S[p][i]]
    BY <2>1, <2>3
  <2>5. \A i \in 1 .. Len(S[p]) - 1 : i \in 1 .. Len(S[p])
    BY <2>3
  <2> QED
    BY <2>2, <2>3, <2>4, <2>5 DEF IsChain
<1> QED
  BY <1>1, <1>2 DEF Represents, ChainsApart

(* A change of the disk outside of the folders.                            *)
LEMMA RepresentsOtherData ==
  ASSUME NEW t \in TableType, NEW d \in DiskType, NEW e \in DiskType, NEW E, NEW S, NEW L,
         Represents(t, d, E, S, L),
         \A a \in Areas : e[a] = d[a] \/ (/\ a \in Clusters /\ NoEntries(e, a)
                                          /\ \A p \in DOMAIN E : E[p].dir => a \notin ToSet(S[p]))
  PROVE  /\ Represents(t, e, E, S, L)
         /\ \A p \in DOMAIN E : E[p].dir /\ Headed(d, S[p]) => Headed(e, S[p])
<1>1. IsTree(E, S, L) /\ ChainsApart(t, E, S) /\ Holds(d, E, S, L)
  BY DEF Represents
<1>2. ASSUME NEW p \in DOMAIN E, E[p].dir
      PROVE  Units(e, S[p]) = Units(d, S[p])
  <2>1. Shaped(S[p]) /\ \A i \in 1 .. Len(S[p]) : S[p][i] \in Areas /\ S[p][i] \in ToSet(S[p])
    <3>1. /\ Shaped(S[p]) /\ S[p] \in Seq(Areas) /\ DOMAIN S[p] = 1 .. Len(S[p])
      BY <1>1, ShapeOf
    <3> QED
      BY <3>1, ElementOfSeq DEF ToSet
  <2>2. \A i \in 1 .. Len(S[p]) : e[S[p][i]] = d[S[p][i]]
    BY <1>2, <2>1
  <2> QED
    BY <2>1, <2>2, UnitsEqual
<1>3. ASSUME NEW p \in DOMAIN E, E[p].dir PROVE FolderHolds(e, E, S, L, p)
  <2>1. FolderHolds(d, E, S, L, p)
    BY <1>1, <1>3 DEF Holds
  <2> QED
    BY <1>2, <1>3, <2>1, FolderKept
<1>4. ASSUME NEW p \in DOMAIN E, ~E[p].dir, NEW c \in ToSet(S[p]) PROVE NoEntries(e, c)
  <2>1. NoEntries(d, c)
    BY <1>1, <1>4 DEF Holds
  <2>2. c \in Areas
    <3>1. p # <<>>
      BY <1>1, <1>4, TreeFacts, KindFacts
    <3> QED
      BY <1>1, <3>1, ShapeOf DEF Areas
  <2>3. e[c] = d[c] \/ NoEntries(e, c)
    BY <2>2
  <2> QED
    BY <2>1, <2>3 DEF NoEntries
<1>5. Holds(e, E, S, L)
  BY <1>3, <1>4 DEF Holds
<1> QED
  BY <1>1, <1>2, <1>5 DEF Represents, Headed

(* A chain that got one more cluster.                                      *)
LEMMA ChainLonger ==
  ASSUME NEW t \in TableType, NEW u \in TableType, NEW s, IsChain(t, s), NEW c \in Clusters,
         c \notin ToSet(s), u[Last(s)] = c, u[c] = EOC,
         \A x \in ToSet(s) : x # Last(s) => u[x] = t[x]
  PROVE  IsChain(u, Append(s, c))
<1> DEFINE n == Len(s)
           z == Append(s, c)
<1>1. /\ s \in Seq(Clusters) /\ s # <<>> /\ Distinct(s)
      /\ \A i \in 1 .. n - 1 : t[s[i]] = s[i + 1]
  BY DEF IsChain
<1>2. Shaped(s) /\ s # <<Root>>
  BY ChainIs
<1>3. Distinct(z)
  BY <1>2, ShapedLonger
<1>4. /\ z \in Seq(Clusters) /\ z # <<>> /\ Len(z) = n + 1 /\ n \in Nat /\ n > 0
      /\ z[n + 1] = c /\ \A i \in 1 .. n : z[i] = s[i]
      /\ DOMAIN s = 1 .. n /\ Last(s) = s[n]
  BY <1>1, AppendProperties DEF Last
<1> HIDE DEF n, z
<1>6. ASSUME NEW i \in 1 .. n PROVE u[z[i]] = z[i + 1]
  <2>1. CASE i = n
    <3>1. z[i] = Last(s) /\ z[i + 1] = c
      BY <1>4, <2>1
    <3> QED
      BY <3>1
  <2>2. CASE i # n
    <3>1. i \in 1 .. n - 1 /\ i + 1 \in 1 .. n /\ n \in 1 .. n
      BY <1>4, <2>2
    <3>2. s[i] # s[n] /\ s[i] \in ToSet(s)
      BY <1>1, <1>4, <2>2, <3>1 DEF Distinct, ToSet
    <3>3. u[s[i]] = t[s[i]]
      BY <1>4, <3>2
    <3> QED
      BY <1>1, <1>4, <3>1, <3>3
  <2> QED
    BY <2>1, <2>2
<1>7. (n + 1) - 1 = n /\ u[z[n + 1]] = EOC
  BY <1>4
<1> QED
  BY <1>3, <1>4, <1>6, <1>7 DEF IsChain, z

(* The path p gets the cluster c behind its last one.                      *)
LEMMA RepresentsLonger ==
  ASSUME NEW t \in TableType, NEW u \in TableType, NEW d \in DiskType, NEW E, NEW S, NEW L,
         Represents(t, d, E, S, L), NEW p \in DOMAIN E, p # <<>>,
         NEW c \in Clusters, Unused(S, c), u[Last(S[p])] = c, u[c] = EOC,
         \A q \in DOMAIN E \ {<<>>} : \A x \in ToSet(S[q]) : x # Last(S[p]) => u[x] = t[x],
         E[p].dir => \A j \in 1 .. Size : d[c][j] = Blank,
         ~E[p].dir => NoEntries(d, c)
  PROVE  /\ Represents(u, d, E, With(S, p, Append(S[p], c)), L)
         /\ \A q \in DOMAIN E : E[q].dir /\ Headed(d, S[q]) => Headed(d, With(S, p, Append(S[p], c))[q])
<1> DEFINE T == With(S, p, Append(S[p], c))
           z == Append(S[p], c)
<1>1. IsTree(E, S, L) /\ ChainsApart(t, E, S) /\ Holds(d, E, S, L)
  BY DEF Represents
<1>2. DOMAIN S = DOMAIN E /\ DOMAIN L = DOMAIN E
  BY <1>1, TreeFacts
<1>3. DOMAIN T = DOMAIN E /\ T[p] = z /\ \A q \in DOMAIN E : q # p => T[q] = S[q]
  <2>1. DOMAIN T = DOMAIN S \cup {p} /\ T[p] = z /\ \A q \in DOMAIN S : q # p => T[q] = S[q]
    BY DEF With
  <2> QED
    BY <1>2, <2>1
<1>4. /\ IsChain(t, S[p]) /\ Shaped(S[p]) /\ S[p] # <<Root>> /\ c \notin ToSet(S[p])
      /\ S[p] \in Seq(Clusters) /\ Len(S[p]) \in Nat /\ Len(S[p]) > 0 /\ DOMAIN S[p] = 1 .. Len(S[p])
  BY <1>1, <1>2, ShapeOf DEF Unused
<1>5. Last(S[p]) \in ToSet(S[p])
  BY <1>4 DEF Last, ToSet
<1>6. Shaped(z) /\ z[1] = S[p][1] /\ z \in Seq(Clusters) /\ Len(z) = Len(S[p]) + 1
      /\ z[Len(S[p]) + 1] = c /\ \A i \in 1 .. Len(S[p]) : z[i] = S[p][i]
  BY <1>4, UnitsLonger, AppendProperties
<1>7. \A x : x \in ToSet(z) => x \in ToSet(S[p]) \/ x = c
  <2> TAKE x
  <2> HAVE x \in ToSet(z)
  <2>1. PICK i \in 1 .. Len(S[p]) + 1 : x = z[i]
    BY <1>4, <1>6 DEF ToSet
  <2>2. CASE i = Len(S[p]) + 1
    BY <1>6, <2>1, <2>2
  <2>3. CASE i # Len(S[p]) + 1
    <3>1. i \in 1 .. Len(S[p])
      BY <1>4, <2>1, <2>3
    <3> QED
      BY <1>4, <1>6, <2>1, <3>1 DEF ToSet
  <2> QED
    BY <2>2, <2>3
<1> HIDE DEF T, z
<1>8. IsTree(E, T, L)
  <2>1. T[<<>>] = <<Root>>
    BY <1>1, <1>3, TreeFacts
  <2>2. \A q \in DOMAIN E : E[q].first = T[q][1]
    <3>1. \A q \in DOMAIN E : E[q].first = S[q][1]
      BY <1>1, TreeFacts
    <3> QED
      BY <1>3, <1>6, <3>1
  <2> QED
    BY <1>1, <1>3, <2>1, <2>2 DEF IsTree
<1>9. ASSUME NEW q \in DOMAIN E, q # <<>> PROVE IsChain(u, T[q])
  <2>1. CASE q = p
    <3>1. \A x \in ToSet(S[p]) : x # Last(S[p]) => u[x] = t[x]
      OBVIOUS
    <3>2. IsChain(u, z)
      BY <1>4, <3>1, ChainLonger DEF z
    <3> QED
      BY <1>3, <2>1, <3>2
  <2>2. CASE q # p
    <3>1. Last(S[p]) \notin ToSet(S[q])
      BY <1>1, <1>5, <2>2, Apart
    <3>2. \A x \in ToSet(S[q]) : u[x] = t[x]
      BY <1>9, <3>1
    <3>3. IsChain(t, S[q])
      BY <1>1, <1>9 DEF ChainsApart
    <3>4. /\ S[q] \in Seq(Clusters) /\ S[q] # <<>> /\ Distinct(S[q])
          /\ \A i \in 1 .. Len(S[q]) - 1 : t[S[q][i]] = S[q][i + 1]
          /\ t[S[q][Len(S[q])]] = EOC
      BY <3>3 DEF IsChain
    <3>5. /\ Len(S[q]) \in 1 .. Len(S[q]) /\ \A i \in 1 .. Len(S[q]) : S[q][i] \in ToSet(S[q])
          /\ \A i \in 1 .. Len(S[q]) - 1 : i \in 1 .. Len(S[q])
      BY <3>4 DEF ToSet
    <3>6. \A i \in 1 .. Len(S[q]) : u[S[q][i]] = t[S[q][i]]
      BY <3>2, <3>5
    <3>7. IsChain(u, S[q])
      BY <3>4, <3>5, <3>6 DEF IsChain
    <3> QED
      BY <1>3, <2>2, <3>7
  <2> QED
    BY <2>1, <2>2
<1>10. ASSUME NEW q \in DOMAIN E \ {<<>>}, NEW r \in DOMAIN E \ {q, <<>>}
       PROVE  ToSet(T[q]) \cap ToSet(T[r]) = {}
  <2>1. \A x \in ToSet(S[q]) : x \notin ToSet(S[r]) /\ x # c
    BY <1>1, <1>2, Apart DEF Unused
  <2>2. c \notin ToSet(S[q]) /\ c \notin ToSet(S[r])
    BY <1>2 DEF Unused
  <2>3. CASE q = p
    <3>1. T[q] = z /\ T[r] = S[r]
      BY <1>3, <2>3
    <3> QED
      BY <1>7, <2>1, <2>2, <2>3, <3>1
  <2>4. CASE r = p
    <3>1. T[q] = S[q] /\ T[r] = z
      BY <1>3, <2>4
    <3> QED
      BY <1>7, <2>1, <2>2, <2>4, <3>1
  <2>5. CASE q # p /\ r # p
    <3>1. T[q] = S[q] /\ T[r] = S[r]
      BY <1>3, <2>5
    <3> QED
      BY <2>1, <3>1
  <2> QED
    BY <2>3, <2>4, <2>5
<1>11. ChainsApart(u, E, T)
  BY <1>9, <1>10 DEF ChainsApart
<1>12. ASSUME E[p].dir
       PROVE  /\ FolderHolds(d, E, T, L, p)
              /\ Headed(d, S[p]) => Headed(d, z)
  <2> DEFINE U == Units(d, S[p])
             V == Units(d, z)
             h == Header(S[p][1])
             m == Len(L[p])
             l == Size * Len(S[p])
  <2>1. /\ Len(V) = l + Size /\ (\A k \in 1 .. l : V[k] = U[k])
        /\ \A j \in 1 .. Size : V[l + j] = d[c][j]
    BY <1>4, UnitsLonger DEF z
  <2>2. Len(U) = l /\ l \in Nat /\ Size \in Nat /\ Header(S[p][1]) = 2
    BY <1>4, ClusterUnits, ConstantFacts
  <2>3. /\ h + m <= Len(U)
        /\ \A k \in 1 .. h : U[k].kind # "entry"
        /\ Headed(d, S[p]) \/ (m = 0 /\ \A k \in 1 .. h : U[k] = Blank)
        /\ \A k \in 1 .. m : U[h + k] = E[Append(p, L[p][k])]
        /\ \A k \in h + m + 1 .. Len(U) : U[k] = Blank
    BY <1>1, <1>12 DEF Holds, FolderHolds
  <2>4. m \in Nat /\ Header(z[1]) = h
    BY <1>1, <1>6, TreeFacts
  <2> HIDE DEF U, V, h, m, l
  <2>5. h = 2
    BY <2>2 DEF h
  <2>6. \A k \in 1 .. h : V[k] = U[k]
    BY <2>1, <2>2, <2>3, <2>4, <2>5
  <2>7. \A k \in 1 .. m : V[h + k] = E[Append(p, L[p][k])]
    <3> TAKE k \in 1 .. m
    <3>1. h + k \in 1 .. l
      BY <2>2, <2>3, <2>4, <2>5
    <3> QED
      BY <2>1, <2>3, <3>1
  <2>8. \A k \in h + m + 1 .. Len(V) : V[k] = Blank
    <3> TAKE k \in h + m + 1 .. Len(V)
    <3>1. CASE k <= l
      <4>1. k \in h + m + 1 .. Len(U) /\ k \in 1 .. l
        BY <2>1, <2>2, <2>4, <2>5, <3>1
      <4> QED
        BY <2>1, <2>3, <4>1
    <3>2. CASE k > l
      <4>1. k - l \in 1 .. Size /\ l + (k - l) = k
        BY <2>1, <2>2, <2>4, <2>5, <3>2
      <4>2. V[k] = d[c][k - l]
        BY <2>1, <4>1
      <4> QED
        BY <1>12, <4>1, <4>2
    <3> QED
      BY <2>2, <2>4, <2>5, <3>1, <3>2
  <2>9. Headed(d, S[p]) => Headed(d, z)
    BY <2>4, <2>6 DEF Headed, U, V, h
  <2>10. h + m <= Len(V)
    BY <2>1, <2>2, <2>3, <2>4, <2>5
  <2>11. FolderHolds(d, E, T, L, p)
    BY <1>3, <2>3, <2>4, <2>6, <2>7, <2>8, <2>9, <2>10 DEF FolderHolds, V, m
  <2> QED
    BY <2>9, <2>11
<1>13. ASSUME NEW q \in DOMAIN E, E[q].dir, q # p PROVE FolderHolds(d, E, T, L, q)
  <2>1. FolderHolds(d, E, S, L, q) /\ T[q] = S[q]
    BY <1>1, <1>3, <1>13 DEF Holds
  <2> QED
    BY <2>1, FolderKept
<1>14. ASSUME NEW q \in DOMAIN E, ~E[q].dir, NEW x \in ToSet(T[q]) PROVE NoEntries(d, x)
  <2>1. \A y \in ToSet(S[q]) : NoEntries(d, y)
    BY <1>1, <1>14 DEF Holds
  <2>2. CASE q = p
    BY <1>3, <1>7, <1>14, <2>1, <2>2
  <2>3. CASE q # p
    BY <1>3, <1>14, <2>1, <2>3
  <2> QED
    BY <2>2, <2>3
<1>15. Holds(d, E, T, L)
  BY <1>12, <1>13, <1>14 DEF Holds
<1>16. \A q \in DOMAIN E : E[q].dir /\ Headed(d, S[q]) => Headed(d, T[q])
  BY <1>3, <1>12
<1> QED
  BY <1>8, <1>11, <1>15, <1>16 DEF Represents, T

(* A sequence of different elements and a new one.                         *)
LEMMA DistinctLonger ==
  ASSUME NEW X, NEW s \in Seq(X), Distinct(s), NEW x \in X, x \notin ToSet(s)
  PROVE  /\ Append(s, x) \in Seq(X) /\ Distinct(Append(s, x))
         /\ \A y : y \in ToSet(Append(s, x)) <=> y \in ToSet(s) \/ y = x
<1> DEFINE z == Append(s, x)
           n == Len(s)
<1>1. /\ z \in Seq(X) /\ Len(z) = n + 1 /\ z[n + 1] = x /\ \A i \in 1 .. n : z[i] = s[i]
  BY AppendProperties
<1>2. n \in Nat /\ DOMAIN s = 1 .. n
  OBVIOUS
<1>3. DOMAIN z = 1 .. n + 1
  BY <1>1, <1>2
<1> HIDE DEF z, n
<1>4. \A i \in 1 .. n : z[i] # x
  BY <1>1, <1>2 DEF ToSet
<1>5. Distinct(z)
  <2> SUFFICES ASSUME NEW i \in 1 .. n + 1, NEW j \in 1 .. n + 1, z[i] = z[j] PROVE i = j
    BY <1>3 DEF Distinct
  <2>2. CASE i = n + 1
    BY <1>1, <1>2, <1>4, <2>2
  <2>3. CASE j = n + 1
    BY <1>1, <1>2, <1>4, <2>3
  <2>4. CASE i \in 1 .. n /\ j \in 1 .. n
    BY <1>1, <1>2, <2>4 DEF Distinct
  <2> QED
    BY <1>2, <2>2, <2>3, <2>4
<1>6. ASSUME NEW y PROVE y \in ToSet(z) <=> y \in ToSet(s) \/ y = x
  <2>1. ASSUME y \in ToSet(z) PROVE y \in ToSet(s) \/ y = x
    <3>1. PICK i \in 1 .. n + 1 : y = z[i]
      BY <1>3, <2>1 DEF ToSet
    <3>2. i = n + 1 \/ i \in 1 .. n
      BY <1>2, <3>1
    <3> QED
      BY <1>1, <1>2, <3>1, <3>2 DEF ToSet
  <2>2. ASSUME y \in ToSet(s) PROVE y \in ToSet(z)
    <3>1. PICK i \in 1 .. n : y = s[i]
      BY <1>2, <2>2 DEF ToSet
    <3>2. i \in 1 .. n + 1 /\ z[i] = y
      BY <1>1, <1>2, <3>1
    <3> QED
      BY <1>3, <3>2 DEF ToSet
  <2>3. x \in ToSet(z)
    <3>1. n + 1 \in 1 .. n + 1
      BY <1>2
    <3> QED
      BY <1>1, <1>3, <3>1 DEF ToSet
  <2> QED
    BY <2>1, <2>2, <2>3
<1> QED
  BY <1>1, <1>5, <1>6 DEF z

(* The units of a single cluster.                                          *)
LEMMA OneCluster ==
  ASSUME NEW d \in DiskType, NEW c \in Clusters
  PROVE  /\ Shaped(<<c>>) /\ ToSet(<<c>>) = {c} /\ <<c>> # <<Root>> /\ Header(c) = 2
         /\ Len(Units(d, <<c>>)) = Size
         /\ \A j \in 1 .. Size : Units(d, <<c>>)[j] = d[c][j]
<1>1. <<c>> \in Seq(Clusters) /\ <<c>> # <<>> /\ Distinct(<<c>>) /\ Len(<<c>>) = 1 /\ <<c>>[1] = c
      /\ ToSet(<<c>>) = {c}
  BY DEF Distinct, ToSet
<1>2. c # Root /\ Root # c /\ Size \in Nat
  BY ConstantFacts
<1>3. Shaped(<<c>>) /\ <<c>> # <<Root>>
  BY <1>1, <1>2 DEF Shaped
<1>4. /\ Len(Units(d, <<c>>)) = Size * 1 /\ Header(<<c>>[1]) = 2
      /\ \A i \in 1 .. 1 : \A j \in 1 .. Size : Units(d, <<c>>)[Place(Size, i, j)] = d[<<c>>[i]][j]
  BY <1>1, <1>3, ClusterUnits
<1>5. \A j \in 1 .. Size : Place(Size, 1, j) = j
  BY <1>2 DEF Place
<1> QED
  BY <1>1, <1>2, <1>3, <1>4, <1>5

(* The folder p gets an entry behind those it has.                         *)
LEMMA RepresentsEntry ==
  ASSUME NEW t \in TableType, NEW d \in DiskType, NEW E, NEW S, NEW L, Represents(t, d, E, S, L),
         NEW p \in DOMAIN E, E[p].dir, Headed(d, S[p]),
         NEW n \in Names, Append(p, n) \notin DOMAIN E, Append(p, n) \in Paths,
         NEW c \in Clusters, Unused(S, c), t[c] = EOC, NEW dir \in BOOLEAN,
         \A j \in 1 .. Size : d[c][j] = Blank,
         Header(S[p][1]) + Len(L[p]) < Len(Units(d, S[p])),
         NEW e, e = Put(d, S[p], Len(L[p]) + Header(S[p][1]), Entry(n, dir, c, 0))
  PROVE  LET q == Append(p, n)
             F == With(E, q, Entry(n, dir, c, 0))
             T == With(S, q, <<c>>)
             M == With(With(L, p, Append(L[p], n)), q, <<>>)
         IN /\ e \in DiskType /\ Represents(t, e, F, T, M)
            /\ \A x \in DOMAIN E : E[x].dir /\ Headed(d, S[x]) => Headed(e, T[x])
            /\ \A a \in Areas : a \notin ToSet(S[p]) => e[a] = d[a]
<1> DEFINE q == Append(p, n)
           v == Entry(n, dir, c, 0)
           F == With(E, q, v)
           T == With(S, q, <<c>>)
           M == With(With(L, p, Append(L[p], n)), q, <<>>)
           U == Units(d, S[p])
           V == Units(e, S[p])
           h == Header(S[p][1])
           m == Len(L[p])
<1>1. IsTree(E, S, L) /\ ChainsApart(t, E, S) /\ Holds(d, E, S, L)
  BY DEF Represents
<1>2. DOMAIN S = DOMAIN E /\ DOMAIN L = DOMAIN E
  BY <1>1, TreeFacts
<1>3. p \in Seq(Names) /\ L[p] \in Seq(Names) /\ Distinct(L[p]) /\ m \in Nat /\ n \notin ToSet(L[p])
  <2>1. p \in Seq(Names) /\ L[p] \in Seq(Names) /\ Distinct(L[p]) /\ (q \in DOMAIN E <=> n \in ToSet(L[p]))
    BY <1>1, TreeFacts
  <2> QED
    BY <2>1
<1>4. q \in Seq(Names) /\ q # <<>> /\ q # p /\ Front(q) = p /\ Last(q) = n
  BY <1>3, ChildFacts
<1>5. v \in EntryType /\ v.name = n /\ v.first = c /\ v.dir = dir /\ v \in Unit /\ v # Blank /\ v.kind = "entry"
  BY KindFacts DEF EntryType, Entry, Unit
<1> HIDE DEF v
<1>6. DOMAIN F = DOMAIN E \cup {q} /\ F[q] = v /\ \A x \in DOMAIN E : F[x] = E[x]
  BY DEF With
<1>7. DOMAIN T = DOMAIN E \cup {q} /\ T[q] = <<c>> /\ \A x \in DOMAIN E : T[x] = S[x]
  BY <1>2 DEF With
<1>8. /\ DOMAIN M = DOMAIN E \cup {q} /\ M[q] = <<>> /\ M[p] = Append(L[p], n)
      /\ \A x \in DOMAIN E : x # p => M[x] = L[x]
  BY <1>2, <1>4 DEF With
<1> HIDE DEF q, F, T, M
<1>9. /\ Shaped(S[p]) /\ \A x \in DOMAIN E : Shaped(S[x]) /\ S[x] \in Seq(Areas) /\ DOMAIN S[x] = 1 .. Len(S[x])
  BY <1>1, ShapeOf
<1>10. /\ U \in Seq(Unit) /\ Len(U) = Width(S[p][1]) * Len(S[p]) /\ Len(U) \in Nat /\ h \in {1, 2}
  BY <1>9, UnitsFacts, ShapedFacts
<1>11. /\ e \in DiskType /\ Len(V) = Len(U)
       /\ \A i \in 1 .. Len(U) : V[i] = IF i = (m + h) + 1 THEN v ELSE U[i]
       /\ \A a \in Areas : a \notin ToSet(S[p]) => e[a] = d[a]
  <2>1. m + h \in 0 .. Width(S[p][1]) * Len(S[p]) - 1
    <3> HIDE DEF U, m, h
    <3>1. h + m < Len(U)
      BY DEF U, m, h
    <3> QED
      BY <1>3, <1>10, <3>1
  <2>2. e = Put(d, S[p], m + h, v)
    BY DEF v
  <2> HIDE DEF m, h
  <2> QED
    BY <1>5, <1>9, <1>10, <2>1, <2>2, PutFacts
<1>12. h + m < Len(U)
  OBVIOUS
<1>13. \A y \in DOMAIN E : \A x \in Names : Append(y, x) = q <=> y = p /\ x = n
  <2> TAKE y \in DOMAIN E
  <2> TAKE x \in Names
  <2>1. y \in Seq(Names)
    BY <1>1, TreeFacts
  <2>2. Front(Append(y, x)) = y /\ Last(Append(y, x)) = x
    BY <2>1, ChildFacts
  <2> QED
    BY <1>4, <2>2 DEF q
<1>14. \A x \in Names : Append(q, x) \notin DOMAIN E \cup {q}
  <2> TAKE x \in Names
  <2>1. Front(Append(q, x)) = q /\ Append(q, x) # <<>> /\ Append(q, x) # q
    BY <1>4, ChildFacts
  <2>2. q \notin DOMAIN E
    BY DEF q
  <2> DEFINE y == Append(q, x)
  <2>3. Front(y) = q /\ y # <<>> /\ y # q
    BY <2>1
  <2> HIDE DEF y
  <2>4. y \in DOMAIN E => Front(y) \in DOMAIN E
    BY <1>1, <2>3, TreeFacts
  <2> QED
    BY <2>2, <2>3, <2>4 DEF y
<1>15. q \notin DOMAIN E /\ q \in Paths
  BY DEF q
<1>16. /\ Append(L[p], n) \in Seq(Names) /\ Distinct(Append(L[p], n)) /\ Len(Append(L[p], n)) = m + 1
       /\ Append(L[p], n)[m + 1] = n /\ \A i \in 1 .. m : Append(L[p], n)[i] = L[p][i]
       /\ \A y : y \in ToSet(Append(L[p], n)) <=> y \in ToSet(L[p]) \/ y = n
  BY <1>3, DistinctLonger, AppendProperties
<1>17. IsTree(F, T, M)
  <2>1. DOMAIN F \subseteq Paths \cup {<<>>} /\ DOMAIN T = DOMAIN F /\ DOMAIN M = DOMAIN F
    BY <1>1, <1>6, <1>7, <1>8, <1>15, TreeFacts
  <2>2. <<>> \in DOMAIN F /\ F[<<>>] = RootEntry /\ T[<<>>] = <<Root>>
    BY <1>1, <1>6, <1>7, TreeFacts
  <2>3. ASSUME NEW x \in DOMAIN F \ {<<>>}
        PROVE  F[x] \in EntryType /\ F[x].name = Last(x) /\ Front(x) \in DOMAIN F
    <3>1. CASE x = q
      BY <1>4, <1>5, <1>6, <3>1
    <3>2. CASE x # q
      BY <1>1, <1>6, <3>2, TreeFacts
    <3> QED
      BY <3>1, <3>2
  <2>4. ASSUME NEW x \in DOMAIN F
        PROVE  /\ F[x].first = T[x][1]
               /\ M[x] \in Seq(Names) /\ Distinct(M[x]) /\ (~F[x].dir => M[x] = <<>>)
               /\ \A y \in Names : Append(x, y) \in DOMAIN F <=> y \in ToSet(M[x])
    <3>1. CASE x = q
      <4>1. <<>> \in Seq(Names) /\ Distinct(<<>>) /\ ToSet(<<>>) = {} /\ <<c>>[1] = c
        BY DEF Distinct, ToSet
      <4> QED
        BY <1>5, <1>6, <1>7, <1>8, <1>14, <3>1, <4>1
    <3>2. CASE x = p
      <4>1. F[x] = E[x] /\ T[x] = S[x] /\ M[x] = Append(L[p], n)
        BY <1>6, <1>7, <1>8, <3>2
      <4>2. E[p].first = S[p][1] /\ \A y \in Names : Append(p, y) \in DOMAIN E <=> y \in ToSet(L[p])
        BY <1>1, TreeFacts
      <4>3. \A y \in Names : Append(p, y) \in DOMAIN F <=> y \in ToSet(L[p]) \/ y = n
        BY <1>6, <1>13, <4>2
      <4> QED
        BY <1>16, <3>2, <4>1, <4>2, <4>3
    <3>3. CASE x \in DOMAIN E /\ x # p
      <4>1. F[x] = E[x] /\ T[x] = S[x] /\ M[x] = L[x]
        BY <1>6, <1>7, <1>8, <3>3
      <4>2. \A y \in Names : Append(x, y) \in DOMAIN F <=> Append(x, y) \in DOMAIN E
        BY <1>6, <1>13, <3>3
      <4> QED
        BY <1>1, <3>3, <4>1, <4>2, TreeFacts
    <3> QED
      BY <1>6, <3>1, <3>2, <3>3
  <2> QED
    BY <2>1, <2>2, <2>3, <2>4 DEF IsTree
<1>18. ChainsApart(t, F, T)
  <2>1. IsChain(t, <<c>>)
    <3>1. <<c>> \in Seq(Clusters) /\ <<c>> # <<>> /\ Distinct(<<c>>) /\ Len(<<c>>) = 1 /\ <<c>>[1] = c
      BY DEF Distinct
    <3>2. \A i \in 1 .. Len(<<c>>) - 1 : FALSE
      BY <3>1
    <3> QED
      BY <3>1, <3>2 DEF IsChain
  <2>2. ToSet(<<c>>) = {c}
    BY DEF ToSet
  <2>3. \A x \in DOMAIN E : c \notin ToSet(S[x])
    BY <1>2 DEF Unused
  <2>4. ASSUME NEW x \in DOMAIN F \ {<<>>} PROVE IsChain(t, T[x])
    BY <1>1, <1>6, <1>7, <2>1 DEF ChainsApart
  <2>5. ASSUME NEW x \in DOMAIN F \ {<<>>}, NEW y \in DOMAIN F \ {x, <<>>}
        PROVE  ToSet(T[x]) \cap ToSet(T[y]) = {}
    <3>1. CASE x = q
      BY <1>6, <1>7, <2>2, <2>3, <3>1
    <3>2. CASE y = q
      BY <1>6, <1>7, <2>2, <2>3, <3>2
    <3>3. CASE x # q /\ y # q
      BY <1>1, <1>6, <1>7, <3>3 DEF ChainsApart
    <3> QED
      BY <3>1, <3>2, <3>3
  <2> QED
    BY <2>4, <2>5 DEF ChainsApart
<1>19. c \in Areas /\ c \notin ToSet(S[p]) /\ e[c] = d[c]
  BY <1>2, <1>11 DEF Unused, Areas
<1>20. ASSUME NEW x \in DOMAIN E, x # p PROVE \A a \in ToSet(S[x]) : a \in Areas /\ e[a] = d[a]
  <2> TAKE a \in ToSet(S[x])
  <2>1. a \in Areas
    BY <1>9, ElementOfSeq DEF ToSet
  <2>2. a \notin ToSet(S[p])
    BY <1>1, <1>20, Apart
  <2> QED
    BY <1>11, <2>1, <2>2
<1>21. ASSUME NEW x \in DOMAIN E, x # p PROVE Units(e, S[x]) = Units(d, S[x])
  <2>1. \A i \in 1 .. Len(S[x]) : e[S[x][i]] = d[S[x][i]]
    BY <1>9, <1>20, <1>21 DEF ToSet
  <2> QED
    BY <1>9, <1>11, <2>1, UnitsEqual
<1>22. ASSUME NEW x \in DOMAIN E, x # p, E[x].dir PROVE FolderHolds(e, F, T, M, x)
  <2>1. FolderHolds(d, E, S, L, x)
    BY <1>1, <1>22 DEF Holds
  <2>2. \A k \in 1 .. Len(L[x]) : F[Append(x, L[x][k])] = E[Append(x, L[x][k])]
    <3> TAKE k \in 1 .. Len(L[x])
    <3>1. L[x] \in Seq(Names) /\ \A y \in Names : Append(x, y) \in DOMAIN E <=> y \in ToSet(L[x])
      BY <1>1, TreeFacts
    <3>2. L[x][k] \in Names /\ L[x][k] \in ToSet(L[x])
      BY <3>1 DEF ToSet
    <3> QED
      BY <1>6, <3>1, <3>2
  <2> QED
    BY <1>7, <1>8, <1>21, <1>22, <2>1, <2>2, FolderKept
<1>23. FolderHolds(e, F, T, M, p) /\ Headed(e, S[p])
  <2>1. /\ \A k \in 1 .. h : U[k].kind # "entry"
        /\ \A k \in 1 .. m : U[h + k] = E[Append(p, L[p][k])]
        /\ \A k \in h + m + 1 .. Len(U) : U[k] = Blank
    BY <1>1 DEF Holds, FolderHolds
  <2>2. \A k \in 1 .. h : U[k] # Blank
    BY DEF Headed
  <2> HIDE DEF U, V, h, m
  <2>3. \A k \in 1 .. h : V[k] = U[k]
    BY <1>3, <1>10, <1>11, <1>12
  <2>4. \A k \in 1 .. m + 1 : V[h + k] = F[Append(p, Append(L[p], n)[k])]
    <3> TAKE k \in 1 .. m + 1
    <3>1. CASE k = m + 1
      <4>1. h + k = (m + h) + 1 /\ h + k \in 1 .. Len(U)
        BY <1>3, <1>10, <1>12, <3>1
      <4>2. V[h + k] = v
        BY <1>11, <4>1
      <4> QED
        BY <1>6, <1>16, <3>1, <4>2 DEF q
    <3>2. CASE k # m + 1
      <4>1. k \in 1 .. m /\ h + k \in 1 .. Len(U) /\ h + k # (m + h) + 1
        BY <1>3, <1>10, <1>12, <3>2
      <4>2. V[h + k] = E[Append(p, L[p][k])]
        BY <1>11, <2>1, <4>1
      <4>3. Append(p, L[p][k]) \in DOMAIN E
        <5>1. L[p] \in Seq(Names) /\ \A y \in Names : Append(p, y) \in DOMAIN E <=> y \in ToSet(L[p])
          BY <1>1, TreeFacts
        <5>2. L[p][k] \in Names /\ L[p][k] \in ToSet(L[p])
          BY <4>1, <5>1 DEF ToSet, m
        <5> QED
          BY <5>1, <5>2
      <4> QED
        BY <1>6, <1>16, <4>1, <4>2, <4>3
    <3> QED
      BY <3>1, <3>2
  <2>5. \A k \in h + (m + 1) + 1 .. Len(V) : V[k] = Blank
    <3> TAKE k \in h + (m + 1) + 1 .. Len(V)
    <3>1. k \in h + m + 1 .. Len(U) /\ k # (m + h) + 1 /\ k \in 1 .. Len(U)
      BY <1>3, <1>10, <1>11, <1>12
    <3> QED
      BY <1>11, <2>1, <3>1
  <2>6. h + (m + 1) <= Len(V)
    BY <1>3, <1>10, <1>11, <1>12
  <2>7. Headed(e, S[p])
    BY <2>2, <2>3 DEF Headed, U, V, h
  <2>8. \A k \in 1 .. h : V[k].kind # "entry"
    BY <2>1, <2>3
  <2>9. T[p] = S[p] /\ M[p] = Append(L[p], n) /\ Len(M[p]) = m + 1
    BY <1>7, <1>8, <1>16
  <2> QED
    BY <2>4, <2>5, <2>6, <2>7, <2>8, <2>9 DEF FolderHolds, V, h
<1>24. ASSUME dir PROVE FolderHolds(e, F, T, M, q)
  <2>1. /\ ToSet(<<c>>) = {c} /\ Header(c) = 2 /\ Len(Units(e, <<c>>)) = Size
        /\ \A j \in 1 .. Size : Units(e, <<c>>)[j] = e[c][j]
    BY <1>11, OneCluster
  <2>2. \A j \in 1 .. Size : Units(e, <<c>>)[j] = Blank
    BY <1>19, <2>1
  <2>3. Size > 2 /\ Size \in Nat
    BY ConstantFacts
  <2>4. T[q] = <<c>> /\ M[q] = <<>> /\ Len(<<>>) = 0 /\ <<c>>[1] = c
    BY <1>7, <1>8
  <2>5. \A k \in 1 .. 2 : Units(e, <<c>>)[k] = Blank
    BY <2>2, <2>3
  <2>6. \A k \in 2 + 0 + 1 .. Size : Units(e, <<c>>)[k] = Blank
    BY <2>2, <2>3
  <2>7. 2 + 0 <= Size /\ \A k \in 1 .. 0 : FALSE
    BY <2>3
  <2> QED
    BY <2>1, <2>4, <2>5, <2>6, <2>7, KindFacts DEF FolderHolds
<1>25. NoEntries(e, c)
  BY <1>19, KindFacts DEF NoEntries
<1>26. ASSUME NEW x \in DOMAIN F
       PROVE  IF F[x].dir THEN FolderHolds(e, F, T, M, x) ELSE \A a \in ToSet(T[x]) : NoEntries(e, a)
  <2>1. CASE x = q
    <3>1. F[x].dir = dir /\ T[x] = <<c>> /\ ToSet(<<c>>) = {c}
      BY <1>5, <1>6, <1>7, <2>1 DEF ToSet
    <3> QED
      BY <1>24, <1>25, <2>1, <3>1
  <2>2. CASE x = p
    BY <1>6, <1>23, <2>2
  <2>3. CASE x \in DOMAIN E /\ x # p
    <3>1. F[x] = E[x] /\ T[x] = S[x]
      BY <1>6, <1>7, <2>3
    <3>2. CASE E[x].dir
      BY <1>22, <2>3, <3>1, <3>2
    <3>3. CASE ~E[x].dir
      <4>1. \A a \in ToSet(S[x]) : NoEntries(d, a) /\ e[a] = d[a]
        BY <1>1, <1>20, <2>3, <3>3 DEF Holds
      <4> QED
        BY <3>1, <3>3, <4>1 DEF NoEntries
    <3> QED
      BY <3>2, <3>3
  <2> QED
    BY <1>6, <2>1, <2>2, <2>3
<1>27. Holds(e, F, T, M)
  BY <1>26 DEF Holds
<1>28. \A x \in DOMAIN E : E[x].dir /\ Headed(d, S[x]) => Headed(e, T[x])
  <2> TAKE x \in DOMAIN E
  <2>1. CASE x = p
    BY <1>7, <1>23, <2>1
  <2>2. CASE x # p
    BY <1>7, <1>21, <2>2 DEF Headed
  <2> QED
    BY <2>1, <2>2
<1> QED
  BY <1>11, <1>17, <1>18, <1>27, <1>28 DEF Represents, F, T, M, q, v

(***************************************************************************)
(* What a tree gains: an entry and its cluster.                            *)
(***************************************************************************)

(* What a folder lists exists.                                             *)
LEMMA Listed ==
  ASSUME NEW E, NEW S, NEW L, IsTree(E, S, L), NEW p \in DOMAIN E, NEW k \in 1 .. Len(L[p])
  PROVE  /\ L[p][k] \in Names /\ L[p][k] \in ToSet(L[p])
         /\ Append(p, L[p][k]) \in DOMAIN E /\ Append(p, L[p][k]) # <<>>
         /\ Front(Append(p, L[p][k])) = p /\ Last(Append(p, L[p][k])) = L[p][k]
<1>1. /\ p \in Seq(Names) /\ L[p] \in Seq(Names)
      /\ \A y \in Names : Append(p, y) \in DOMAIN E <=> y \in ToSet(L[p])
  BY TreeFacts
<1>2. L[p][k] \in Names /\ L[p][k] \in ToSet(L[p])
  BY <1>1 DEF ToSet
<1> QED
  BY <1>1, <1>2, ChildFacts

(* A folder other than the root lists each path that exists once.          *)
LEMMA ListedAt ==
  ASSUME NEW E, NEW S, NEW L, IsTree(E, S, L), NEW p \in DOMAIN E, p # <<>>
  PROVE  /\ Front(p) \in DOMAIN E /\ E[Front(p)].dir /\ Front(p) # p /\ Last(p) \in Names
         /\ Append(Front(p), Last(p)) = p
         /\ \E k \in 1 .. Len(L[Front(p)]) : L[Front(p)][k] = Last(p)
<1>1. p \in Seq(Names) /\ Front(p) \in DOMAIN E
  BY TreeFacts
<1>2. Front(p) \in Seq(Names) /\ Last(p) \in Names /\ Append(Front(p), Last(p)) = p /\ Front(p) # p
  BY <1>1, PathFacts
<1>3. /\ L[Front(p)] \in Seq(Names) /\ E[Front(p)].dir \in BOOLEAN
      /\ (~E[Front(p)].dir => L[Front(p)] = <<>>)
      /\ Last(p) \in ToSet(L[Front(p)])
  <2> DEFINE f == Front(p)
             n == Last(p)
  <2>1. f \in DOMAIN E /\ n \in Names /\ Append(f, n) \in DOMAIN E
    BY <1>1, <1>2
  <2> HIDE DEF f, n
  <2>2. /\ L[f] \in Seq(Names) /\ E[f].dir \in BOOLEAN /\ (~E[f].dir => L[f] = <<>>)
        /\ n \in ToSet(L[f])
    BY <2>1, TreeFacts
  <2> QED
    BY <2>2 DEF f, n
<1>4. \E k \in 1 .. Len(L[Front(p)]) : L[Front(p)][k] = Last(p)
  BY <1>3 DEF ToSet
<1>5. E[Front(p)].dir
  <2>1. L[Front(p)] # <<>>
    BY <1>3, <1>4
  <2> QED
    BY <1>3, <2>1
<1> QED
  BY <1>1, <1>2, <1>4, <1>5

(* The header of a new folder is written: it stays as empty as it was.     *)
LEMMA RepresentsHeader ==
  ASSUME NEW t \in TableType, NEW d \in DiskType, NEW E, NEW S, NEW L, Represents(t, d, E, S, L),
         NEW p \in DOMAIN E, p # <<>>, E[p].dir, L[p] = <<>>,
         NEW c \in Clusters, S[p] = <<c>>, NEW up \in Areas,
         NEW e, e = Paste(d, c, FolderBasics(c, up))
  PROVE  /\ e \in DiskType /\ Represents(t, e, E, S, L) /\ Headed(e, S[p])
         /\ \A x \in DOMAIN E : E[x].dir /\ Headed(d, S[x]) => Headed(e, S[x])
         /\ \A a \in Areas : a # c => e[a] = d[a]
<1> DEFINE B == FolderBasics(c, up)
<1>1. IsTree(E, S, L) /\ ChainsApart(t, E, S) /\ Holds(d, E, S, L)
  BY DEF Represents
<1>2. Size \in Nat /\ Size > 2 /\ c \in Areas /\ c # Root
  BY ConstantFacts DEF Areas
<1>3. /\ B \in Seq(Unit) /\ Len(B) = Size /\ B[1] = Dot(c) /\ B[2] = Dot(up)
      /\ \A j \in 3 .. Size : B[j] = Blank
  <2>1. Dot(c) \in Unit /\ Dot(up) \in Unit /\ Blank \in Unit
    BY <1>2 DEF Unit
  <2>2. B = [[[i \in 1 .. Size |-> Blank] EXCEPT ![1] = Dot(c)] EXCEPT ![2] = Dot(up)]
    BY DEF FolderBasics, BlankCluster
  <2>3. B \in [1 .. Size -> Unit] /\ B[1] = Dot(c) /\ B[2] = Dot(up) /\ \A j \in 3 .. Size : B[j] = Blank
    <3> DEFINE B0 == [i \in 1 .. Size |-> Blank]
               B1 == [B0 EXCEPT ![1] = Dot(c)]
    <3> HIDE DEF Unit, Blank, Dot
    <3>1. B0 \in [1 .. Size -> Unit] /\ \A j \in 1 .. Size : B0[j] = Blank
      BY <2>1
    <3>2. B = [B1 EXCEPT ![2] = Dot(up)]
      BY <2>2
    <3>3. 1 \in 1 .. Size /\ 2 \in 1 .. Size /\ \A j \in 3 .. Size : j \in 1 .. Size /\ j # 1 /\ j # 2
      BY <1>2
    <3> HIDE DEF B0
    <3>4. B1 \in [1 .. Size -> Unit] /\ B1[1] = Dot(c) /\ \A j \in 1 .. Size : j # 1 => B1[j] = B0[j]
      BY <2>1, <3>1, <3>3
    <3> HIDE DEF B, B1
    <3>5. B \in [1 .. Size -> Unit] /\ B[2] = Dot(up) /\ \A j \in 1 .. Size : j # 2 => B[j] = B1[j]
      BY <2>1, <3>2, <3>3, <3>4
    <3> QED
      BY <3>1, <3>3, <3>4, <3>5
  <2> QED
    BY <1>2, <2>3
<1> HIDE DEF B
<1>4. e \in DiskType /\ e[c] = B /\ \A a \in Areas : a # c => e[a] = d[a]
  <2>1. d \in [Areas -> Seq(Unit)] /\ \A a \in Areas : Len(d[a]) = Width(a)
    BY DEF DiskType
  <2>2. e = [d EXCEPT ![c] = B]
    BY DEF B, Paste
  <2>3. e \in [Areas -> Seq(Unit)] /\ e[c] = B /\ \A a \in Areas : a # c => e[a] = d[a]
    BY <1>2, <1>3, <2>1, <2>2
  <2>4. Width(c) = Size
    BY <1>2 DEF Width
  <2>5. \A a \in Areas : Len(e[a]) = Width(a)
    <3> TAKE a \in Areas
    <3>1. CASE a = c
      BY <1>3, <2>3, <2>4, <3>1
    <3>2. CASE a # c
      BY <2>1, <2>3, <3>2
    <3> QED
      BY <3>1, <3>2
  <2> QED
    BY <2>3, <2>5 DEF DiskType
<1>5. /\ ToSet(<<c>>) = {c} /\ Header(c) = 2 /\ Len(Units(e, <<c>>)) = Size
      /\ \A j \in 1 .. Size : Units(e, <<c>>)[j] = e[c][j]
  BY <1>4, OneCluster
<1>6. ASSUME NEW x \in DOMAIN E, x # p PROVE \A a \in ToSet(S[x]) : a \in Areas => e[a] = d[a]
  <2> TAKE a \in ToSet(S[x])
  <2>1. c \in ToSet(S[p])
    BY <1>5
  <2>2. a # c
    BY <1>1, <1>6, <2>1, Apart
  <2> QED
    BY <1>4, <2>2
<1>7. ASSUME NEW x \in DOMAIN E, x # p PROVE Units(e, S[x]) = Units(d, S[x])
  <2>1. Shaped(S[x]) /\ S[x] \in Seq(Areas) /\ DOMAIN S[x] = 1 .. Len(S[x])
    BY <1>1, ShapeOf
  <2>2. \A i \in 1 .. Len(S[x]) : S[x][i] \in Areas /\ S[x][i] \in ToSet(S[x])
    BY <2>1 DEF ToSet
  <2>3. \A i \in 1 .. Len(S[x]) : e[S[x][i]] = d[S[x][i]]
    BY <1>6, <1>7, <2>2
  <2> QED
    BY <1>4, <2>1, <2>3, UnitsEqual
<1>8. FolderHolds(e, E, S, L, p) /\ Headed(e, S[p])
  <2>1. <<c>>[1] = c /\ Len(<<>>) = 0
    OBVIOUS
  <2>2. /\ Units(e, <<c>>)[1] = Dot(c) /\ Units(e, <<c>>)[2] = Dot(up)
        /\ \A k \in 3 .. Size : Units(e, <<c>>)[k] = Blank
    <3>1. 1 \in 1 .. Size /\ 2 \in 1 .. Size /\ \A k \in 3 .. Size : k \in 1 .. Size
      BY <1>2
    <3> QED
      BY <1>3, <1>4, <1>5, <3>1
  <2>3. \A k \in 1 .. 2 : Units(e, <<c>>)[k].kind = "dot"
    <3>1. \A k \in 1 .. 2 : k = 1 \/ k = 2
      OBVIOUS
    <3> QED
      BY <2>2, <3>1, KindFacts
  <2>4. \A k \in 1 .. 2 : Units(e, <<c>>)[k] # Blank /\ Units(e, <<c>>)[k].kind # "entry"
    BY <2>3, KindFacts
  <2>5. Headed(e, <<c>>)
    BY <1>5, <2>1, <2>4 DEF Headed
  <2>6. \A k \in 2 + 0 + 1 .. Size : Units(e, <<c>>)[k] = Blank
    <3>1. \A k \in 2 + 0 + 1 .. Size : k \in 3 .. Size
      BY <1>2
    <3> QED
      BY <2>2, <3>1
  <2>7. 2 + 0 <= Size /\ \A k \in 1 .. 0 : FALSE
    BY <1>2
  <2>8. S[p] = <<c>> /\ L[p] = <<>>
    OBVIOUS
  <2>9. FolderHolds(e, E, S, L, p)
    <3> DEFINE U == Units(e, S[p])
    <3>1. /\ Header(S[p][1]) = 2 /\ Len(L[p]) = 0 /\ Len(U) = Size /\ Headed(e, S[p])
          /\ \A k \in 1 .. 2 : U[k].kind # "entry"
          /\ \A k \in 2 + 0 + 1 .. Size : U[k] = Blank
      <4>1. U = Units(e, <<c>>) /\ S[p][1] = c /\ Len(L[p]) = 0 /\ Headed(e, S[p])
        BY <2>1, <2>5, <2>8
      <4>2. Header(S[p][1]) = 2 /\ Len(U) = Size
        BY <1>5, <4>1
      <4> HIDE DEF U
      <4> QED
        BY <2>4, <2>6, <4>1, <4>2
    <3> HIDE DEF U
    <3> QED
      BY <2>7, <3>1 DEF FolderHolds, U
  <2> QED
    BY <2>5, <2>8, <2>9
<1>9. ASSUME NEW x \in DOMAIN E
      PROVE  IF E[x].dir THEN FolderHolds(e, E, S, L, x) ELSE \A a \in ToSet(S[x]) : NoEntries(e, a)
  <2>1. CASE x = p
    BY <1>8, <2>1
  <2>2. CASE x # p /\ E[x].dir
    <3>1. FolderHolds(d, E, S, L, x)
      BY <1>1, <2>2 DEF Holds
    <3> QED
      BY <1>7, <2>2, <3>1, FolderKept
  <2>3. CASE x # p /\ ~E[x].dir
    <3>1. \A a \in ToSet(S[x]) : NoEntries(d, a) /\ a \in Areas
      <4>1. S[x] \in Seq(Areas)
        BY <1>1, ShapeOf
      <4> QED
        BY <1>1, <2>3, <4>1, ElementOfSeq DEF Holds, ToSet
    <3> QED
      BY <1>6, <2>3, <3>1 DEF NoEntries
  <2> QED
    BY <2>1, <2>2, <2>3
<1>10. \A x \in DOMAIN E : E[x].dir /\ Headed(d, S[x]) => Headed(e, S[x])
  <2> TAKE x \in DOMAIN E
  <2>1. CASE x = p
    BY <1>8, <2>1
  <2>2. CASE x # p
    BY <1>7, <2>2 DEF Headed
  <2> QED
    BY <2>1, <2>2
<1> QED
  BY <1>1, <1>4, <1>8, <1>9, <1>10 DEF Represents, Holds

(* PutFacts without the product.                                           *)
LEMMA PutIn ==
  ASSUME NEW d \in DiskType, NEW s, Shaped(s), NEW u \in Unit,
         NEW k \in Nat, k < Len(Units(d, s)), NEW e, e = Put(d, s, k, u)
  PROVE  /\ e \in DiskType
         /\ Len(Units(e, s)) = Len(Units(d, s))
         /\ \A i \in 1 .. Len(Units(d, s)) :
              Units(e, s)[i] = IF i = k + 1 THEN u ELSE Units(d, s)[i]
         /\ \A a \in Areas : a \notin ToSet(s) => e[a] = d[a]
<1>1. Len(Units(d, s)) = Width(s[1]) * Len(s) /\ Width(s[1]) * Len(s) \in Nat
  BY UnitsFacts
<1>2. k \in 0 .. Width(s[1]) * Len(s) - 1
  BY <1>1
<1> QED
  BY <1>1, <1>2, PutFacts

(* The size of a file is rewritten in the folder that lists it.            *)
LEMMA RepresentsSize ==
  ASSUME NEW t \in TableType, NEW d \in DiskType, NEW E, NEW S, NEW L, Represents(t, d, E, S, L),
         NEW p \in DOMAIN E, p # <<>>, ~E[p].dir, NEW n \in Nat,
         NEW f, f = Front(p), NEW k \in 1 .. Len(L[f]), L[f][k] = Last(p),
         NEW v, v = [E[p] EXCEPT !.size = n],
         NEW e, e = Put(d, S[f], k - 1 + Header(S[f][1]), v)
  PROVE  /\ e \in DiskType /\ Represents(t, e, With(E, p, v), S, L)
         /\ \A x \in DOMAIN E : E[x].dir /\ Headed(d, S[x]) => Headed(e, S[x])
         /\ \A a \in Areas : a \notin ToSet(S[f]) => e[a] = d[a]
<1> DEFINE F == With(E, p, v)
           U == Units(d, S[f])
           V == Units(e, S[f])
           h == Header(S[f][1])
           m == Len(L[f])
<1>1. IsTree(E, S, L) /\ ChainsApart(t, E, S) /\ Holds(d, E, S, L)
  BY DEF Represents
<1>2. /\ f \in DOMAIN E /\ E[f].dir /\ f # p /\ Append(f, Last(p)) = p /\ Last(p) \in Names
  BY <1>1, ListedAt
<1>3. /\ E[p] \in EntryType /\ E[p].first = S[p][1] /\ E[p].name = Last(p)
  BY <1>1, TreeFacts
<1>4. v \in EntryType /\ v.name = Last(p) /\ v.first = E[p].first /\ v.dir = E[p].dir /\ v.size = n
  BY <1>3 DEF EntryType
<1>5. v \in Unit /\ v # Blank /\ v.kind = "entry"
  BY <1>4, KindFacts DEF Unit
<1>6. DOMAIN F = DOMAIN E /\ F[p] = v /\ \A x \in DOMAIN E : x # p => F[x] = E[x]
  BY DEF With
<1>7. \A x \in DOMAIN E : F[x].dir = E[x].dir /\ F[x].first = E[x].first
  BY <1>4, <1>6
<1> HIDE DEF F
<1>8. L[f] \in Seq(Names) /\ Distinct(L[f]) /\ m \in Nat /\ k \in 1 .. m
  BY <1>1, <1>2, TreeFacts
<1>9. /\ Shaped(S[f]) /\ \A x \in DOMAIN E : Shaped(S[x]) /\ S[x] \in Seq(Areas) /\ DOMAIN S[x] = 1 .. Len(S[x])
  BY <1>1, <1>2, ShapeOf
<1>10. U \in Seq(Unit) /\ Len(U) = Width(S[f][1]) * Len(S[f]) /\ Len(U) \in Nat /\ h \in {1, 2}
  BY <1>9, UnitsFacts, ShapedFacts
<1>11. /\ h + m <= Len(U)
       /\ \A i \in 1 .. h : U[i].kind # "entry"
       /\ Headed(d, S[f]) \/ (m = 0 /\ \A i \in 1 .. h : U[i] = Blank)
       /\ \A i \in 1 .. m : U[h + i] = E[Append(f, L[f][i])]
       /\ \A i \in h + m + 1 .. Len(U) : U[i] = Blank
  BY <1>1, <1>2 DEF Holds, FolderHolds
<1>12. /\ e \in DiskType /\ Len(V) = Len(U)
       /\ \A i \in 1 .. Len(U) : V[i] = IF i = (k - 1 + h) + 1 THEN v ELSE U[i]
       /\ \A a \in Areas : a \notin ToSet(S[f]) => e[a] = d[a]
  <2>1. k - 1 + h \in 0 .. Width(S[f][1]) * Len(S[f]) - 1
    <3> HIDE DEF U, m, h
    <3> QED
      BY <1>8, <1>10, <1>11
  <2> DEFINE j == k - 1 + h
  <2>2. e = Put(d, S[f], j, v) /\ j \in Nat /\ j < Len(U)
    BY <1>10, <2>1
  <2>3. Shaped(S[f])
    BY <1>9
  <2> HIDE DEF j, U, V
  <2>4. /\ e \in DiskType /\ Len(V) = Len(U)
        /\ \A i \in 1 .. Len(U) : V[i] = IF i = j + 1 THEN v ELSE U[i]
        /\ \A a \in Areas : a \notin ToSet(S[f]) => e[a] = d[a]
    <3>1. e \in DiskType
      BY <1>5, <2>2, <2>3, PutIn DEF U
    <3>2. Len(V) = Len(U)
      BY <1>5, <2>2, <2>3, PutIn DEF U, V
    <3>3. \A i \in 1 .. Len(U) : V[i] = IF i = j + 1 THEN v ELSE U[i]
      BY <1>5, <2>2, <2>3, PutIn DEF U, V
    <3>4. \A a \in Areas : a \notin ToSet(S[f]) => e[a] = d[a]
      BY <1>5, <2>2, <2>3, PutIn DEF U
    <3> QED
      BY <3>1, <3>2, <3>3, <3>4
  <2> QED
    BY <1>10, <2>4 DEF j
<1> HIDE DEF U, V, h, m
<1>13. \A i \in 1 .. Len(U) : V[i] = IF i = h + k THEN v ELSE U[i]
  <2>1. (k - 1 + h) + 1 = h + k
    BY <1>8, <1>10
  <2> QED
    BY <1>12, <2>1
<1>14. /\ \A i \in 1 .. h : i \in 1 .. Len(U) /\ i # h + k
       /\ \A i \in 1 .. m : h + i \in 1 .. Len(U) /\ (h + i = h + k => i = k)
       /\ \A i \in h + m + 1 .. Len(U) : i \in 1 .. Len(U) /\ i # h + k
  BY <1>8, <1>10, <1>11
<1>15. IsTree(F, S, L)
  <2>1. /\ DOMAIN E \subseteq Paths \cup {<<>>} /\ DOMAIN S = DOMAIN E /\ DOMAIN L = DOMAIN E
        /\ <<>> \in DOMAIN E /\ E[<<>>] = RootEntry /\ S[<<>>] = <<Root>>
        /\ \A x \in DOMAIN E \ {<<>>} :
             E[x] \in EntryType /\ E[x].name = Last(x) /\ Front(x) \in DOMAIN E
        /\ \A x \in DOMAIN E :
             /\ E[x].first = S[x][1]
             /\ L[x] \in Seq(Names) /\ Distinct(L[x]) /\ (~E[x].dir => L[x] = <<>>)
             /\ \A y \in Names : Append(x, y) \in DOMAIN E <=> y \in ToSet(L[x])
    BY <1>1 DEF IsTree
  <2>2. \A x \in DOMAIN F \ {<<>>} : F[x] \in EntryType /\ F[x].name = Last(x) /\ Front(x) \in DOMAIN F
    BY <1>4, <1>6, <2>1
  <2>3. F[<<>>] = RootEntry
    BY <1>6, <2>1
  <2>4. \A x \in DOMAIN F : /\ F[x].first = S[x][1]
                            /\ L[x] \in Seq(Names) /\ Distinct(L[x]) /\ (~F[x].dir => L[x] = <<>>)
                            /\ \A y \in Names : Append(x, y) \in DOMAIN F <=> y \in ToSet(L[x])
    BY <1>6, <1>7, <2>1
  <2> QED
    BY <1>6, <2>1, <2>2, <2>3, <2>4 DEF IsTree
<1>16. ChainsApart(t, F, S)
  BY <1>1, <1>6 DEF ChainsApart
<1>17. ASSUME NEW x \in DOMAIN E, x # f PROVE \A a \in ToSet(S[x]) : a \in Areas /\ e[a] = d[a]
  <2> TAKE a \in ToSet(S[x])
  <2>1. a \in Areas
    BY <1>9, ElementOfSeq DEF ToSet
  <2>2. a \notin ToSet(S[f])
    BY <1>1, <1>2, <1>17, Apart
  <2> QED
    BY <1>12, <2>1, <2>2
<1>18. ASSUME NEW x \in DOMAIN E, x # f PROVE Units(e, S[x]) = Units(d, S[x])
  <2>1. \A i \in 1 .. Len(S[x]) : e[S[x][i]] = d[S[x][i]]
    BY <1>9, <1>17, <1>18 DEF ToSet
  <2> QED
    BY <1>9, <1>12, <2>1, UnitsEqual
<1>19. ASSUME NEW x \in DOMAIN E, NEW i \in 1 .. Len(L[x]), Append(x, L[x][i]) = p
       PROVE  x = f /\ i = k
  <2>1. Front(Append(x, L[x][i])) = x /\ Last(Append(x, L[x][i])) = L[x][i]
    BY <1>1, Listed
  <2>2. x = f /\ L[f][i] = Last(p)
    BY <1>19, <2>1
  <2> QED
    BY <1>8, <1>19, <2>2 DEF Distinct, m
<1>20. ASSUME NEW x \in DOMAIN E, x # f, E[x].dir PROVE FolderHolds(e, F, S, L, x)
  <2>1. FolderHolds(d, E, S, L, x)
    BY <1>1, <1>20 DEF Holds
  <2>2. \A i \in 1 .. Len(L[x]) : F[Append(x, L[x][i])] = E[Append(x, L[x][i])]
    <3> TAKE i \in 1 .. Len(L[x])
    <3>1. Append(x, L[x][i]) \in DOMAIN E
      BY <1>1, Listed
    <3>2. Append(x, L[x][i]) # p
      BY <1>19, <1>20
    <3> QED
      BY <1>6, <3>1, <3>2
  <2> QED
    BY <1>18, <1>20, <2>1, <2>2, FolderKept
<1>21. FolderHolds(e, F, S, L, f) /\ (Headed(d, S[f]) => Headed(e, S[f]))
  <2>1. \A i \in 1 .. h : V[i] = U[i]
    BY <1>13, <1>14
  <2>2. \A i \in 1 .. m : V[h + i] = F[Append(f, L[f][i])]
    <3> TAKE i \in 1 .. m
    <3>1. CASE i = k
      BY <1>2, <1>6, <1>13, <1>14, <3>1
    <3>2. CASE i # k
      <4>1. Append(f, L[f][i]) \in DOMAIN E
        BY <1>1, <1>2, Listed DEF m
      <4>2. Append(f, L[f][i]) # p
        BY <1>2, <1>19, <3>2 DEF m
      <4>3. V[h + i] = U[h + i]
        BY <1>13, <1>14, <3>2
      <4> QED
        BY <1>6, <1>11, <4>1, <4>2, <4>3
    <3> QED
      BY <3>1, <3>2
  <2>3. \A i \in h + m + 1 .. Len(V) : V[i] = Blank
    BY <1>11, <1>12, <1>13, <1>14
  <2>4. Headed(d, S[f]) => Headed(e, S[f])
    BY <2>1 DEF Headed, U, V, h
  <2>5. h + m <= Len(V) /\ \A i \in 1 .. h : V[i].kind # "entry"
    BY <1>11, <1>12, <2>1
  <2>6. Headed(e, S[f]) \/ (m = 0 /\ \A i \in 1 .. h : V[i] = Blank)
    BY <1>11, <2>1, <2>4
  <2> QED
    BY <2>2, <2>3, <2>4, <2>5, <2>6 DEF FolderHolds, V, h, m
<1>22. ASSUME NEW x \in DOMAIN F
       PROVE  IF F[x].dir THEN FolderHolds(e, F, S, L, x) ELSE \A a \in ToSet(S[x]) : NoEntries(e, a)
  <2>0. x \in DOMAIN E /\ F[x].dir = E[x].dir
    BY <1>6, <1>7
  <2>1. CASE x = f
    BY <1>2, <1>21, <2>0, <2>1
  <2>2. CASE x # f /\ E[x].dir
    BY <1>20, <2>0, <2>2
  <2>3. CASE x # f /\ ~E[x].dir
    <3>1. \A a \in ToSet(S[x]) : NoEntries(d, a) /\ e[a] = d[a]
      BY <1>1, <1>17, <2>0, <2>3 DEF Holds
    <3> QED
      BY <2>0, <2>3, <3>1 DEF NoEntries
  <2> QED
    BY <2>1, <2>2, <2>3
<1>23. \A x \in DOMAIN E : E[x].dir /\ Headed(d, S[x]) => Headed(e, S[x])
  <2> TAKE x \in DOMAIN E
  <2>1. CASE x = f
    BY <1>21, <2>1
  <2>2. CASE x # f
    BY <1>18, <2>2 DEF Headed
  <2> QED
    BY <2>1, <2>2
<1> QED
  BY <1>12, <1>15, <1>16, <1>22, <1>23 DEF Represents, Holds, F

(***************************************************************************)
(* What a tree loses: an entry and its clusters.                           *)
(***************************************************************************)

(* A sequence without its element k.                                       *)
LEMMA RemoveAtFacts ==
  ASSUME NEW X, NEW s \in Seq(X), NEW k \in 1 .. Len(s)
  PROVE  /\ RemoveAt(s, k) \in Seq(X) /\ Len(RemoveAt(s, k)) = Len(s) - 1
         /\ \A i \in 1 .. Len(s) - 1 : RemoveAt(s, k)[i] = IF i < k THEN s[i] ELSE s[i + 1]
<1> DEFINE n == Len(s)
           x == SubSeq(s, 1, k - 1)
           y == SubSeq(s, k + 1, n)
<1>1. n \in Nat /\ k \in 1 .. n /\ \A i \in 1 .. n : s[i] \in X
  OBVIOUS
<1>2. x \in Seq(X) /\ Len(x) = k - 1 /\ \A i \in 1 .. k - 1 : x[i] = s[i]
  <2>1. \A i \in 1 .. k - 1 : s[i] \in X
    BY <1>1
  <2> QED
    BY <1>1, <2>1
<1>3. y \in Seq(X) /\ Len(y) = n - k /\ \A i \in 1 .. n - k : y[i] = s[k + i]
  <2>1. \A i \in k + 1 .. n : s[i] \in X
    BY <1>1
  <2>2. IF k + 1 <= n THEN Len(y) = n - k ELSE y = <<>>
    BY <1>1
  <2> QED
    BY <1>1, <2>1, <2>2
<1>4. RemoveAt(s, k) = x \o y
  BY DEF RemoveAt
<1> HIDE DEF x, y, n
<1>5. /\ x \o y \in Seq(X) /\ Len(x \o y) = n - 1
      /\ \A i \in 1 .. n - 1 : (x \o y)[i] = IF i < k THEN s[i] ELSE s[i + 1]
  <2>1. x \o y \in Seq(X) /\ Len(x \o y) = n - 1
    <3>1. x \o y \in Seq(X) /\ Len(x \o y) = Len(x) + Len(y)
      BY <1>2, <1>3, ConcatProperties
    <3> QED
      BY <1>1, <1>2, <1>3, <3>1
  <2>2. ASSUME NEW i \in 1 .. n - 1 PROVE (x \o y)[i] = IF i < k THEN s[i] ELSE s[i + 1]
    <3>1. CASE i < k
      BY <1>1, <1>2, <1>3, <3>1
    <3>2. CASE i >= k
      <4>1. (x \o y)[i] = y[i - (k - 1)]
        BY <1>1, <1>2, <1>3, <3>2
      <4>2. i - (k - 1) \in 1 .. n - k /\ k + (i - (k - 1)) = i + 1
        BY <1>1, <3>2
      <4>3. y[i - (k - 1)] = s[k + (i - (k - 1))]
        BY <1>3, <4>2
      <4> QED
        BY <1>1, <3>2, <4>1, <4>2, <4>3
    <3>3. i < k \/ i >= k
      BY <1>1
    <3> QED
      BY <3>1, <3>2, <3>3
  <2> QED
    BY <2>1, <2>2
<1> QED
  BY <1>4, <1>5 DEF n

(* Different elements stay different without one of them.                  *)
LEMMA DistinctWithout ==
  ASSUME NEW X, NEW s \in Seq(X), Distinct(s), NEW k \in 1 .. Len(s)
  PROVE  /\ Distinct(RemoveAt(s, k))
         /\ \A y : y \in ToSet(RemoveAt(s, k)) <=> y \in ToSet(s) /\ y # s[k]
<1> DEFINE r == RemoveAt(s, k)
           n == Len(s)
<1>1. /\ r \in Seq(X) /\ Len(r) = n - 1 /\ n \in Nat /\ k \in 1 .. n
      /\ \A i \in 1 .. n - 1 : r[i] = IF i < k THEN s[i] ELSE s[i + 1]
  BY RemoveAtFacts
<1>2. DOMAIN r = 1 .. n - 1 /\ DOMAIN s = 1 .. n
  BY <1>1
<1> HIDE DEF r, n
<1>3. \A i, j \in 1 .. n : s[i] = s[j] => i = j
  BY <1>2 DEF Distinct
<1>4. Distinct(r)
  <2>1. ASSUME NEW i \in 1 .. n - 1, NEW j \in 1 .. n - 1, r[i] = r[j] PROVE i = j
    <3> DEFINE a == IF i < k THEN i ELSE i + 1
               b == IF j < k THEN j ELSE j + 1
    <3>1. r[i] = s[a] /\ r[j] = s[b]
      BY <1>1
    <3>2. a \in 1 .. n /\ b \in 1 .. n
      BY <1>1
    <3>3. a = b
      <4> HIDE DEF a, b
      <4> QED
        BY <1>3, <2>1, <3>1, <3>2
    <3> QED
      BY <1>1, <3>3
  <2> QED
    BY <1>2, <2>1 DEF Distinct
<1>5. ASSUME NEW i \in 1 .. n - 1 PROVE r[i] \in ToSet(s) /\ r[i] # s[k]
  <2> DEFINE a == IF i < k THEN i ELSE i + 1
  <2>1. r[i] = s[a] /\ a \in 1 .. n /\ a # k
    BY <1>1
  <2> HIDE DEF a
  <2> QED
    BY <1>1, <1>2, <1>3, <2>1 DEF ToSet
<1>6. ASSUME NEW a \in 1 .. n, s[a] # s[k] PROVE \E i \in 1 .. n - 1 : r[i] = s[a]
  <2>1. CASE a < k
    <3>1. a \in 1 .. n - 1 /\ r[a] = s[a]
      BY <1>1, <2>1
    <3> QED
      BY <3>1
  <2>2. CASE a > k
    <3> DEFINE i == a - 1
    <3>1. i \in 1 .. n - 1 /\ i + 1 = a /\ ~(i < k)
      BY <1>1, <2>2
    <3> HIDE DEF i
    <3>2. r[i] = s[a]
      BY <1>1, <3>1
    <3> QED
      BY <3>1, <3>2
  <2>3. a # k
    BY <1>6
  <2> QED
    BY <1>1, <2>1, <2>2, <2>3
<1>7. \A y : y \in ToSet(r) <=> y \in ToSet(s) /\ y # s[k]
  BY <1>2, <1>5, <1>6 DEF ToSet
<1> QED
  BY <1>4, <1>7 DEF r

(* The units of a folder without one: those behind it move up.             *)
LEMMA WithoutFacts ==
  ASSUME NEW u \in Seq(Unit), NEW k \in 1 .. Len(u)
  PROVE  /\ Without(u, k) \in Seq(Unit) /\ Len(Without(u, k)) = Len(u)
         /\ \A i \in 1 .. Len(u) : Without(u, k)[i] =
              IF i < k THEN u[i] ELSE IF i < Len(u) THEN u[i + 1] ELSE Blank
<1> DEFINE r == RemoveAt(u, k)
           n == Len(u)
<1>1. /\ r \in Seq(Unit) /\ Len(r) = n - 1 /\ n \in Nat /\ k \in 1 .. n
      /\ \A i \in 1 .. n - 1 : r[i] = IF i < k THEN u[i] ELSE u[i + 1]
  <2>1. r \in Seq(Unit) /\ Len(r) = n - 1
    BY RemoveAtFacts
  <2>2. \A i \in 1 .. n - 1 : r[i] = IF i < k THEN u[i] ELSE u[i + 1]
    BY RemoveAtFacts
  <2> QED
    BY <2>1, <2>2
<1>2. Without(u, k) = Append(r, Blank)
  <2>1. Without(u, k) = r \o <<Blank>>
    BY DEF Without
  <2> HIDE DEF r
  <2> QED
    BY <1>1, <2>1
<1>3. Blank \in Unit
  BY DEF Unit
<1> HIDE DEF r, n
<1>4. /\ Append(r, Blank) \in Seq(Unit) /\ Len(Append(r, Blank)) = n
      /\ \A i \in 1 .. n : Append(r, Blank)[i] = IF i < n THEN r[i] ELSE Blank
  BY <1>1, <1>3
<1>5. \A i \in 1 .. n : Append(r, Blank)[i] = IF i < k THEN u[i] ELSE IF i < n THEN u[i + 1] ELSE Blank
  <2> TAKE i \in 1 .. n
  <2>1. CASE i < n
    <3>1. i \in 1 .. n - 1
      BY <1>1, <2>1
    <3> QED
      BY <1>1, <1>4, <2>1, <3>1
  <2>2. CASE ~(i < n)
    <3>1. ~(i < k)
      BY <1>1, <2>2
    <3> QED
      BY <1>4, <2>2, <3>1
  <2> QED
    BY <2>1, <2>2
<1> QED
  BY <1>2, <1>4, <1>5 DEF n

(* A folder that is written in parts holds what the parts were taken from. *)
LEMMA Pasted ==
  ASSUME NEW e \in DiskType, NEW s, Shaped(s), NEW w, w = Width(s[1]), NEW u \in Seq(Unit),
         Len(u) = w * Len(s),
         \A i \in 1 .. Len(s) : e[s[i]] = SubSeq(u, (i - 1) * w + 1, i * w)
  PROVE  Units(e, s) = u
<1>1. /\ w \in Nat /\ w > 0 /\ Len(s) \in Nat
  BY ShapedFacts
<1>2. /\ DOMAIN Units(e, s) = 1 .. w * Len(s) /\ Units(e, s) \in Seq(Unit)
      /\ \A k \in 1 .. w * Len(s) : /\ Nth(w, k) \in 1 .. Len(s) /\ Within(w, k) \in 1 .. w
                                    /\ Units(e, s)[k] = e[s[Nth(w, k)]][Within(w, k)]
  BY UnitsFacts
<1>3. ASSUME NEW k \in 1 .. w * Len(s) PROVE Units(e, s)[k] = u[k]
  <2> DEFINE i == Nth(w, k)
             j == Within(w, k)
  <2>1. i \in 1 .. Len(s) /\ j \in 1 .. w /\ Place(w, i, j) = k /\ Units(e, s)[k] = e[s[i]][j]
    BY <1>1, <1>2, PlaceOf
  <2> HIDE DEF i, j
  <2>2. e[s[i]] = SubSeq(u, (i - 1) * w + 1, i * w)
    BY <2>1
  <2> DEFINE b == w * (i - 1)
  <2>3. b \in Nat /\ (i - 1) * w + 1 = b + 1 /\ i * w = b + w /\ b + j = k
    <3>1. i \in Nat /\ i - 1 \in Nat
      BY <2>1
    <3>2. b \in Nat /\ (i - 1) * w = b /\ i * w = b + w
      BY <1>1, <3>1
    <3> QED
      BY <2>1, <3>2 DEF Place
  <2>4. b + w <= Len(u)
    <3>1. Place(w, i, w) \in 1 .. w * Len(s)
      BY <1>1, <2>1, PlaceIs
    <3> QED
      BY <1>1, <3>1 DEF Place
  <2> HIDE DEF b
  <2>5. SubSeq(u, b + 1, b + w)[j] = u[b + j]
    <3>1. \A m \in b + 1 .. b + w : u[m] \in Unit
      BY <1>1, <2>3, <2>4
    <3>2. b + 1 \in Int /\ b + w \in Int
      BY <1>1, <2>3
    <3>3. \A m \in 1 .. (b + w) - (b + 1) + 1 : SubSeq(u, b + 1, b + w)[m] = u[(b + 1) + m - 1]
      BY <3>1, <3>2, SubSeqProperties
    <3>4. j \in 1 .. (b + w) - (b + 1) + 1 /\ (b + 1) + j - 1 = b + j
      BY <1>1, <2>1, <2>3
    <3> QED
      BY <3>3, <3>4
  <2> QED
    BY <2>1, <2>2, <2>3, <2>5
<1>4. DOMAIN u = 1 .. w * Len(s)
  BY DEF Seq
<1> QED
  BY <1>2, <1>3, <1>4

(* A change of the table outside of a chain.                               *)
LEMMA ChainOther ==
  ASSUME NEW t, NEW u, NEW s, IsChain(t, s), \A c \in ToSet(s) : u[c] = t[c]
  PROVE  IsChain(u, s)
<1>1. /\ s \in Seq(Clusters) /\ s # <<>> /\ Distinct(s)
      /\ \A i \in 1 .. Len(s) - 1 : t[s[i]] = s[i + 1]
      /\ t[s[Len(s)]] = EOC
  BY DEF IsChain
<1>2. Len(s) \in 1 .. Len(s) /\ \A i \in 1 .. Len(s) : s[i] \in ToSet(s)
  BY <1>1 DEF ToSet
<1>3. \A i \in 1 .. Len(s) : u[s[i]] = t[s[i]]
  BY <1>2
<1>4. \A i \in 1 .. Len(s) - 1 : i \in 1 .. Len(s)
  BY <1>2
<1> QED
  BY <1>1, <1>2, <1>3, <1>4 DEF IsChain

(* A file or folder that lists nothing is removed: its clusters are freed  *)
(* and what its folder lists behind it moves up.                           *)
LEMMA RepresentsWithout ==
  ASSUME NEW t \in TableType, NEW u \in TableType, NEW d \in DiskType, NEW e \in DiskType,
         NEW E, NEW S, NEW L, Represents(t, d, E, S, L),
         NEW p \in DOMAIN E, p # <<>>, L[p] = <<>>,
         NEW f, f = Front(p), NEW k \in 1 .. Len(L[f]), L[f][k] = Last(p), Headed(d, S[f]),
         \A c \in Clusters : c \notin ToSet(S[p]) => u[c] = t[c],
         \A a \in Areas : a \notin ToSet(S[p]) /\ a \notin ToSet(S[f]) => e[a] = d[a],
         Units(e, S[f]) = Without(Units(d, S[f]), k + Header(S[f][1]))
  PROVE  LET D == DOMAIN E \ {p}
             F == [x \in D |-> E[x]]
             T == [x \in D |-> S[x]]
             M == [x \in D |-> IF x = f THEN RemoveAt(L[f], k) ELSE L[x]]
         IN Represents(u, e, F, T, M)
<1> DEFINE U == Units(d, S[f])
           V == Units(e, S[f])
           h == Header(S[f][1])
           m == Len(L[f])
           D == DOMAIN E \ {p}
           F == [x \in D |-> E[x]]
           T == [x \in D |-> S[x]]
           M == [x \in D |-> IF x = f THEN RemoveAt(L[f], k) ELSE L[x]]
<1>1. IsTree(E, S, L) /\ ChainsApart(t, E, S) /\ Holds(d, E, S, L)
  BY DEF Represents
<1>2. /\ f \in D /\ E[f].dir /\ f # p /\ Append(f, Last(p)) = p /\ Last(p) \in Names
  BY <1>1, ListedAt
<1>3. /\ DOMAIN F = D /\ DOMAIN T = D /\ DOMAIN M = D /\ DOMAIN S = DOMAIN E /\ DOMAIN L = DOMAIN E
      /\ \A x \in D : F[x] = E[x] /\ T[x] = S[x]
      /\ M[f] = RemoveAt(L[f], k) /\ \A x \in D : x # f => M[x] = L[x]
  BY <1>1, <1>2, TreeFacts
<1> HIDE DEF F, T, M
<1>4. L[f] \in Seq(Names) /\ Distinct(L[f]) /\ m \in Nat /\ k \in 1 .. m
  BY <1>1, <1>2, TreeFacts
<1>5. /\ M[f] \in Seq(Names) /\ Len(M[f]) = m - 1 /\ Distinct(M[f])
      /\ \A i \in 1 .. m - 1 : M[f][i] = IF i < k THEN L[f][i] ELSE L[f][i + 1]
      /\ \A y : y \in ToSet(M[f]) <=> y \in ToSet(L[f]) /\ y # Last(p)
  <2>1. /\ RemoveAt(L[f], k) \in Seq(Names) /\ Len(RemoveAt(L[f], k)) = m - 1
        /\ \A i \in 1 .. m - 1 : RemoveAt(L[f], k)[i] = IF i < k THEN L[f][i] ELSE L[f][i + 1]
    BY <1>4, RemoveAtFacts
  <2>2. /\ Distinct(RemoveAt(L[f], k))
        /\ \A y : y \in ToSet(RemoveAt(L[f], k)) <=> y \in ToSet(L[f]) /\ y # L[f][k]
    BY <1>4, DistinctWithout
  <2> QED
    BY <1>3, <2>1, <2>2
<1>6. \A x \in DOMAIN E : /\ Shaped(S[x]) /\ S[x] \in Seq(Areas) /\ DOMAIN S[x] = 1 .. Len(S[x])
  BY <1>1, ShapeOf
<1>7. Shaped(S[f]) /\ U \in Seq(Unit) /\ Len(U) \in Nat /\ h \in {1, 2}
  <2>1. Shaped(S[f])
    BY <1>2, <1>6
  <2> QED
    BY <2>1, UnitsFacts, ShapedFacts
<1>8. /\ h + m <= Len(U)
      /\ \A i \in 1 .. h : U[i].kind # "entry"
      /\ \A i \in 1 .. m : U[h + i] = E[Append(f, L[f][i])]
      /\ \A i \in h + m + 1 .. Len(U) : U[i] = Blank
  BY <1>1, <1>2 DEF Holds, FolderHolds
<1>9. /\ Len(V) = Len(U)
      /\ \A i \in 1 .. Len(U) : V[i] = IF i < k + h THEN U[i] ELSE IF i < Len(U) THEN U[i + 1] ELSE Blank
  <2>1. k + h \in 1 .. Len(U)
    <3> HIDE DEF U, h, m
    <3> QED
      BY <1>4, <1>7, <1>8
  <2>2. V = Without(U, k + h)
    OBVIOUS
  <2> HIDE DEF U, V, h
  <2>3. Len(V) = Len(U)
    BY <1>7, <2>1, <2>2, WithoutFacts
  <2>4. \A i \in 1 .. Len(U) : V[i] = IF i < k + h THEN U[i] ELSE IF i < Len(U) THEN U[i + 1] ELSE Blank
    BY <1>7, <2>1, <2>2, WithoutFacts
  <2> QED
    BY <2>3, <2>4
<1> HIDE DEF U, V, h, m
<1>10. ASSUME NEW x \in D, NEW y \in Names
       PROVE  Append(x, y) = p <=> x = f /\ y = Last(p)
  <2>1. x \in Seq(Names)
    BY <1>1, TreeFacts
  <2>2. Front(Append(x, y)) = x /\ Last(Append(x, y)) = y
    BY <2>1, ChildFacts
  <2> QED
    BY <1>2, <2>2
<1>11. IsTree(F, T, M)
  <2>1. /\ DOMAIN E \subseteq Paths \cup {<<>>}
        /\ <<>> \in DOMAIN E /\ E[<<>>] = RootEntry /\ S[<<>>] = <<Root>>
        /\ \A x \in DOMAIN E \ {<<>>} :
             E[x] \in EntryType /\ E[x].name = Last(x) /\ Front(x) \in DOMAIN E
        /\ \A x \in DOMAIN E :
             /\ E[x].first = S[x][1]
             /\ L[x] \in Seq(Names) /\ Distinct(L[x]) /\ (~E[x].dir => L[x] = <<>>)
             /\ \A y \in Names : Append(x, y) \in DOMAIN E <=> y \in ToSet(L[x])
    BY <1>1 DEF IsTree
  <2>2. ASSUME NEW x \in D, x # <<>> PROVE Front(x) \in D
    <3>1. /\ Front(x) \in DOMAIN E
          /\ \E i \in 1 .. Len(L[Front(x)]) : L[Front(x)][i] = Last(x)
      BY <1>1, <2>2, ListedAt
    <3>2. Front(x) # p
      <4>1. Len(L[p]) = 0 /\ \A i \in 1 .. 0 : FALSE
        OBVIOUS
      <4> QED
        BY <3>1, <4>1
    <3> QED
      BY <3>1, <3>2
  <2>3. DOMAIN F \subseteq Paths \cup {<<>>} /\ <<>> \in DOMAIN F /\ F[<<>>] = RootEntry /\ T[<<>>] = <<Root>>
    BY <1>3, <2>1
  <2>4. ASSUME NEW x \in DOMAIN F \ {<<>>}
        PROVE  F[x] \in EntryType /\ F[x].name = Last(x) /\ Front(x) \in DOMAIN F
    BY <1>3, <2>1, <2>2
  <2>5. ASSUME NEW x \in DOMAIN F
        PROVE  /\ F[x].first = T[x][1]
               /\ M[x] \in Seq(Names) /\ Distinct(M[x]) /\ (~F[x].dir => M[x] = <<>>)
               /\ \A y \in Names : Append(x, y) \in DOMAIN F <=> y \in ToSet(M[x])
    <3>1. \A y \in Names : Append(x, y) \in DOMAIN F <=> y \in ToSet(L[x]) /\ ~(x = f /\ y = Last(p))
      BY <1>3, <1>10, <2>1
    <3>2. CASE x = f
      BY <1>2, <1>3, <1>5, <2>1, <3>1, <3>2
    <3>3. CASE x # f
      BY <1>3, <2>1, <3>1, <3>3
    <3> QED
      BY <3>2, <3>3
  <2> QED
    BY <1>3, <2>3, <2>4, <2>5 DEF IsTree
<1>12. ChainsApart(u, F, T)
  <2>1. ASSUME NEW x \in D, x # <<>> PROVE IsChain(u, S[x])
    <3>1. IsChain(t, S[x])
      BY <1>1, <2>1 DEF ChainsApart
    <3>2. \A c \in ToSet(S[x]) : c \in Clusters /\ c \notin ToSet(S[p])
      BY <1>1, <2>1, <3>1, Apart, ChainNotFree
    <3>3. \A c \in ToSet(S[x]) : u[c] = t[c]
      BY <3>2
    <3> QED
      BY <3>1, <3>3, ChainOther
  <2>2. ASSUME NEW x \in D, x # <<>>, NEW y \in D \ {x, <<>>}
        PROVE  ToSet(S[x]) \cap ToSet(S[y]) = {}
    BY <1>1, <2>2 DEF ChainsApart
  <2> QED
    BY <1>3, <2>1, <2>2 DEF ChainsApart
<1>13. ASSUME NEW x \in D, x # f PROVE \A a \in ToSet(S[x]) : a \in Areas /\ e[a] = d[a]
  <2> TAKE a \in ToSet(S[x])
  <2>1. a \in Areas
    BY <1>6, ElementOfSeq DEF ToSet
  <2>2. a \notin ToSet(S[f])
    BY <1>1, <1>2, <1>13, Apart
  <2>3. a \notin ToSet(S[p])
    BY <1>1, <1>13, Apart
  <2> QED
    BY <2>1, <2>2, <2>3
<1>14. ASSUME NEW x \in D, x # f PROVE Units(e, S[x]) = Units(d, S[x])
  <2>1. \A i \in 1 .. Len(S[x]) : e[S[x][i]] = d[S[x][i]]
    BY <1>6, <1>13, <1>14 DEF ToSet
  <2> QED
    BY <1>6, <2>1, UnitsEqual
<1>15. ASSUME NEW x \in D, x # f, E[x].dir PROVE FolderHolds(e, F, T, M, x)
  <2>1. FolderHolds(d, E, S, L, x)
    BY <1>1, <1>15 DEF Holds
  <2>2. \A i \in 1 .. Len(L[x]) : F[Append(x, L[x][i])] = E[Append(x, L[x][i])]
    <3> TAKE i \in 1 .. Len(L[x])
    <3>1. Append(x, L[x][i]) \in DOMAIN E /\ L[x][i] \in Names
      BY <1>1, Listed
    <3>2. Append(x, L[x][i]) # p
      BY <1>10, <1>15, <3>1
    <3> QED
      BY <1>3, <3>1, <3>2
  <2>3. T[x] = S[x] /\ M[x] = L[x]
    BY <1>3, <1>15
  <2>4. Units(e, S[x]) = Units(d, S[x])
    BY <1>14, <1>15
  <2> QED
    BY <2>1, <2>2, <2>3, <2>4, FolderKept
<1>16. FolderHolds(e, F, T, M, f)
  <2>1. \A i \in 1 .. h : V[i] = U[i]
    <3>1. \A i \in 1 .. h : i \in 1 .. Len(U) /\ i < k + h
      BY <1>4, <1>7, <1>8
    <3> QED
      BY <1>9, <3>1
  <2>2. \A i \in 1 .. m - 1 : V[h + i] = F[Append(f, M[f][i])]
    <3> TAKE i \in 1 .. m - 1
    <3> DEFINE j == IF i < k THEN i ELSE i + 1
    <3>1. M[f][i] = L[f][j] /\ j \in 1 .. m /\ j # k
      <4>1. CASE i < k
        BY <1>4, <1>5, <4>1
      <4>2. CASE ~(i < k)
        BY <1>4, <1>5, <4>2
      <4> QED
        BY <4>1, <4>2
    <3>2. V[h + i] = U[h + j]
      <4>1. h + i \in 1 .. Len(U) /\ h + i < Len(U) /\ (h + i < k + h <=> i < k)
        BY <1>4, <1>7, <1>8
      <4>2. CASE i < k
        BY <1>9, <4>1, <4>2
      <4>3. CASE ~(i < k)
        <5>1. j = i + 1 /\ (h + i) + 1 = h + j
          BY <1>4, <1>7, <4>3
        <5>2. V[h + i] = U[(h + i) + 1]
          BY <1>9, <4>1, <4>3
        <5> QED
          BY <5>1, <5>2
      <4> QED
        BY <4>2, <4>3
    <3> HIDE DEF j
    <3>3. Append(f, L[f][j]) \in DOMAIN E /\ L[f][j] \in Names
      BY <1>1, <1>2, <3>1, Listed DEF m
    <3>4. L[f][j] # Last(p)
      BY <1>4, <3>1 DEF Distinct, m
    <3>5. Append(f, L[f][j]) \in D
      BY <1>2, <1>10, <3>3, <3>4
    <3>6. U[h + j] = E[Append(f, L[f][j])]
      BY <1>8, <3>1
    <3>7. F[Append(f, L[f][j])] = E[Append(f, L[f][j])]
      BY <1>3, <3>5
    <3> QED
      BY <3>1, <3>2, <3>6, <3>7
  <2>3. \A i \in h + (m - 1) + 1 .. Len(V) : V[i] = Blank
    <3> TAKE i \in h + (m - 1) + 1 .. Len(V)
    <3>1. i \in 1 .. Len(U) /\ ~(i < k + h)
      BY <1>4, <1>7, <1>8, <1>9
    <3>2. CASE i < Len(U)
      <4>1. i + 1 \in h + m + 1 .. Len(U)
        BY <1>4, <1>7, <1>9, <3>2
      <4> QED
        BY <1>8, <1>9, <3>1, <3>2, <4>1
    <3>3. CASE ~(i < Len(U))
      BY <1>9, <3>1, <3>3
    <3> QED
      BY <3>2, <3>3
  <2>4. Headed(e, S[f])
    BY <2>1 DEF Headed, U, V, h
  <2>5. h + (m - 1) <= Len(V) /\ \A i \in 1 .. h : V[i].kind # "entry"
    BY <1>4, <1>7, <1>8, <1>9, <2>1
  <2>6. T[f] = S[f] /\ Len(M[f]) = m - 1
    BY <1>2, <1>3, <1>5
  <2> DEFINE n == Len(M[f])
  <2>7. /\ h + n <= Len(V) /\ \A i \in 1 .. n : V[h + i] = F[Append(f, M[f][i])]
        /\ \A i \in h + n + 1 .. Len(V) : V[i] = Blank
    BY <2>2, <2>3, <2>5, <2>6
  <2>8. V = Units(e, T[f]) /\ h = Header(T[f][1]) /\ Headed(e, T[f])
    BY <2>4, <2>6 DEF V, h
  <2> HIDE DEF n
  <2>9. FolderHolds(e, F, T, M, f)
    BY <2>5, <2>7, <2>8 DEF FolderHolds, n
  <2> QED
    BY <2>4, <2>9
<1>17. ASSUME NEW x \in DOMAIN F
       PROVE  IF F[x].dir THEN FolderHolds(e, F, T, M, x) ELSE \A a \in ToSet(T[x]) : NoEntries(e, a)
  <2>0. x \in D /\ F[x] = E[x] /\ T[x] = S[x]
    BY <1>3
  <2>1. CASE x = f
    BY <1>2, <1>16, <2>0, <2>1
  <2>2. CASE x # f /\ E[x].dir
    BY <1>15, <2>0, <2>2
  <2>3. CASE x # f /\ ~E[x].dir
    <3>1. \A a \in ToSet(S[x]) : NoEntries(d, a) /\ e[a] = d[a]
      BY <1>1, <1>13, <2>0, <2>3 DEF Holds
    <3> QED
      BY <2>0, <2>3, <3>1 DEF NoEntries
  <2> QED
    BY <2>1, <2>2, <2>3
<1> QED
  BY <1>11, <1>12, <1>16, <1>17 DEF Represents, Holds, F, T, M
(* The folder keeps its header.                                            *)
LEMMA HeadedWithout ==
  ASSUME NEW d \in DiskType, NEW e \in DiskType, NEW s, Shaped(s), Headed(d, s),
         NEW k \in 1 .. Len(Units(d, s)), k > Header(s[1]),
         Units(e, s) = Without(Units(d, s), k)
  PROVE  Headed(e, s)
<1> DEFINE U == Units(d, s)
           V == Units(e, s)
           h == Header(s[1])
<1>1. U \in Seq(Unit) /\ Len(U) \in Nat /\ h \in {1, 2}
  BY UnitsFacts, ShapedFacts
<1>2. V = Without(U, k) /\ k \in 1 .. Len(U) /\ k > h
  OBVIOUS
<1>3. \A i \in 1 .. h : U[i] # Blank
  BY DEF Headed
<1> HIDE DEF U, V, h
<1>4. \A i \in 1 .. Len(U) : V[i] = IF i < k THEN U[i] ELSE IF i < Len(U) THEN U[i + 1] ELSE Blank
  BY <1>1, <1>2, WithoutFacts
<1>5. \A i \in 1 .. h : V[i] = U[i]
  BY <1>1, <1>2, <1>4
<1> QED
  BY <1>3, <1>5 DEF Headed, V, h

(***************************************************************************)
(* What tables and areas hold after some of the writes of an operation.    *)
(***************************************************************************)

(* The last one of some numbers up to n.                                   *)
LEMMA MaxFacts ==
  ASSUME NEW n \in Nat, NEW S, S \subseteq 1 .. n, S # {}
  PROVE  Max(S) \in S /\ \A k \in S : k <= Max(S)
<1> DEFINE Above == {m \in Nat : \A k \in S : k <= m}
<1>1. n \in Above
  OBVIOUS
<1>2. PICK m \in Above : \A k \in Above : m <= k
  BY <1>1, Least
<1>3. m \in Nat /\ \A k \in S : k \in Nat /\ k > 0 /\ k <= m
  BY <1>2
<1>4. m \in S
  <2> SUFFICES ASSUME m \notin S PROVE FALSE
    OBVIOUS
  <2>0. PICK k \in S : TRUE
    OBVIOUS
  <2>1. m > 0
    BY <1>3, <2>0
  <2>2. m - 1 \in Nat /\ \A z \in S : z <= m - 1
    BY <1>3, <2>1
  <2>3. m - 1 \in Above
    BY <2>2
  <2> QED
    BY <1>2, <1>3, <2>3
<1>5. \E x \in S : \A y \in S : x >= y
  BY <1>3, <1>4
<1>6. Max(S) \in S /\ \A y \in S : Max(S) >= y
  BY <1>5 DEF Max
<1> QED
  BY <1>3, <1>6

(* A place that is not written keeps what it had.                          *)
LEMMA LatestNone ==
  ASSUME NEW w, NEW n \in Nat, NEW a, NEW b, \A i \in 1 .. n : w[i].at # a
  PROVE  Latest(w, n, a, b) = b
BY DEF Latest, WritesTo

(* A place holds what was written to it last.                              *)
LEMMA LatestIs ==
  ASSUME NEW w, NEW n \in Nat, NEW a, NEW b, NEW i \in 1 .. n, w[i].at = a,
         \A j \in i + 1 .. n : w[j].at # a
  PROVE  Latest(w, n, a, b) = w[i].what
<1> DEFINE W == WritesTo(w, n, a)
<1>1. i \in W /\ W \subseteq 1 .. n
  BY DEF WritesTo
<1>2. Max(W) \in W /\ i <= Max(W)
  BY <1>1, MaxFacts
<1>3. Max(W) = i
  <2>1. Max(W) \in 1 .. n /\ w[Max(W)].at = a
    BY <1>2 DEF WritesTo
  <2> HIDE DEF W
  <2> QED
    BY <1>2, <2>1
<1> QED
  BY <1>1, <1>3 DEF Latest

(* A place that was written to holds what one of the writes wrote.         *)
LEMMA LatestSome ==
  ASSUME NEW w, NEW n \in Nat, NEW a, NEW b, NEW i \in 1 .. n, w[i].at = a
  PROVE  \E j \in 1 .. n : /\ w[j].at = a /\ Latest(w, n, a, b) = w[j].what
<1> DEFINE W == WritesTo(w, n, a)
<1>1. i \in W /\ W \subseteq 1 .. n
  BY DEF WritesTo
<1>2. Max(W) \in W
  BY <1>1, MaxFacts
<1>3. Max(W) \in 1 .. n /\ w[Max(W)].at = a
  BY <1>2 DEF WritesTo
<1> QED
  BY <1>1, <1>3 DEF Latest

(* A place holds what it held or what some write put there.                *)
LEMMA LatestOf ==
  ASSUME NEW w, NEW n \in Nat, NEW a, NEW b
  PROVE  \/ Latest(w, n, a, b) = b
         \/ \E j \in 1 .. n : w[j].at = a /\ Latest(w, n, a, b) = w[j].what
<1>1. CASE \A i \in 1 .. n : w[i].at # a
  BY <1>1, LatestNone
<1>2. CASE ~(\A i \in 1 .. n : w[i].at # a)
  BY <1>2, LatestSome
<1> QED
  BY <1>1, <1>2

(* Two sequences that begin alike.                                         *)
LEMMA LatestSame ==
  ASSUME NEW w, NEW x, NEW n \in Nat, NEW a, NEW b, \A i \in 1 .. n : w[i] = x[i]
  PROVE  Latest(w, n, a, b) = Latest(x, n, a, b)
<1>1. WritesTo(w, n, a) = WritesTo(x, n, a)
  BY DEF WritesTo
<1>2. CASE WritesTo(w, n, a) # {}
  <2>1. Max(WritesTo(w, n, a)) \in 1 .. n
    <3>1. WritesTo(w, n, a) \subseteq 1 .. n
      BY DEF WritesTo
    <3> QED
      BY <1>2, <3>1, MaxFacts
  <2> QED
    BY <1>1, <2>1 DEF Latest
<1> QED
  BY <1>1, <1>2 DEF Latest

(* y begins with the first m elements of w, and n of x follow them.        *)
Begins(y, w, m)       == \A i \in 1 .. m : y[i] = w[i]
(* y goes on with the first n of x behind its first m.                     *)
Continues(y, m, x, n) == \A i \in 1 .. n : y[m + i] = x[i]

(* The writes of x come after those of w.                                  *)
LEMMA LatestAfter ==
  ASSUME NEW w, NEW x, NEW y, NEW m \in Nat, NEW n \in Nat, NEW a, NEW b,
         Begins(y, w, m), Continues(y, m, x, n), NEW k, k = m + n
  PROVE  Latest(y, k, a, b) = Latest(x, n, a, Latest(w, m, a, b))
<1>1. m \in Nat /\ n \in Nat
  OBVIOUS
<1>2. \A i \in 1 .. m : y[i] = w[i]
  BY DEF Begins
<1>3. \A i \in 1 .. n : y[m + i] = x[i] /\ m + i \in 1 .. m + n
  BY DEF Continues
<1>4. CASE \A i \in 1 .. n : x[i].at # a
  <2>1. Latest(x, n, a, Latest(w, m, a, b)) = Latest(w, m, a, b)
    BY <1>1, <1>4, LatestNone
  <2>2. \A i \in m + 1 .. m + n : y[i].at # a
    <3> TAKE i \in m + 1 .. m + n
    <3>1. i - m \in 1 .. n /\ m + (i - m) = i
      BY <1>1
    <3> QED
      BY <1>3, <1>4, <3>1
  <2>3. WritesTo(y, m + n, a) = WritesTo(w, m, a)
    BY <1>1, <1>2, <2>2 DEF WritesTo
  <2>4. Latest(y, m + n, a, b) = Latest(w, m, a, b)
    <3>1. WritesTo(w, m, a) # {} => Max(WritesTo(w, m, a)) \in 1 .. m
      <4>1. WritesTo(w, m, a) \subseteq 1 .. m
        BY DEF WritesTo
      <4> QED
        BY <1>1, <4>1, MaxFacts
    <3> QED
      BY <1>2, <2>3, <3>1 DEF Latest
  <2> QED
    BY <2>1, <2>4
<1>5. CASE \E i \in 1 .. n : x[i].at = a
  <2> DEFINE W == WritesTo(x, n, a)
             i == Max(W)
  <2>1. W # {} /\ W \subseteq 1 .. n
    BY <1>5 DEF WritesTo
  <2>2. i \in W /\ \A z \in W : z <= i
    BY <1>1, <2>1, MaxFacts
  <2>3. i \in 1 .. n /\ x[i].at = a
    BY <2>2 DEF WritesTo
  <2>4. \A j \in i + 1 .. n : x[j].at # a
    <3> TAKE j \in i + 1 .. n
    <3>1. j \in 1 .. n /\ ~(j <= i)
      BY <1>1, <2>3
    <3>2. j \notin W
      BY <2>2, <3>1
    <3> QED
      BY <3>1, <3>2 DEF WritesTo
  <2> HIDE DEF i, W
  <2>5. Latest(x, n, a, Latest(w, m, a, b)) = x[i].what
    <3> DEFINE before == Latest(w, m, a, b)
    <3> HIDE DEF before
    <3>1. n \in Nat /\ i \in 1 .. n /\ x[i].at = a
      BY <1>1, <2>3
    <3> QED
      BY ONLY <2>4, <3>1, LatestIs
  <2>6. m + i \in 1 .. m + n /\ y[m + i].at = a /\ y[m + i].what = x[i].what
    BY <1>3, <2>3
  <2>7. \A j \in (m + i) + 1 .. m + n : y[j].at # a
    <3> TAKE j \in (m + i) + 1 .. m + n
    <3>1. j - m \in i + 1 .. n /\ j - m \in 1 .. n /\ m + (j - m) = j
      BY <1>1, <2>3
    <3> QED
      BY <1>3, <2>4, <3>1
  <2>8. m + n \in Nat
    BY <1>1
  <2>9. Latest(y, m + n, a, b) = y[m + i].what
    <3> DEFINE top == m + n
               at  == m + i
    <3>1. top \in Nat /\ at \in 1 .. top /\ y[at].at = a /\ \A j \in at + 1 .. top : y[j].at # a
      BY <2>6, <2>7, <2>8
    <3> HIDE DEF top, at
    <3>2. Latest(y, top, a, b) = y[at].what
      BY ONLY <3>1, LatestIs
    <3> QED
      BY <3>2 DEF top, at
  <2> QED
    BY <2>5, <2>6, <2>9
<1> QED
  BY <1>4, <1>5

(* A write goes to the table or to an area, with what belongs there.       *)
LEMMA WriteFacts ==
  ASSUME NEW v \in WriteType
  PROVE  \/ v.at = Table /\ v.what \in TableType
         \/ v.at \in Areas /\ v.what \in Seq(Unit) /\ Len(v.what) = Width(v.at) /\ v.at # Table
<1>1. CASE v \in [at : {Table}, what : TableType]
  BY <1>1
<1>2. CASE v \in UNION {[at : {a}, what : Written(a)] : a \in Areas}
  <2>1. PICK a \in Areas : v \in [at : {a}, what : Written(a)]
    BY <1>2
  <2>2. v.at = a /\ v.what \in Written(a)
    BY <2>1
  <2> QED
    BY <2>2, ConstantFacts DEF Written
<1> QED
  BY <1>1, <1>2 DEF WriteType

(* SaveTables and WriteUnits are writes.                                   *)
LEMMA WriteIs ==
  /\ \A t \in TableType : SaveTables(t) \in WriteType /\ SaveTables(t).at = Table /\ SaveTables(t).what = t
  /\ \A a \in Areas : \A s \in Seq(Unit) :
       Len(s) = Width(a) => /\ WriteUnits(a, s) \in WriteType /\ WriteUnits(a, s).at = a
                            /\ WriteUnits(a, s).what = s
<1>1. ASSUME NEW t \in TableType
      PROVE  SaveTables(t) \in WriteType /\ SaveTables(t).at = Table /\ SaveTables(t).what = t
  BY DEF SaveTables, WriteType
<1>2. ASSUME NEW a \in Areas, NEW s \in Seq(Unit), Len(s) = Width(a)
      PROVE  /\ WriteUnits(a, s) \in WriteType /\ WriteUnits(a, s).at = a
             /\ WriteUnits(a, s).what = s
  <2>1. WriteUnits(a, s) = [at |-> a, what |-> s]
    BY DEF WriteUnits
  <2>2. s \in Written(a)
    BY <1>2 DEF Written
  <2>3. [at |-> a, what |-> s] \in [at : {a}, what : Written(a)]
    BY <2>2
  <2> QED
    BY <2>1, <2>3 DEF WriteType
<1> QED
  BY <1>1, <1>2

(* What the disk and the table are after writes has their types.           *)
LEMMA AfterTypes ==
  ASSUME NEW t \in TableType, NEW d \in DiskType, NEW w \in Seq(WriteType), NEW n \in 0 .. Len(w)
  PROVE  TableAfter(t, w, n) \in TableType /\ DiskAfter(d, w, n) \in DiskType
<1>1. n \in Nat /\ \A j \in 1 .. n : w[j] \in WriteType
  BY ElementOfSeq
<1>2. TableAfter(t, w, n) \in TableType
  <2>1. \A j \in 1 .. n : w[j].at = Table => w[j].what \in TableType
    BY <1>1, WriteFacts
  <2>2. \/ Latest(w, n, Table, t) = t
        \/ \E j \in 1 .. n : w[j].at = Table /\ Latest(w, n, Table, t) = w[j].what
    BY <1>1, LatestOf
  <2> QED
    BY <2>1, <2>2 DEF TableAfter
<1>3. ASSUME NEW a \in Areas
      PROVE  Latest(w, n, a, d[a]) \in Seq(Unit) /\ Len(Latest(w, n, a, d[a])) = Width(a)
  <2>1. \A j \in 1 .. n : w[j].at = a => w[j].what \in Seq(Unit) /\ Len(w[j].what) = Width(a)
    BY <1>1, WriteFacts, ConstantFacts
  <2>2. \/ Latest(w, n, a, d[a]) = d[a]
        \/ \E j \in 1 .. n : w[j].at = a /\ Latest(w, n, a, d[a]) = w[j].what
    BY <1>1, LatestOf
  <2>3. d[a] \in Seq(Unit) /\ Len(d[a]) = Width(a)
    BY DEF DiskType
  <2> QED
    BY <2>1, <2>2, <2>3
<1>4. DiskAfter(d, w, n) \in DiskType
  BY <1>3 DEF DiskAfter, DiskType
<1> QED
  BY <1>2, <1>4

(* Before the first write nothing changed.                                 *)
LEMMA AfterNone ==
  ASSUME NEW t, NEW d \in DiskType, NEW w
  PROVE  TableAfter(t, w, 0) = t /\ DiskAfter(d, w, 0) = d
<1>1. \A a, b : Latest(w, 0, a, b) = b
  <2> TAKE a, b
  <2>1. WritesTo(w, 0, a) = {}
    BY DEF WritesTo
  <2> QED
    BY <2>1 DEF Latest
<1>2. d \in [Areas -> Seq(Unit)]
  BY DEF DiskType
<1> QED
  BY <1>1, <1>2 DEF TableAfter, DiskAfter

(* The writes of x come after those of w.                                  *)
LEMMA AfterConcat ==
  ASSUME NEW t, NEW d, NEW w, NEW x, NEW y, NEW m \in Nat, NEW n \in Nat,
         Begins(y, w, m), Continues(y, m, x, n), NEW k, k = m + n
  PROVE  /\ TableAfter(t, y, k) = TableAfter(TableAfter(t, w, m), x, n)
         /\ DiskAfter(d, y, k) = DiskAfter(DiskAfter(d, w, m), x, n)
<1>3. \A a, b : Latest(y, k, a, b) = Latest(x, n, a, Latest(w, m, a, b))
  BY LatestAfter
<1>4. \A a \in Areas : DiskAfter(d, w, m)[a] = Latest(w, m, a, d[a])
  BY DEF DiskAfter
<1>5. TableAfter(t, y, k) = TableAfter(TableAfter(t, w, m), x, n)
  BY <1>3 DEF TableAfter
<1>6. DiskAfter(d, y, k) = DiskAfter(DiskAfter(d, w, m), x, n)
  <2>1. \A a \in Areas : Latest(y, k, a, d[a]) = Latest(x, n, a, DiskAfter(d, w, m)[a])
    BY <1>3, <1>4
  <2> QED
    BY <2>1 DEF DiskAfter
<1> QED
  BY <1>5, <1>6

(* A concatenation begins with the one and goes on with the other.         *)
LEMMA ConcatRuns ==
  ASSUME NEW X, NEW w \in Seq(X), NEW x \in Seq(X), NEW n \in 0 .. Len(x)
  PROVE  Begins(w \o x, w, Len(w)) /\ Continues(w \o x, Len(w), x, n)
BY DEF Begins, Continues

(* The same up to n, whatever comes later.                                 *)
LEMMA AfterSame ==
  ASSUME NEW t, NEW d, NEW w, NEW x, NEW n \in Nat, \A i \in 1 .. n : w[i] = x[i]
  PROVE  TableAfter(t, w, n) = TableAfter(t, x, n) /\ DiskAfter(d, w, n) = DiskAfter(d, x, n)
BY LatestSame DEF TableAfter, DiskAfter

(* One write.                                                              *)
LEMMA AfterOne ==
  ASSUME NEW t \in TableType, NEW d \in DiskType, NEW v \in WriteType
  PROVE  /\ v.at = Table => TableAfter(t, <<v>>, 1) = v.what /\ DiskAfter(d, <<v>>, 1) = d
         /\ v.at # Table => /\ TableAfter(t, <<v>>, 1) = t
                            /\ DiskAfter(d, <<v>>, 1) = [d EXCEPT ![v.at] = v.what]
<1> DEFINE w == <<v>>
<1>1. \A a, b : Latest(w, 1, a, b) = IF v.at = a THEN v.what ELSE b
  <2> TAKE a, b
  <2>1. w[1] = v /\ \A i \in 1 .. 1 : i = 1
    OBVIOUS
  <2> HIDE DEF w
  <2>2. CASE v.at = a
    <3>1. \A j \in 1 + 1 .. 1 : FALSE
      OBVIOUS
    <3>2. 1 \in 1 .. 1 /\ 1 \in Nat /\ w[1].at = a /\ \A j \in 1 + 1 .. 1 : w[j].at # a
      BY <2>1, <2>2, <3>1
    <3>3. Latest(w, 1, a, b) = w[1].what
      BY ONLY <3>2, LatestIs
    <3> QED
      BY <2>1, <2>2, <3>3
  <2>3. CASE v.at # a
    BY <2>1, <2>3, LatestNone
  <2> QED
    BY <2>2, <2>3
<1> HIDE DEF w
<1>2. d \in [Areas -> Seq(Unit)]
  BY DEF DiskType
<1>3. CASE v.at = Table
  <2>1. \A a \in Areas : Latest(w, 1, a, d[a]) = d[a]
    BY <1>1, <1>3, ConstantFacts
  <2>2. TableAfter(t, w, 1) = v.what
    BY <1>1, <1>3 DEF TableAfter
  <2>3. DiskAfter(d, w, 1) = d
    BY <1>2, <2>1 DEF DiskAfter
  <2> QED
    BY <1>3, <2>2, <2>3 DEF w
<1>4. CASE v.at # Table
  <2>1. v.at \in Areas
    BY <1>4, WriteFacts
  <2>2. \A a \in Areas : Latest(w, 1, a, d[a]) = IF v.at = a THEN v.what ELSE d[a]
    BY <1>1
  <2>3. DiskAfter(d, w, 1) = [d EXCEPT ![v.at] = v.what]
    BY <1>2, <2>1, <2>2 DEF DiskAfter
  <2>4. TableAfter(t, w, 1) = t
    BY <1>1, <1>4 DEF TableAfter
  <2> QED
    BY <1>4, <2>3, <2>4 DEF w
<1> QED
  BY <1>3, <1>4

(***************************************************************************)
(* Writes that lead from one table and disk to others, midway everywhere.  *)
(***************************************************************************)

(* No writes.                                                              *)
LEMMA GoesNowhere ==
  ASSUME NEW op, NEW t, NEW d \in DiskType, Midway(op, t, d)
  PROVE  Goes(op, t, d, <<>>, t, d)
<1>1. <<>> \in Seq(WriteType) /\ Len(<<>>) = 0 /\ \A n \in 0 .. 0 : n = 0
  OBVIOUS
<1>2. TableAfter(t, <<>>, 0) = t /\ DiskAfter(d, <<>>, 0) = d
  BY AfterNone
<1> QED
  BY <1>1, <1>2 DEF Goes

(* One write.                                                              *)
LEMMA GoesOnce ==
  ASSUME NEW op, NEW t \in TableType, NEW d \in DiskType, NEW v \in WriteType,
         NEW u, u = TableAfter(t, <<v>>, 1), NEW e, e = DiskAfter(d, <<v>>, 1),
         Midway(op, t, d), Midway(op, u, e)
  PROVE  Goes(op, t, d, <<v>>, u, e)
<1>1. <<v>> \in Seq(WriteType) /\ Len(<<v>>) = 1 /\ \A n \in 0 .. 1 : n = 0 \/ n = 1
  OBVIOUS
<1>2. TableAfter(t, <<v>>, 0) = t /\ DiskAfter(d, <<v>>, 0) = d
  BY AfterNone
<1>3. \A n \in 0 .. 1 : Midway(op, TableAfter(t, <<v>>, n), DiskAfter(d, <<v>>, n))
  BY <1>1, <1>2
<1> QED
  BY <1>1, <1>3 DEF Goes

(* The table is saved.                                                     *)
LEMMA GoesTable ==
  ASSUME NEW op, NEW t \in TableType, NEW d \in DiskType, NEW u \in TableType,
         Midway(op, t, d), Midway(op, u, d)
  PROVE  Goes(op, t, d, <<SaveTables(u)>>, u, d)
<1> DEFINE v == SaveTables(u)
<1>1. v \in WriteType /\ v.at = Table /\ v.what = u
  BY WriteIs
<1> HIDE DEF v
<1>2. TableAfter(t, <<v>>, 1) = u /\ DiskAfter(d, <<v>>, 1) = d
  BY <1>1, AfterOne
<1>3. Goes(op, t, d, <<v>>, u, d)
  BY <1>1, <1>2, GoesOnce
<1> QED
  BY <1>3 DEF v

(* A cluster is written.                                                   *)
LEMMA GoesDisk ==
  ASSUME NEW op, NEW t \in TableType, NEW d \in DiskType,
         NEW a \in Areas, NEW s \in Seq(Unit), Len(s) = Width(a),
         NEW e, e = Paste(d, a, s),
         Midway(op, t, d), Midway(op, t, e)
  PROVE  Goes(op, t, d, <<WriteUnits(a, s)>>, t, e)
<1> DEFINE v == WriteUnits(a, s)
<1>1. v \in WriteType /\ v.at = a /\ v.what = s /\ a # Table
  BY WriteIs, ConstantFacts
<1> HIDE DEF v
<1>2. TableAfter(t, <<v>>, 1) = t /\ DiskAfter(d, <<v>>, 1) = e
  BY <1>1, AfterOne DEF Paste
<1>3. Goes(op, t, d, <<v>>, t, e)
  BY <1>1, <1>2, GoesOnce
<1> QED
  BY <1>3 DEF v

(* Writes to the disk only.                                                *)
LEMMA GoesMany ==
  ASSUME NEW op, NEW t, NEW d, NEW w, w \in Seq(WriteType),
         \A i \in 1 .. Len(w) : w[i].at # Table,
         \A n \in 0 .. Len(w) : Midway(op, t, DiskAfter(d, w, n)),
         NEW e, e = DiskAfter(d, w, Len(w))
  PROVE  Goes(op, t, d, w, t, e)
<1>1. \A n \in 0 .. Len(w) : TableAfter(t, w, n) = t
  <2> TAKE n \in 0 .. Len(w)
  <2>1. n \in Nat /\ \A i \in 1 .. n : w[i].at # Table
    OBVIOUS
  <2> QED
    BY <2>1, LatestNone DEF TableAfter
<1>2. Len(w) \in 0 .. Len(w)
  OBVIOUS
<1> QED
  BY <1>1, <1>2 DEF Goes

(* One after the other.                                                    *)
LEMMA GoesOn ==
  ASSUME NEW op, NEW t, NEW d, NEW w, NEW u, NEW e, NEW x, NEW v, NEW f,
         Goes(op, t, d, w, u, e), Goes(op, u, e, x, v, f)
  PROVE  Goes(op, t, d, w \o x, v, f)
<1> DEFINE y == w \o x
           m == Len(w)
           l == Len(x)
<1>1. w \in Seq(WriteType) /\ x \in Seq(WriteType)
  BY DEF Goes
<1>2. m \in Nat /\ l \in Nat /\ y \in Seq(WriteType) /\ Len(y) = m + l
  BY <1>1, ConcatProperties
<1>3. /\ \A n \in 0 .. m : Midway(op, TableAfter(t, w, n), DiskAfter(d, w, n))
      /\ TableAfter(t, w, m) = u /\ DiskAfter(d, w, m) = e
      /\ \A n \in 0 .. l : Midway(op, TableAfter(u, x, n), DiskAfter(e, x, n))
      /\ TableAfter(u, x, l) = v /\ DiskAfter(e, x, l) = f
  BY DEF Goes
<1>4. Begins(y, w, m) /\ \A n \in 0 .. l : Continues(y, m, x, n)
  BY <1>1, ConcatRuns
<1> HIDE DEF y, m, l
<1>5. ASSUME NEW n \in Nat, n <= m
      PROVE  TableAfter(t, y, n) = TableAfter(t, w, n) /\ DiskAfter(d, y, n) = DiskAfter(d, w, n)
  <2>1. \A i \in 1 .. n : y[i] = w[i]
    BY <1>2, <1>4, <1>5 DEF Begins
  <2> QED
    BY ONLY n \in Nat, <2>1, AfterSame
<1>6. ASSUME NEW n \in 0 .. l, NEW k, k = m + n
      PROVE  TableAfter(t, y, k) = TableAfter(u, x, n) /\ DiskAfter(d, y, k) = DiskAfter(e, x, n)
  <2>1. Continues(y, m, x, n) /\ Begins(y, w, m) /\ m \in Nat /\ n \in Nat
    BY <1>2, <1>4
  <2>2. /\ TableAfter(t, y, k) = TableAfter(TableAfter(t, w, m), x, n)
        /\ DiskAfter(d, y, k) = DiskAfter(DiskAfter(d, w, m), x, n)
    BY ONLY <1>6, <2>1, AfterConcat
  <2> QED
    BY <1>3, <2>2
<1>7. ASSUME NEW k \in 0 .. Len(y)
      PROVE  Midway(op, TableAfter(t, y, k), DiskAfter(d, y, k))
  <2>1. CASE k <= m
    BY <1>2, <1>3, <1>5, <2>1
  <2>2. CASE ~(k <= m)
    <3> DEFINE n == k - m
    <3>1. n \in 0 .. l /\ k = m + n
      BY <1>2, <2>2
    <3> HIDE DEF n
    <3> QED
      BY <1>3, <1>6, <3>1
  <2> QED
    BY <2>1, <2>2
<1>8. TableAfter(t, y, Len(y)) = v /\ DiskAfter(d, y, Len(y)) = f
  <2>1. l \in 0 .. l
    BY <1>2
  <2> QED
    BY <1>2, <1>3, <1>6, <2>1
<1> QED
  BY <1>2, <1>7, <1>8 DEF Goes, y

(* Where the writes lead has the types of tables and disks.                *)
LEMMA GoesTypes ==
  ASSUME NEW op, NEW t \in TableType, NEW d \in DiskType, NEW w, NEW u, NEW e,
         Goes(op, t, d, w, u, e)
  PROVE  w \in Seq(WriteType) /\ u \in TableType /\ e \in DiskType /\ Midway(op, t, d) /\ Midway(op, u, e)
<1>1. /\ w \in Seq(WriteType) /\ Len(w) \in Nat
      /\ \A n \in 0 .. Len(w) : Midway(op, TableAfter(t, w, n), DiskAfter(d, w, n))
      /\ TableAfter(t, w, Len(w)) = u /\ DiskAfter(d, w, Len(w)) = e
  BY DEF Goes
<1>2. 0 \in 0 .. Len(w) /\ Len(w) \in 0 .. Len(w)
  BY <1>1
<1>3. u \in TableType /\ e \in DiskType
  BY <1>1, <1>2, AfterTypes
<1>4. TableAfter(t, w, 0) = t /\ DiskAfter(d, w, 0) = d
  BY AfterNone
<1> QED
  BY <1>1, <1>2, <1>3, <1>4

(* The first write is done.                                                *)
LEMMA GoesTail ==
  ASSUME NEW op, NEW t \in TableType, NEW d \in DiskType, NEW w, NEW u, NEW e,
         Goes(op, t, d, w, u, e), w # <<>>
  PROVE  /\ Head(w) \in WriteType
         /\ Goes(op, TableAfter(t, <<Head(w)>>, 1), DiskAfter(d, <<Head(w)>>, 1), Tail(w), u, e)
<1> DEFINE v == Head(w)
           z == <<v>>
           x == Tail(w)
           l == Len(x)
           s == TableAfter(t, z, 1)
           c == DiskAfter(d, z, 1)
<1>1. /\ w \in Seq(WriteType)
      /\ \A n \in 0 .. Len(w) : Midway(op, TableAfter(t, w, n), DiskAfter(d, w, n))
      /\ TableAfter(t, w, Len(w)) = u /\ DiskAfter(d, w, Len(w)) = e
  BY DEF Goes
<1>2. /\ v \in WriteType /\ x \in Seq(WriteType) /\ l \in Nat /\ Len(w) = 1 + l
      /\ v = w[1] /\ \A i \in 1 .. l : x[i] = w[1 + i]
  BY <1>1
<1>3. Begins(w, z, 1) /\ \A n \in 0 .. l : Continues(w, 1, x, n)
  BY <1>2 DEF Begins, Continues
<1> HIDE DEF x, l, z, s, c
<1>4. ASSUME NEW n \in 0 .. l, NEW k, k = 1 + n
      PROVE  TableAfter(t, w, k) = TableAfter(s, x, n) /\ DiskAfter(d, w, k) = DiskAfter(c, x, n)
  <2>1. Continues(w, 1, x, n) /\ Begins(w, z, 1) /\ 1 \in Nat /\ n \in Nat
    BY <1>2, <1>3
  <2>2. /\ TableAfter(t, w, k) = TableAfter(TableAfter(t, z, 1), x, n)
        /\ DiskAfter(d, w, k) = DiskAfter(DiskAfter(d, z, 1), x, n)
    <3> DEFINE m == 1
    <3>1. m \in Nat /\ k = m + n
      BY <1>4
    <3>2. Begins(w, z, m) /\ Continues(w, m, x, n) /\ n \in Nat
      BY <2>1
    <3> HIDE DEF m
    <3>3. /\ TableAfter(t, w, k) = TableAfter(TableAfter(t, z, m), x, n)
          /\ DiskAfter(d, w, k) = DiskAfter(DiskAfter(d, z, m), x, n)
      BY ONLY <3>1, <3>2, AfterConcat
    <3> QED
      BY <3>3 DEF m
  <2> QED
    BY <2>2 DEF s, c
<1>5. ASSUME NEW n \in 0 .. l
      PROVE  Midway(op, TableAfter(s, x, n), DiskAfter(c, x, n))
  <2> DEFINE k == 1 + n
  <2>1. k \in 0 .. Len(w) /\ k = 1 + n
    BY <1>2
  <2> HIDE DEF k
  <2> QED
    BY <1>1, <1>4, <2>1
<1>6. TableAfter(s, x, l) = u /\ DiskAfter(c, x, l) = e
  <2>1. l \in 0 .. l
    BY <1>2
  <2> QED
    BY <1>1, <1>2, <1>4, <2>1
<1> QED
  BY <1>2, <1>5, <1>6 DEF Goes, x, l, s, c, z

(***************************************************************************)
(* Entries and free clusters of the disk as it is.                         *)
(***************************************************************************)

(* The write of one unit, on a disk that holds the same in these clusters. *)
LEMMA PutWrite ==
  ASSUME disk \in DiskType, NEW d \in DiskType, NEW s, Shaped(s),
         \A a \in ToSet(s) : d[a] = disk[a],
         NEW u \in Unit, NEW k \in Nat, k < Len(Units(d, s))
  PROVE  \E a \in Areas : \E x \in Seq(Unit) :
           Len(x) = Width(a) /\ WriteUnit(s, k, u) = WriteUnits(a, x) /\ Put(d, s, k, u) = Paste(d, a, x)
<1> DEFINE w == Width(s[1])
           q == k \div w
           r == k % w
           c == s[q + 1]
           x == [disk[c] EXCEPT ![r + 1] = u]
<1>1. /\ w \in Nat /\ w > 0 /\ Len(s) \in Nat /\ Len(s) > 0 /\ DOMAIN s = 1 .. Len(s)
      /\ \A i \in 1 .. Len(s) : s[i] \in Areas
  BY ShapedFacts
<1>2. \A i \in 1 .. Len(s) : disk[s[i]] \in Seq(Unit) /\ Len(disk[s[i]]) = w
  BY ShapedFacts
<1>3. Len(d[s[1]]) = w /\ Len(disk[s[1]]) = w
  BY <1>1, <1>2, ShapedFacts
<1>4. Put(d, s, k, u) = [d EXCEPT ![c] = [d[c] EXCEPT ![r + 1] = u]]
  BY <1>3 DEF Put
<1>5. WriteUnit(s, k, u) = WriteUnits(c, x)
  BY <1>3 DEF WriteUnit
<1>6. k \in 0 .. w * Len(s) - 1
  <2>1. Len(Units(d, s)) = w * Len(s) /\ w * Len(s) \in Nat
    BY UnitsFacts
  <2> HIDE DEF w
  <2> QED
    BY <2>1
<1> HIDE DEF w
<1>7. q \in 0 .. Len(s) - 1 /\ r \in 0 .. w - 1
  BY <1>1, <1>6, DivMod, DivBound
<1> HIDE DEF q, r
<1>8. q + 1 \in 1 .. Len(s) /\ r + 1 \in 1 .. w
  BY <1>1, <1>7
<1>9. c \in Areas /\ c \in ToSet(s) /\ disk[c] \in Seq(Unit) /\ Len(disk[c]) = w /\ d[c] = disk[c]
  <2>1. c \in Areas /\ c \in ToSet(s) /\ disk[c] \in Seq(Unit) /\ Len(disk[c]) = w
    BY <1>1, <1>2, <1>8 DEF ToSet
  <2> QED
    BY <2>1
<1>10. x \in Seq(Unit) /\ Len(x) = w
  BY <1>8, <1>9, ExceptSeq
<1>11. w = Width(c)
  <2>1. Len(disk[c]) = Width(c)
    BY <1>9 DEF DiskType
  <2> QED
    BY <1>9, <2>1
<1> QED
  BY <1>4, <1>5, <1>9, <1>10, <1>11 DEF Paste

(* A free cluster belongs to no path, and is blank between the operations. *)
LEMMA FreeFacts ==
  ASSUME NEW t \in TableType, NEW E, NEW S, NEW L, IsTree(E, S, L), ChainsApart(t, E, S),
         NEW c \in FreeIn(t)
  PROVE  c \in Clusters /\ t[c] = Free /\ Unused(S, c)
<1>1. c \in Clusters /\ t[c] = Free
  BY DEF FreeIn
<1>2. ASSUME NEW p \in DOMAIN S PROVE c \notin ToSet(S[p])
  <2>1. p \in DOMAIN E
    BY TreeFacts
  <2>2. CASE p = <<>>
    <3>1. ToSet(S[p]) = {Root}
      <4>1. S[p] = <<Root>>
        BY <2>2, TreeFacts
      <4>2. ToSet(<<Root>>) = {Root}
        BY DEF ToSet
      <4> QED
        BY <4>1, <4>2
    <3> QED
      BY <1>1, <3>1, ConstantFacts
  <2>3. CASE p # <<>>
    <3>1. IsChain(t, S[p])
      BY <2>1, <2>3 DEF ChainsApart
    <3> QED
      BY <1>1, <3>1, ChainNotFree
  <2> QED
    BY <2>2, <2>3
<1> QED
  BY <1>1, <1>2 DEF Unused

(* The next free cluster is free.                                          *)
LEMMA NextFreeFacts ==
  ASSUME NEW t \in TableType, FreeIn(t) # {}
  PROVE  NextFree(t) \in FreeIn(t)
<1>1. FreeIn(t) \subseteq Nat
  BY ConstantFacts DEF FreeIn
<1> QED
  BY <1>1, MinFacts DEF NextFree

(* Folders have no free clusters: where only folders are written, free     *)
(* clusters stay blank.                                                    *)
LEMMA BlankKept ==
  ASSUME NEW t, NEW d, NEW e, NEW u, FreeBlank(t, d), \A c \in FreeIn(u) : c \in FreeIn(t) /\ e[c] = d[c]
  PROVE  FreeBlank(u, e)
BY DEF FreeBlank

(* The files of Q keep their sizes, their chains and what these hold.      *)
Untouched(d, E, S, e, F, T, Q) ==
  \A q \in Q :
    /\ q \in DOMAIN E /\ q \in DOMAIN F /\ F[q].dir = E[q].dir
    /\ ~E[q].dir => /\ F[q].size = E[q].size /\ T[q] = S[q]
                    /\ \A c \in ToSet(S[q]) : e[c] = d[c]

(* They do when the folder f and a cluster of no path are written to only. *)
LEMMA UntouchedOff ==
  ASSUME NEW t \in TableType, NEW d, NEW E, NEW S, NEW L, IsTree(E, S, L), ChainsApart(t, E, S),
         NEW f \in DOMAIN E, E[f].dir, NEW c, Unused(S, c),
         NEW e, \A a \in Areas : a \notin ToSet(S[f]) /\ a # c => e[a] = d[a],
         NEW F, NEW T, NEW Q, Q \subseteq DOMAIN E, Q \subseteq DOMAIN F,
         \A q \in Q : F[q] = E[q] /\ (~E[q].dir => T[q] = S[q])
  PROVE  Untouched(d, E, S, e, F, T, Q)
<1> SUFFICES ASSUME NEW q \in Q, ~E[q].dir, NEW a \in ToSet(S[q]) PROVE e[a] = d[a]
  BY DEF Untouched
<1>1. q \in DOMAIN E /\ q # f /\ DOMAIN S = DOMAIN E
  BY TreeFacts
<1>2. a \notin ToSet(S[f])
  BY <1>1, Apart
<1>3. a # c
  BY <1>1 DEF Unused
<1>4. a \in Areas
  <2>1. S[q] \in Seq(Areas)
    BY <1>1, ShapeOf
  <2> QED
    BY <2>1 DEF ToSet
<1> QED
  BY <1>2, <1>3, <1>4

(* What a creation writes last, and what it is called.                     *)
EntryWrites(s, k, v, dir, c, up) ==
  <<WriteUnit(s, k, v)>> \o IF dir THEN <<WriteUnits(c, FolderBasics(c, up))>> ELSE <<>>

(* The operation that creates a folder or a file.                          *)
Creation(dir) == IF dir THEN "create_folder" ELSE "create_file"

(* The entry of a new item, and the header of a new folder.                *)
LEMMA NewEntry ==
  ASSUME NEW t \in TableType, disk \in DiskType, NEW E, NEW S, NEW L, Settles(t, disk, E, S, L),
         NEW q \in Paths, q \notin DOMAIN E, NEW f, f = Front(q), f \in DOMAIN E, E[f].dir,
         NEW c \in Clusters, Unused(S, c), t[c] = EOC, \A j \in 1 .. Size : disk[c][j] = Blank,
         NEW k, k = Len(L[f]) + Header(S[f][1]), k < Len(Units(disk, S[f])),
         NEW dir \in BOOLEAN, NEW up \in Areas,
         NEW v, v = Entry(Last(q), dir, c, 0),
         NEW op, op = Creation(dir), NEW w, w = EntryWrites(S[f], k, v, dir, c, up)
  PROVE  \E F, T, M, e :
           /\ Goes(op, t, disk, w, t, e) /\ Settles(t, e, F, T, M)
           /\ F = With(E, q, v) /\ T = With(S, q, <<c>>)
           /\ Untouched(disk, E, S, e, F, T, DOMAIN E)
<1> DEFINE n == Last(q)
<1>0. n \in Names /\ q = Append(f, n) /\ v = Entry(n, dir, c, 0)
  BY PathsAreSeqs, PathFacts
<1> HIDE DEF n
<1> DEFINE F == With(E, q, v)
           T == With(S, q, <<c>>)
           M == With(With(L, f, Append(L[f], n)), q, <<>>)
           d1 == Put(disk, S[f], k, v)
           entry == <<WriteUnit(S[f], k, v)>>
<1>1. /\ Represents(t, disk, E, S, L) /\ (SmallWrites => SizesFit(E, S))
      /\ AllHeaded(disk, E, S) /\ FreeBlank(t, disk)
  BY DEF Settles, Sound
<1>2. IsTree(E, S, L) /\ ChainsApart(t, E, S)
  BY <1>1 DEF Represents
<1>3. /\ d1 \in DiskType /\ Represents(t, d1, F, T, M)
      /\ \A x \in DOMAIN E : E[x].dir /\ Headed(disk, S[x]) => Headed(d1, T[x])
      /\ \A a \in Areas : a \notin ToSet(S[f]) => d1[a] = disk[a]
  <2>1. Headed(disk, S[f])
    BY <1>1 DEF AllHeaded
  <2>2. Header(S[f][1]) + Len(L[f]) < Len(Units(disk, S[f]))
    <3>1. Shaped(S[f]) /\ L[f] \in Seq(Names)
      BY <1>2, ShapeOf, TreeFacts
    <3>2. Header(S[f][1]) \in {1, 2} /\ Len(L[f]) \in Nat
      BY <3>1, ShapedFacts
    <3> QED
      BY <3>2
  <2>3. d1 = Put(disk, S[f], Len(L[f]) + Header(S[f][1]), Entry(n, dir, c, 0))
    BY <1>0
  <2> HIDE DEF d1, F, T, M
  <2>4. /\ Append(f, n) \notin DOMAIN E /\ Append(f, n) \in Paths /\ E[f].dir /\ Unused(S, c)
        /\ t[c] = EOC /\ \A j \in 1 .. Size : disk[c][j] = Blank
        /\ disk \in DiskType /\ Represents(t, disk, E, S, L)
    BY <1>0, <1>1
  <2>5. /\ d1 \in DiskType /\ Represents(t, d1, F, T, M)
        /\ \A x \in DOMAIN E : E[x].dir /\ Headed(disk, S[x]) => Headed(d1, T[x])
        /\ \A a \in Areas : a \notin ToSet(S[f]) => d1[a] = disk[a]
    BY ONLY <2>1, <2>2, <2>3, <2>4, <1>0, RepresentsEntry, t \in TableType, f \in DOMAIN E, c \in Clusters, dir \in BOOLEAN DEF F, T, M
  <2> QED
    BY <2>5
<1>4. /\ DOMAIN F = DOMAIN E \cup {q} /\ F[q] = v /\ T[q] = <<c>> /\ M[q] = <<>>
      /\ DOMAIN S = DOMAIN E
      /\ \A x \in DOMAIN E : F[x] = E[x] /\ T[x] = S[x]
  BY <1>2, TreeFacts DEF With
<1>5. v.dir = dir /\ v.size = 0
  BY DEF Entry
<1> HIDE DEF d1, F, T, M
<1>6. SmallWrites => SizesFit(F, T)
  <2> SUFFICES ASSUME SmallWrites PROVE SizesFit(F, T)
    OBVIOUS
  <2>1. ASSUME NEW x \in DOMAIN F, ~F[x].dir PROVE F[x].size <= Size * Len(T[x])
    <3>1. CASE x = q
      <4>1. Len(<<c>>) = 1 /\ Size * 1 = Size /\ 0 <= Size
        BY ConstantFacts
      <4> QED
        BY <1>4, <1>5, <3>1, <4>1
    <3>2. CASE x \in DOMAIN E
      BY <1>1, <1>4, <2>1, <3>2 DEF SizesFit
    <3> QED
      BY <1>4, <3>1, <3>2
  <2> QED
    BY <2>1 DEF SizesFit
<1>7. \A x \in DOMAIN E : E[x].dir => Headed(d1, T[x])
  BY <1>1, <1>3 DEF AllHeaded
<1>8. FreeBlank(t, d1)
  <2>1. \A a \in FreeIn(t) : a \in Areas /\ a \notin ToSet(S[f])
    BY <1>2, <1>4, FreeFacts DEF Unused, Areas
  <2>2. \A a \in FreeIn(t) : d1[a] = disk[a]
    BY <1>3, <2>1
  <2> QED
    BY <1>1, <2>2, BlankKept
<1>9. Goes(op, t, disk, entry, t, d1)
  <2>1. Midway(op, t, disk)
    BY <1>1 DEF Midway, Sound
  <2>2. Midway(op, t, d1)
    <3>1. Sound(t, d1, F, T, M)
      BY <1>3, <1>6 DEF Sound
    <3>2. op \in {"idle", "create_file"} => AllHeaded(d1, F, T)
      <4>1. CASE dir
        BY <4>1 DEF Creation
      <4>2. CASE ~dir
        BY <1>4, <1>5, <1>7, <4>2 DEF AllHeaded
      <4> QED
        BY <4>1, <4>2
    <3> QED
      BY <1>8, <3>1, <3>2 DEF Midway
  <2>3. PICK a \in Areas, x \in Seq(Unit) :
          Len(x) = Width(a) /\ WriteUnit(S[f], k, v) = WriteUnits(a, x) /\ d1 = Paste(disk, a, x)
    <3>1. Shaped(S[f]) /\ L[f] \in Seq(Names)
      BY <1>2, ShapeOf, TreeFacts
    <3>2. k \in Nat
      <4>1. Header(S[f][1]) \in {1, 2} /\ Len(L[f]) \in Nat
        BY <3>1, ShapedFacts
      <4> QED
        BY <4>1
    <3>3. v \in Unit
      BY <1>0, ConstantFacts DEF Unit, Entry, EntryType
    <3>4. d1 = Put(disk, S[f], k, v)
      BY DEF d1
    <3>5. \E a \in Areas : \E x \in Seq(Unit) :
            /\ Len(x) = Width(a) /\ WriteUnit(S[f], k, v) = WriteUnits(a, x)
            /\ Put(disk, S[f], k, v) = Paste(disk, a, x)
      <4> DEFINE s == S[f]
      <4>1. Shaped(s) /\ k < Len(Units(disk, s)) /\ disk \in DiskType /\ \A a \in ToSet(s) : disk[a] = disk[a]
        BY <3>1
      <4> HIDE DEF s
      <4>2. \E a \in Areas : \E x \in Seq(Unit) :
              Len(x) = Width(a) /\ WriteUnit(s, k, v) = WriteUnits(a, x) /\ Put(disk, s, k, v) = Paste(disk, a, x)
        BY ONLY <3>2, <3>3, <4>1, PutWrite
      <4> QED
        BY <4>2 DEF s
    <3> QED
      BY <3>4, <3>5
  <2> QED
    BY <2>1, <2>2, <2>3, GoesDisk
<1>12. ASSUME NEW e, \A a \in Areas : a # c => e[a] = d1[a]
       PROVE  Untouched(disk, E, S, e, F, T, DOMAIN E)
  <2>1. \A a \in Areas : a \notin ToSet(S[f]) /\ a # c => e[a] = disk[a]
    BY <1>3, <1>12
  <2>2. DOMAIN E \subseteq DOMAIN F /\ \A x \in DOMAIN E : F[x] = E[x] /\ T[x] = S[x]
    BY <1>4
  <2> QED
    BY <1>2, <2>1, <2>2, UntouchedOff
<1>10. CASE ~dir
  <2>1. w = entry \o <<>> /\ entry \o <<>> = entry
    BY <1>10 DEF EntryWrites
  <2>2. Goes(op, t, disk, w, t, d1)
    BY <1>9, <2>1
  <2>3. AllHeaded(d1, F, T)
    BY <1>4, <1>5, <1>7, <1>10 DEF AllHeaded
  <2>4. Settles(t, d1, F, T, M)
    BY <1>3, <1>6, <1>8, <2>3 DEF Settles, Sound
  <2>5. Untouched(disk, E, S, d1, F, T, DOMAIN E)
    BY <1>12
  <2> QED
    BY <2>2, <2>4, <2>5 DEF F, T
<1>11. CASE dir
  <2> DEFINE B  == FolderBasics(c, up)
             d2 == Paste(d1, c, B)
  <2>1. c \in Areas /\ c \notin FreeIn(t)
    BY ConstantFacts DEF Areas, FreeIn
  <2>2. q # <<>> /\ q \in DOMAIN F /\ F[q].dir
    BY <1>4, <1>5, <1>11, PathsAreSeqs
  <2>3. /\ d2 \in DiskType /\ Represents(t, d2, F, T, M) /\ Headed(d2, T[q])
        /\ \A x \in DOMAIN F : F[x].dir /\ Headed(d1, T[x]) => Headed(d2, T[x])
        /\ \A a \in Areas : a # c => d2[a] = d1[a]
    <3> DEFINE d3 == d2
    <3>1. d3 = Paste(d1, c, FolderBasics(c, up))
      OBVIOUS
    <3> HIDE DEF d3
    <3>2. /\ d1 \in DiskType /\ Represents(t, d1, F, T, M)
          /\ q \in DOMAIN F /\ q # <<>> /\ F[q].dir /\ M[q] = <<>> /\ T[q] = <<c>>
      BY <1>3, <1>4, <2>2
    <3>3. d3 \in DiskType /\ Represents(t, d3, F, T, M)
      BY ONLY <3>1, <3>2, up \in Areas, c \in Clusters, t \in TableType, RepresentsHeader
    <3>6. Headed(d3, T[q])
      BY ONLY <3>1, <3>2, up \in Areas, c \in Clusters, t \in TableType, RepresentsHeader
    <3>4. \A x \in DOMAIN F : F[x].dir /\ Headed(d1, T[x]) => Headed(d3, T[x])
      <4> TAKE x \in DOMAIN F
      <4> QED
        BY ONLY <3>1, <3>2, up \in Areas, c \in Clusters, t \in TableType, RepresentsHeader
    <3>5. \A a \in Areas : a # c => d3[a] = d1[a]
      BY ONLY <3>1, <3>2, up \in Areas, c \in Clusters, t \in TableType, RepresentsHeader
    <3> QED
      BY <3>3, <3>4, <3>5, <3>6 DEF d3
  <2>4. B \in Seq(Unit) /\ Len(B) = Width(c)
    <3>1. d1[c] \in Seq(Unit) /\ d2[c] \in Seq(Unit) /\ Len(d2[c]) = Width(c)
      BY <1>3, <2>1, <2>3 DEF DiskType
    <3>2. d2[c] = B
      <4>1. c \in DOMAIN d1
        BY <1>3, <2>1 DEF DiskType
      <4> QED
        BY <4>1 DEF Paste
    <3> QED
      BY <3>1, <3>2
  <2> HIDE DEF B
  <2>5. FreeBlank(t, d2)
    <3>1. \A a \in FreeIn(t) : a \in Areas /\ a # c
      BY <2>1 DEF FreeIn, Areas
    <3> HIDE DEF d2
    <3> QED
      BY <1>8, <2>3, <3>1, BlankKept
  <2>6. AllHeaded(d2, F, T)
    BY <1>4, <1>7, <2>3 DEF AllHeaded
  <2>7. Settles(t, d2, F, T, M)
    BY <1>6, <2>3, <2>5, <2>6 DEF Settles, Sound
  <2>8. Midway(op, t, d1) /\ Midway(op, t, d2)
    BY <1>3, <1>9, <2>7, GoesTypes DEF Midway, Settles
  <2>9. Goes(op, t, d1, <<WriteUnits(c, B)>>, t, d2)
    BY <1>3, <2>1, <2>4, <2>8, GoesDisk
  <2>10. w = entry \o <<WriteUnits(c, B)>>
    BY <1>11 DEF B, EntryWrites
  <2> DEFINE basics == <<WriteUnits(c, B)>>
  <2>11. w = entry \o basics /\ Goes(op, t, disk, entry, t, d1) /\ Goes(op, t, d1, basics, t, d2)
    BY <1>9, <2>9, <2>10
  <2>13. Untouched(disk, E, S, d2, F, T, DOMAIN E)
    BY <1>12, <2>3
  <2> HIDE DEF entry, d2, basics
  <2>12. Goes(op, t, disk, w, t, d2)
    BY ONLY <2>11, GoesOn
  <2> QED
    BY <2>7, <2>12, <2>13 DEF F, T
<1> QED
  BY <1>10, <1>11

(***************************************************************************)
(* The writes of create_file and create_folder.                            *)
(***************************************************************************)

(* A free cluster is taken for something that has no path yet.             *)
LEMMA Taken ==
  ASSUME NEW t \in TableType, NEW d \in DiskType, NEW E, NEW S, NEW L, Settles(t, d, E, S, L),
         NEW c \in FreeIn(t), NEW u \in TableType, u[c] = EOC, \A x \in Clusters : x # c => u[x] = t[x]
  PROVE  /\ FreeIn(u) = FreeIn(t) \ {c} /\ Unused(S, c) /\ c \in Clusters
         /\ \A j \in 1 .. Size : d[c][j] = Blank
         /\ Settles(u, d, E, S, L)
<1>1. Represents(t, d, E, S, L) /\ FreeBlank(t, d)
  BY DEF Settles, Sound
<1>2. IsTree(E, S, L) /\ ChainsApart(t, E, S) /\ DOMAIN S = DOMAIN E
  BY <1>1, TreeFacts DEF Represents
<1>3. c \in Clusters /\ t[c] = Free /\ Unused(S, c)
  BY <1>2, FreeFacts
<1>4. u \in TableType /\ u[c] = EOC /\ \A x \in Clusters : x # c => u[x] = t[x]
  OBVIOUS
<1>5. FreeIn(u) = FreeIn(t) \ {c}
  BY <1>4, ConstantFacts DEF FreeIn
<1>6. \A j \in 1 .. Size : d[c][j] = Blank
  BY <1>1 DEF FreeBlank, BlankCluster
<1>7. \A p \in DOMAIN E \ {<<>>} : \A x \in ToSet(S[p]) : u[x] = t[x]
  <2> TAKE p \in DOMAIN E \ {<<>>}
  <2> TAKE x \in ToSet(S[p])
  <2>1. x \in Clusters
    BY <1>2, ShapeOf
  <2>2. x # c
    BY <1>2, <1>3 DEF Unused
  <2> QED
    BY <1>4, <2>1, <2>2
<1>8. Represents(u, d, E, S, L)
  BY <1>1, <1>4, <1>7, RepresentsOtherTable
<1>9. FreeBlank(u, d)
  BY <1>1, <1>5 DEF FreeBlank
<1>10. Settles(u, d, E, S, L)
  BY <1>8, <1>9 DEF Settles, Sound
<1> QED
  BY <1>3, <1>4, <1>5, <1>6, <1>10

(* The chain of p gets a blank cluster that was free.                      *)
LEMMA Allocated1 ==
  ASSUME NEW t \in TableType, NEW d \in DiskType, NEW E, NEW S, NEW L, Settles(t, d, E, S, L),
         NEW p \in DOMAIN E, p # <<>>, FreeIn(t) # {},
         NEW c, c = NextFree(t), NEW u, u = AllocateNewCluster(t, E[p].first)
  PROVE  LET T == With(S, p, Append(S[p], c)) IN
         /\ u \in TableType /\ c \in Clusters /\ c \in FreeIn(t) /\ Unused(S, c)
         /\ u[c] = EOC /\ u[Last(S[p])] = c /\ Last(S[p]) \in Clusters
         /\ \A x \in Clusters : x # c /\ x # Last(S[p]) => u[x] = t[x]
         /\ FreeIn(u) = FreeIn(t) \ {c}
         /\ Settles(u, d, E, T, L)
<1> DEFINE T == With(S, p, Append(S[p], c))
<1>1. /\ Represents(t, d, E, S, L) /\ FreeBlank(t, d) /\ AllHeaded(d, E, S)
      /\ (SmallWrites => SizesFit(E, S))
  BY DEF Settles, Sound
<1>2. IsTree(E, S, L) /\ ChainsApart(t, E, S)
  BY <1>1 DEF Represents
<1>3. c \in FreeIn(t)
  BY NextFreeFacts
<1>4. c \in Clusters /\ t[c] = Free /\ Unused(S, c)
  BY <1>2, <1>3, FreeFacts
<1>5. /\ IsChain(t, S[p]) /\ Chain(t, E[p].first) = S[p] /\ S[p] \in Seq(Clusters) /\ Len(S[p]) > 0
      /\ DOMAIN S[p] = 1 .. Len(S[p])
  BY <1>2, ShapeOf
<1>6. Last(S[p]) \in ToSet(S[p]) /\ Last(S[p]) \in Clusters
  <2>1. Len(S[p]) \in 1 .. Len(S[p])
    BY <1>5
  <2> QED
    BY <1>5, <2>1 DEF Last, ToSet
<1>7. DOMAIN S = DOMAIN E
  BY <1>2, TreeFacts
<1>8. Last(S[p]) # c
  BY <1>4, <1>6, <1>7 DEF Unused
<1>9. u = [[t EXCEPT ![c] = EOC] EXCEPT ![Last(S[p])] = c]
  BY <1>5 DEF AllocateNewCluster
<1>10. /\ u \in TableType /\ u[c] = EOC /\ u[Last(S[p])] = c
       /\ \A x \in Clusters : x # c /\ x # Last(S[p]) => u[x] = t[x]
  BY <1>4, <1>6, <1>8, <1>9 DEF TableType
<1>11. t[Last(S[p])] # Free /\ u[Last(S[p])] # Free
  BY <1>4, <1>5, <1>6, <1>10, ChainNotFree, ConstantFacts
<1>12. FreeIn(u) = FreeIn(t) \ {c}
  <2>1. \A x \in Clusters : u[x] = Free <=> t[x] = Free /\ x # c
    BY <1>4, <1>8, <1>10, <1>11, ConstantFacts
  <2> QED
    BY <2>1 DEF FreeIn
<1>13. \A q \in DOMAIN E \ {<<>>} : \A x \in ToSet(S[q]) : x # Last(S[p]) => u[x] = t[x]
  <2> TAKE q \in DOMAIN E \ {<<>>}
  <2> TAKE x \in ToSet(S[q])
  <2>1. x \in Clusters
    BY <1>2, ShapeOf
  <2>2. x # c
    BY <1>4, <1>7 DEF Unused
  <2> QED
    BY <1>10, <2>1, <2>2
<1>14. (\A j \in 1 .. Size : d[c][j] = Blank) /\ NoEntries(d, c)
  <2>1. \A j \in 1 .. Size : d[c][j] = Blank
    BY <1>1, <1>3 DEF FreeBlank, BlankCluster
  <2> QED
    BY <2>1, KindFacts DEF NoEntries
<1>15. /\ Represents(u, d, E, T, L)
       /\ \A q \in DOMAIN E : E[q].dir /\ Headed(d, S[q]) => Headed(d, T[q])
  BY <1>1, <1>4, <1>10, <1>13, <1>14, RepresentsLonger
<1>16. AllHeaded(d, E, T)
  BY <1>1, <1>15 DEF AllHeaded
<1>17. FreeBlank(u, d)
  BY <1>1, <1>12 DEF FreeBlank
<1>18. SmallWrites => SizesFit(E, T)
  <2> SUFFICES ASSUME SmallWrites, NEW q \in DOMAIN E, ~E[q].dir PROVE E[q].size <= Size * Len(T[q])
    BY DEF SizesFit
  <2>1. E[q].size <= Size * Len(S[q])
    BY <1>1 DEF SizesFit
  <2>2. CASE q # p
    <3>1. T[q] = S[q]
      BY <1>7, <2>2 DEF With
    <3> QED
      BY <2>1, <3>1
  <2>3. CASE q = p
    <3>1. T[q] = Append(S[p], c)
      BY <2>3 DEF With
    <3>2. Len(Append(S[p], c)) = Len(S[p]) + 1 /\ Len(S[p]) \in Nat
      BY <1>5
    <3>3. E[p].size \in Nat
      BY <1>2, TreeFacts, KindFacts
    <3>4. Size * (Len(S[p]) + 1) = Size * Len(S[p]) + Size /\ Size * Len(S[p]) \in Nat /\ Size \in Nat
      BY <3>2, ConstantFacts
    <3> DEFINE m == Size * Len(S[p])
    <3>5. m \in Nat /\ E[q].size <= m /\ Size * Len(T[q]) = m + Size /\ E[q].size \in Nat
      BY <2>1, <2>3, <3>1, <3>2, <3>3, <3>4
    <3> HIDE DEF m
    <3> QED
      BY <3>4, <3>5
  <2> QED
    BY <2>2, <2>3
<1>19. Settles(u, d, E, T, L)
  BY <1>15, <1>16, <1>17, <1>18 DEF Settles, Sound
<1> QED
  BY <1>3, <1>4, <1>6, <1>10, <1>12, <1>19

(* Between the operations every operation may begin.                       *)
LEMMA SettlesMidway ==
  ASSUME NEW op, NEW t, NEW d, NEW E, NEW S, NEW L, Settles(t, d, E, S, L)
  PROVE  Midway(op, t, d)
BY DEF Settles, Midway

(* The writes of a creation lead to the tree with one more entry, unless   *)
(* this had no place.                                                      *)
Makes(op, path, dir, E, S, new) ==
  \E F, T, M, e :
    /\ Goes(op, fat, disk, new.writes, new.table, e)
    /\ Settles(new.table, e, F, T, M)
    /\ \A q \in DOMAIN E : q \in DOMAIN F /\ F[q] = E[q]
    /\ new.ok => path \in DOMAIN F /\ F[path] = Entry(Last(path), dir, new.first, 0)
    /\ AllOwned(fat, S) => AllOwned(new.table, T)
    /\ Untouched(disk, E, S, e, F, T, DOMAIN E)
    /\ DOMAIN F = IF new.ok THEN DOMAIN E \cup {path} ELSE DOMAIN E

(* create_file and create_folder write what makes the new entry part of    *)
(* the tree, or give back what they took.                                  *)
LEMMA CreateGoes ==
  ASSUME fat \in TableType, disk \in DiskType, NEW E, NEW S, NEW L, Settles(fat, disk, E, S, L),
         NEW path \in Paths, path \notin DOMAIN E,
         NEW f, f = Front(path), f \in DOMAIN E, E[f].dir, FreeIn(fat) # {},
         NEW dir \in BOOLEAN, NEW op, op = Creation(dir),
         NEW new, new = NewItem(path, dir)
  PROVE  /\ new.first \in Clusters /\ new.writes # <<>> /\ new.table \in TableType
         /\ Makes(op, path, dir, E, S, new)
<1> DEFINE up    == Lookup(fat, disk, Front(path)).first
           chain == Chain(fat, up)
           used  == Len(Items(fat, disk, up)) + Header(up)
           c     == NextFree(fat)
           taken == [fat EXCEPT ![c] = EOC]
           longer == AllocateNewCluster(taken, up)
           c2    == NextFree(taken)
           v     == Entry(Last(path), dir, c, 0)
           entry(in) == WriteUnit(in, used, v)
           basics == IF dir THEN <<WriteUnits(c, FolderBasics(c, up))>> ELSE <<>>
           room == used < Len(Units(disk, chain))
           more == up # Root /\ FreeIn(taken) # {}
           back == GiveBack(taken, c)
<1>1. /\ new = IF room
               THEN [ok |-> TRUE, first |-> c, table |-> taken,
                     writes |-> InOrder(<<SaveTables(taken)>>, entry(chain), basics)]
               ELSE IF more
               THEN [ok |-> TRUE, first |-> c, table |-> longer,
                     writes |-> InOrder(<<SaveTables(taken), SaveTables(longer)>>,
                                        entry(chain \o <<c2>>), basics)]
               ELSE [ok |-> FALSE, first |-> c, table |-> back,
                     writes |-> <<SaveTables(taken), SaveTables(back)>>]
  BY DEF NewItem
<1>2. /\ Represents(fat, disk, E, S, L) /\ IsTree(E, S, L) /\ ChainsApart(fat, E, S)
      /\ Holds(disk, E, S, L)
  BY DEF Settles, Sound, Represents
<1>3. path \in Seq(Names) /\ path # <<>> /\ f \in Seq(Names) /\ Last(path) \in Names /\ path = Append(f, Last(path))
  BY PathsAreSeqs, PathFacts
<1>4. up = E[f].first /\ chain = S[f] /\ up = S[f][1] /\ Shaped(S[f]) /\ up \in Areas
  <2>1. Lookup(fat, disk, f) = E[f]
    BY <1>2, <1>3, LookupIs
  <2>2. Chain(fat, E[f].first) = S[f] /\ Shaped(S[f]) /\ E[f].first = S[f][1]
    BY <1>2, ShapeOf, TreeFacts
  <2>3. S[f][1] \in Areas
    BY <2>2, ShapedFacts
  <2> QED
    BY <2>1, <2>2, <2>3
<1>5. used = Len(L[f]) + Header(S[f][1])
  <2>1. Len(Items(fat, disk, E[f].first)) = Len(L[f])
    BY <1>2, ItemsOfFolder
  <2> QED
    BY <1>4, <2>1
<1>6. c \in FreeIn(fat)
  BY NextFreeFacts
<1>7. /\ taken \in TableType /\ taken[c] = EOC /\ \A x \in Clusters : x # c => taken[x] = fat[x]
      /\ FreeIn(taken) = FreeIn(fat) \ {c} /\ Unused(S, c) /\ c \in Clusters
      /\ \A j \in 1 .. Size : disk[c][j] = Blank
      /\ Settles(taken, disk, E, S, L)
  <2> DEFINE u == taken
  <2>1. u \in TableType /\ u[c] = EOC /\ \A x \in Clusters : x # c => u[x] = fat[x]
    BY <1>6 DEF TableType, FreeIn
  <2> HIDE DEF u, c
  <2>2. /\ u \in TableType /\ u[c] = EOC /\ \A x \in Clusters : x # c => u[x] = fat[x]
        /\ FreeIn(u) = FreeIn(fat) \ {c} /\ Unused(S, c) /\ c \in Clusters
        /\ \A j \in 1 .. Size : disk[c][j] = Blank
        /\ Settles(u, disk, E, S, L)
    BY ONLY <1>6, <2>1, Taken, fat \in TableType, disk \in DiskType, Settles(fat, disk, E, S, L)
  <2> QED
    BY <2>2 DEF u
<1> DEFINE first == <<SaveTables(taken)>>
<1>8. Goes(op, fat, disk, first, taken, disk)
  <2>1. Midway(op, fat, disk) /\ Midway(op, taken, disk)
    BY <1>7, SettlesMidway
  <2> HIDE DEF taken
  <2> QED
    BY <1>7, <2>1, GoesTable
<1>9. DOMAIN S = DOMAIN E
  BY <1>2, TreeFacts
<1>10. ASSUME NEW F, F = With(E, path, v)
       PROVE  /\ \A q \in DOMAIN E : q \in DOMAIN F /\ F[q] = E[q]
              /\ path \in DOMAIN F /\ F[path] = v /\ DOMAIN F = DOMAIN E \cup {path}
  BY <1>10 DEF With
<1> HIDE DEF up, chain, used, c, taken, longer, c2, v, room, more, back
<1>11. CASE room
  <2> DEFINE w == <<WriteUnit(S[f], used, v)>> \o basics
  <2>1. new.first = c /\ new.ok /\ new.table = taken /\ new.writes = first \o w
    BY <1>1, <1>4, <1>11 DEF InOrder
  <2>2. used < Len(Units(disk, S[f]))
    BY <1>4, <1>11 DEF room
  <2>3. v = Entry(Last(path), dir, c, 0)
    BY DEF v
  <2>4. \E F, T, M, e : /\ Goes(op, taken, disk, w, taken, e) /\ Settles(taken, e, F, T, M)
                        /\ F = With(E, path, v) /\ T = With(S, path, <<c>>)
                        /\ Untouched(disk, E, S, e, F, T, DOMAIN E)
    <3>1. w = EntryWrites(S[f], used, v, dir, c, up)
      BY DEF EntryWrites
    <3> HIDE DEF w
    <3> QED
      BY <1>4, <1>5, <1>7, <2>2, <2>3, <3>1, NewEntry
  <2>5. PICK F, T, M, e : /\ Goes(op, taken, disk, w, taken, e) /\ Settles(taken, e, F, T, M)
                          /\ F = With(E, path, v) /\ T = With(S, path, <<c>>)
                          /\ Untouched(disk, E, S, e, F, T, DOMAIN E)
    BY <2>4
  <2> HIDE DEF w, first
  <2>6. Goes(op, fat, disk, new.writes, new.table, e)
    <3>1. Goes(op, fat, disk, first \o w, taken, e)
      BY ONLY <1>8, <2>5, GoesOn
    <3> QED
      BY <2>1, <3>1
  <2>7. AllOwned(fat, S) => AllOwned(taken, T)
    <3> SUFFICES ASSUME AllOwned(fat, S), NEW x \in Clusters, taken[x] # Free
                 PROVE  \E p \in DOMAIN T \ {<<>>} : x \in ToSet(T[p])
      BY DEF AllOwned
    <3>1. /\ DOMAIN T = DOMAIN S \cup {path} /\ T[path] = <<c>>
          /\ \A p \in DOMAIN S : T[p] = S[p]
      BY <1>9, <2>5 DEF With
    <3>2. CASE x = c
      <4>1. c \in ToSet(<<c>>)
        BY DEF ToSet
      <4> QED
        BY <1>3, <3>1, <3>2, <4>1
    <3>3. CASE x # c
      <4>1. fat[x] # Free
        BY <1>7, <3>3
      <4> QED
        BY <3>1, <4>1 DEF AllOwned
    <3> QED
      BY <3>2, <3>3
  <2>8. new.writes # <<>>
    <3>1. Len(first) = 1 /\ Len(w) \in Nat
      BY <2>5, GoesTypes, <1>7 DEF first, Goes
    <3>2. w \in Seq(WriteType) /\ first \in Seq(WriteType)
      BY <1>8, <2>5 DEF Goes
    <3>3. Len(first \o w) = Len(first) + Len(w)
      BY <3>2, ConcatProperties
    <3>4. Len(<<>>) = 0
      OBVIOUS
    <3> QED
      BY <2>1, <3>1, <3>3, <3>4
  <2>9. /\ \A q \in DOMAIN E : q \in DOMAIN F /\ F[q] = E[q]
        /\ path \in DOMAIN F /\ F[path] = v /\ DOMAIN F = DOMAIN E \cup {path}
    BY <1>10, <2>5
  <2> QED
    BY <1>7, <2>1, <2>3, <2>5, <2>6, <2>7, <2>8, <2>9 DEF Makes
<1>12. CASE ~room /\ more
  <2> DEFINE T1 == With(S, f, Append(S[f], c2))
             w  == <<WriteUnit(T1[f], used, v)>> \o basics
             second == <<SaveTables(longer)>>
  <2>1. f # <<>>
    <3>1. S[<<>>] = <<Root>>
      BY <1>2, TreeFacts
    <3>2. <<Root>>[1] = Root
      OBVIOUS
    <3>3. up # Root
      BY <1>12 DEF more
    <3> QED
      BY <1>4, <3>1, <3>2, <3>3
  <2>2. /\ longer \in TableType /\ c2 \in Clusters /\ c2 \in FreeIn(taken) /\ Unused(S, c2)
        /\ longer[c2] = EOC /\ longer[Last(S[f])] = c2 /\ Last(S[f]) \in Clusters
        /\ \A x \in Clusters : x # c2 /\ x # Last(S[f]) => longer[x] = taken[x]
        /\ FreeIn(longer) = FreeIn(taken) \ {c2}
        /\ Settles(longer, disk, E, T1, L)
    <3>1. c2 = NextFree(taken) /\ longer = AllocateNewCluster(taken, E[f].first) /\ FreeIn(taken) # {}
      BY <1>4, <1>12 DEF c2, longer, more
    <3> QED
      BY ONLY <1>7, <2>1, <3>1, Allocated1, disk \in DiskType, f \in DOMAIN E DEF T1
  <2>3. T1[f] = Append(S[f], c2) /\ DOMAIN T1 = DOMAIN S /\ \A x \in DOMAIN S : x # f => T1[x] = S[x]
    BY <1>9 DEF With
  <2>4. Last(S[f]) # c /\ c2 # c
    <3>1. Len(S[f]) \in 1 .. Len(S[f]) /\ DOMAIN S[f] = 1 .. Len(S[f])
      BY <1>4, ShapedFacts
    <3>2. Last(S[f]) \in ToSet(S[f])
      BY <3>1 DEF Last, ToSet
    <3>3. Last(S[f]) # c
      BY <1>7, <1>9, <3>2 DEF Unused
    <3> QED
      BY <1>7, <2>2, <3>3
  <2>5. longer[c] = EOC
    BY <1>7, <2>2, <2>4
  <2>6. /\ Shaped(S[f]) /\ S[f] # <<Root>> /\ c2 \notin ToSet(S[f]) /\ S[f] \in Seq(Clusters)
        /\ Append(S[f], c2)[1] = S[f][1]
        /\ Len(Units(disk, S[f])) = Size * Len(S[f])
        /\ Len(Units(disk, Append(S[f], c2))) = Size * Len(S[f]) + Size
        /\ Size * Len(S[f]) \in Nat /\ Append(S[f], c2) \in Seq(Clusters)
    <3>1. Shaped(S[f]) /\ S[f] # <<Root>> /\ c2 \notin ToSet(S[f]) /\ S[f] \in Seq(Clusters)
      BY <1>2, <1>9, <2>1, <2>2, ShapeOf DEF Unused
    <3>2. Append(S[f], c2)[1] = S[f][1] /\ Len(Units(disk, Append(S[f], c2))) = Size * Len(S[f]) + Size
      BY <2>2, <3>1, UnitsLonger
    <3>3. Len(Units(disk, S[f])) = Size * Len(S[f]) /\ Size * Len(S[f]) \in Nat
      BY <3>1, ClusterUnits
    <3> QED
      BY <2>2, <3>1, <3>2, <3>3
  <2>7. used = Len(L[f]) + Header(T1[f][1]) /\ used < Len(Units(disk, T1[f]))
    <3>1. FolderHolds(disk, E, S, L, f)
      BY <1>2 DEF Holds
    <3>2. Header(S[f][1]) + Len(L[f]) <= Len(Units(disk, S[f]))
      BY <3>1 DEF FolderHolds
    <3>3. Header(S[f][1]) \in {1, 2} /\ Len(L[f]) \in Nat /\ Size \in Nat /\ Size > 2
      BY <1>2, <2>6, ShapedFacts, TreeFacts, ConstantFacts
    <3> DEFINE m == Size * Len(S[f])
    <3>4. m \in Nat /\ Len(Units(disk, T1[f])) = m + Size /\ Header(S[f][1]) + Len(L[f]) <= m
      BY <2>3, <2>6, <3>2
    <3> HIDE DEF m
    <3>5. used < m + Size
      BY <1>5, <3>3, <3>4
    <3>6. T1[f][1] = S[f][1]
      BY <2>3, <2>6
    <3> QED
      BY <1>5, <3>4, <3>5, <3>6
  <2>8. Unused(T1, c)
    <3> SUFFICES ASSUME NEW p \in DOMAIN T1 PROVE c \notin ToSet(T1[p])
      BY DEF Unused
    <3>1. c \notin ToSet(S[p])
      BY <1>7, <2>3 DEF Unused
    <3>2. CASE p # f
      BY <2>3, <3>1, <3>2
    <3>3. CASE p = f
      <4>1. S[f] \in Seq(Clusters)
        BY <2>6
      <4>2. \A y : y \in ToSet(Append(S[f], c2)) <=> y \in ToSet(S[f]) \/ y = c2
        <5>1. DOMAIN S[f] = 1 .. Len(S[f]) /\ DOMAIN Append(S[f], c2) = 1 .. Len(S[f]) + 1 /\ Len(S[f]) \in Nat
              /\ Append(S[f], c2)[Len(S[f]) + 1] = c2 /\ \A i \in 1 .. Len(S[f]) : Append(S[f], c2)[i] = S[f][i]
          BY <2>2, <2>6, ShapedLonger
        <5> QED
          BY <5>1 DEF ToSet
      <4> QED
        BY <2>3, <2>4, <3>1, <3>3, <4>2
    <3> QED
      BY <3>2, <3>3
  <2>9. new.first = c /\ new.ok /\ new.table = longer /\ new.writes = (first \o second) \o w
    <3>1. chain \o <<c2>> = T1[f]
      <4>1. S[f] \o <<c2>> = Append(S[f], c2)
        BY <2>2, <2>6, AppendIsConcat
      <4> QED
        BY <1>4, <2>3, <4>1
    <3>2. <<SaveTables(taken), SaveTables(longer)>> = first \o second
      OBVIOUS
    <3> HIDE DEF T1, first, second, basics
    <3>3. new.writes = InOrder(<<SaveTables(taken), SaveTables(longer)>>, entry(chain \o <<c2>>), basics)
          /\ new.first = c /\ new.ok /\ new.table = longer
      BY <1>1, <1>12
    <3>4. new.writes = first \o second \o <<entry(T1[f])>> \o basics
      BY <3>1, <3>2, <3>3 DEF InOrder
    <3>5. first \o second \o <<entry(T1[f])>> \o basics = (first \o second) \o (<<entry(T1[f])>> \o basics)
      <4> DEFINE g == WriteUnits(c, FolderBasics(c, up))
                 y == <<entry(T1[f])>>
                 X == {entry(T1[f]), g, SaveTables(taken), SaveTables(longer)}
      <4>1. first \in Seq(X) /\ second \in Seq(X) /\ y \in Seq(X)
        BY DEF first, second
      <4>2. basics \in Seq(X)
        <5>1. basics = <<g>> \/ basics = <<>>
          BY DEF basics
        <5>2. <<g>> \in Seq(X) /\ <<>> \in Seq(X)
          OBVIOUS
        <5> QED
          BY <5>1, <5>2
      <4> DEFINE z == first \o second
      <4>6. z = first \o second /\ y = <<entry(T1[f])>>
        OBVIOUS
      <4> HIDE DEF X, y, z
      <4>3. first \o second \in Seq(X)
        BY <4>1, ConcatProperties
      <4>4. z \in Seq(X)
        BY <4>3, <4>6
      <4>7. y \in Seq(X)
        BY <4>1
      <4>5. (z \o y) \o basics = z \o (y \o basics)
        BY ONLY <4>2, <4>4, <4>7, ConcatAssociative
      <4> QED
        BY ONLY <4>5, <4>6
    <3> QED
      BY <3>3, <3>4, <3>5
  <2>10. v = Entry(Last(path), dir, c, 0)
    BY DEF v
  <2>11. \E F, T, M, e : /\ Goes(op, longer, disk, w, longer, e) /\ Settles(longer, e, F, T, M)
                         /\ F = With(E, path, v) /\ T = With(T1, path, <<c>>)
                         /\ Untouched(disk, E, T1, e, F, T, DOMAIN E)
    <3>1. w = EntryWrites(T1[f], used, v, dir, c, up)
      BY DEF EntryWrites
    <3> HIDE DEF w, T1
    <3> QED
      BY <1>4, <1>7, <2>2, <2>5, <2>7, <2>8, <2>10, <3>1, NewEntry
  <2>12. PICK F, T, M, e : /\ Goes(op, longer, disk, w, longer, e) /\ Settles(longer, e, F, T, M)
                           /\ F = With(E, path, v) /\ T = With(T1, path, <<c>>)
                           /\ Untouched(disk, E, T1, e, F, T, DOMAIN E)
    BY <2>11
  <2>13. Goes(op, taken, disk, second, longer, disk)
    <3>1. Midway(op, longer, disk) /\ Midway(op, taken, disk)
      BY <1>7, <2>2, SettlesMidway
    <3> QED
      BY <1>7, <2>2, <3>1, GoesTable
  <2> HIDE DEF w, first, second, T1
  <2>14. Goes(op, fat, disk, new.writes, new.table, e)
    <3>1. Goes(op, fat, disk, first \o second, longer, disk)
      BY ONLY <1>8, <2>13, GoesOn
    <3> DEFINE two == first \o second
    <3>2. Goes(op, fat, disk, two, longer, disk)
      BY <3>1
    <3> HIDE DEF two
    <3>3. Goes(op, fat, disk, two \o w, longer, e)
      BY ONLY <3>2, <2>12, GoesOn
    <3> QED
      BY <2>9, <3>3 DEF two
  <2>15. AllOwned(fat, S) => AllOwned(longer, T)
    <3> SUFFICES ASSUME AllOwned(fat, S), NEW x \in Clusters, longer[x] # Free
                 PROVE  \E p \in DOMAIN T \ {<<>>} : x \in ToSet(T[p])
      BY DEF AllOwned
    <3>1. /\ DOMAIN T = DOMAIN S \cup {path} /\ T[path] = <<c>>
          /\ \A p \in DOMAIN S : T[p] = T1[p]
      BY <1>9, <2>3, <2>12 DEF With
    <3>4. \A y : y \in ToSet(T1[f]) <=> y \in ToSet(S[f]) \/ y = c2
        <5>1. DOMAIN S[f] = 1 .. Len(S[f]) /\ DOMAIN Append(S[f], c2) = 1 .. Len(S[f]) + 1 /\ Len(S[f]) \in Nat
              /\ Append(S[f], c2)[Len(S[f]) + 1] = c2 /\ \A i \in 1 .. Len(S[f]) : Append(S[f], c2)[i] = S[f][i]
          BY <2>2, <2>6, ShapedLonger
        <5> QED
          BY <2>3, <5>1 DEF ToSet
    <3>2. CASE x = c
      <4>1. c \in ToSet(<<c>>)
        BY DEF ToSet
      <4> QED
        BY <1>3, <3>1, <3>2, <4>1
    <3>3. CASE x = c2
      BY <1>9, <2>1, <3>1, <3>3, <3>4
    <3>5. CASE x # c /\ x # c2
      <4>1. fat[x] # Free
        <5>1. CASE x = Last(S[f])
          <6>1. IsChain(fat, S[f])
            BY <1>2, <2>1, ShapeOf
          <6>2. Last(S[f]) \in ToSet(S[f])
            <7>1. Len(S[f]) \in 1 .. Len(S[f]) /\ DOMAIN S[f] = 1 .. Len(S[f])
              BY <1>4, ShapedFacts
            <7> QED
              BY <7>1 DEF Last, ToSet
          <6> QED
            BY <5>1, <6>1, <6>2, ChainNotFree
        <5>2. CASE x # Last(S[f])
          BY <1>7, <2>2, <3>5, <5>2
        <5> QED
          BY <5>1, <5>2
      <4>2. PICK p \in DOMAIN S \ {<<>>} : x \in ToSet(S[p])
        BY <4>1 DEF AllOwned
      <4>3. x \in ToSet(T1[p])
        BY <2>3, <3>4, <4>2
      <4> QED
        BY <3>1, <4>2, <4>3
    <3> QED
      BY <3>2, <3>3, <3>5
  <2>16. new.writes # <<>>
    <3>2. w \in Seq(WriteType) /\ first \in Seq(WriteType) /\ second \in Seq(WriteType)
      BY <1>8, <2>12, <2>13 DEF Goes
    <3>1. Len(first) = 1 /\ Len(w) \in Nat /\ Len(second) = 1
      BY <3>2 DEF first, second
    <3>3. Len((first \o second) \o w) = Len(first) + Len(second) + Len(w)
      BY <3>2, ConcatProperties
    <3>4. Len(<<>>) = 0
      OBVIOUS
    <3> QED
      BY <2>9, <3>1, <3>3, <3>4
  <2>17. /\ \A q \in DOMAIN E : q \in DOMAIN F /\ F[q] = E[q]
         /\ path \in DOMAIN F /\ F[path] = v /\ DOMAIN F = DOMAIN E \cup {path}
    BY <1>10, <2>12
  <2>18. Untouched(disk, E, S, e, F, T, DOMAIN E)
    <3>1. \A x \in DOMAIN E : ~E[x].dir => T1[x] = S[x]
      BY <1>9, <2>3
    <3> QED
      BY <2>12, <3>1 DEF Untouched
  <2> QED
    BY <1>7, <2>2, <2>9, <2>10, <2>12, <2>14, <2>15, <2>16, <2>17, <2>18 DEF Makes
<1>13. CASE ~room /\ ~more
  <2> DEFINE second == <<SaveTables(back)>>
  <2>1. new.first = c /\ ~new.ok /\ new.table = back /\ new.writes = first \o second
    BY <1>1, <1>13
  <2>2. back = fat
    <3>1. DOMAIN fat = Clusters /\ fat[c] = Free /\ fat = [x \in Clusters |-> fat[x]]
      BY <1>6, <1>7 DEF TableType, FreeIn
    <3>2. back = [[fat EXCEPT ![c] = EOC] EXCEPT ![c] = Free]
      BY DEF back, GiveBack, taken
    <3> QED
      BY <3>1, <3>2
  <2>3. Goes(op, taken, disk, second, back, disk)
    <3>1. Midway(op, fat, disk) /\ Midway(op, taken, disk)
      BY <1>7, SettlesMidway
    <3> QED
      BY <1>7, <2>2, <3>1, GoesTable
  <2> HIDE DEF first, second
  <2>4. Goes(op, fat, disk, new.writes, new.table, disk)
    <3>1. Goes(op, fat, disk, first \o second, back, disk)
      BY ONLY <1>8, <2>3, GoesOn
    <3> QED
      BY <2>1, <3>1
  <2>5. new.writes # <<>>
    <3>1. Len(first) = 1 /\ Len(second) = 1
      BY DEF first, second
    <3>3. first \in Seq(WriteType) /\ second \in Seq(WriteType)
      BY <1>8, <2>3 DEF Goes
    <3>4. Len(first \o second) = Len(first) + Len(second)
      BY <3>3, ConcatProperties
    <3>2. Len(first \o second) = 2 /\ Len(<<>>) = 0
      BY <3>1, <3>4
    <3> QED
      BY <2>1, <3>2
  <2>6. Untouched(disk, E, S, disk, E, S, DOMAIN E)
    BY DEF Untouched
  <2> QED
    BY <1>7, <2>1, <2>2, <2>4, <2>5, <2>6 DEF Makes
<1> QED
  BY <1>11, <1>12, <1>13

(***************************************************************************)
(* The writes of rmdir.                                                    *)
(***************************************************************************)

(* Writes to areas that are in use, or that blank free clusters, one write *)
(* to each.                                                                *)
LEMMA FillGoes ==
  ASSUME NEW t \in TableType, NEW d \in DiskType, FreeBlank(t, d),
         NEW s, s \in Seq(Areas), Distinct(s), NEW w, w \in Seq(WriteType), Len(w) = Len(s),
         \A i \in 1 .. Len(s) : w[i].at = s[i] /\ (s[i] \in FreeIn(t) => w[i].what = BlankCluster)
  PROVE  \E e : /\ Goes("rmdir", t, d, w, t, e) /\ e \in DiskType
                /\ \A i \in 1 .. Len(s) : e[s[i]] = w[i].what
                /\ \A a \in Areas : a \notin ToSet(s) => e[a] = d[a]
<1> DEFINE n == Len(s)
           e == DiskAfter(d, w, n)
<1>1. n \in Nat /\ DOMAIN s = 1 .. n /\ Len(w) = n /\ n \in 0 .. n /\ ToSet(s) = {s[i] : i \in 1 .. n}
  BY DEF ToSet
<1>2. \A i \in 1 .. n : s[i] \in Areas /\ w[i].at # Table
  <2> TAKE i \in 1 .. n
  <2>1. s[i] \in Areas
    BY <1>1
  <2> QED
    BY <2>1, ConstantFacts
<1> HIDE DEF n
<1>3. ASSUME NEW k \in 0 .. n PROVE Midway("rmdir", t, DiskAfter(d, w, k))
  <2>1. ASSUME NEW c \in FreeIn(t) PROVE DiskAfter(d, w, k)[c] = BlankCluster
    <3>1. DiskAfter(d, w, k)[c] = Latest(w, k, c, d[c]) /\ d[c] = BlankCluster
      BY DEF DiskAfter, FreeBlank, FreeIn, Areas
    <3>2. k \in Nat /\ 1 .. k \subseteq 1 .. n
      BY <1>1
    <3>3. CASE \E j \in 1 .. k : w[j].at = c /\ Latest(w, k, c, d[c]) = w[j].what
      <4>1. PICK j \in 1 .. k : w[j].at = c /\ Latest(w, k, c, d[c]) = w[j].what
        BY <3>3
      <4>2. s[j] = c
        BY <3>2, <4>1 DEF n
      <4>3. w[j].what = BlankCluster
        BY <3>2, <4>1, <4>2 DEF n
      <4> QED
        BY <3>1, <4>1, <4>3
    <3>4. CASE Latest(w, k, c, d[c]) = d[c]
      BY <3>1, <3>4
    <3> QED
      BY <3>2, <3>3, <3>4, LatestOf
  <2> QED
    BY <2>1 DEF Midway, FreeBlank
<1>4. Goes("rmdir", t, d, w, t, e)
  <2>1. \A i \in 1 .. Len(w) : w[i].at # Table
    BY <1>1, <1>2
  <2>2. \A k \in 0 .. Len(w) : Midway("rmdir", t, DiskAfter(d, w, k))
    BY <1>1, <1>3
  <2>3. e = DiskAfter(d, w, Len(w))
    BY <1>1
  <2> HIDE DEF e
  <2> QED
    BY <2>1, <2>2, <2>3, GoesMany
<1>5. ASSUME NEW i \in 1 .. n PROVE e[s[i]] = w[i].what
  <2>1. e[s[i]] = Latest(w, n, s[i], d[s[i]])
    BY <1>2 DEF DiskAfter
  <2>2. ASSUME NEW j \in i + 1 .. n PROVE w[j].at # s[i]
    <3>1. j \in 1 .. n /\ i # j
      BY <1>1
    <3>2. s[j] # s[i]
      BY <1>1, <3>1 DEF Distinct
    <3> QED
      BY <3>1, <3>2 DEF n
  <2>3. w[i].at = s[i]
    BY DEF n
  <2> DEFINE a == s[i]
             b == d[s[i]]
  <2>4. w[i].at = a /\ \A j \in i + 1 .. n : w[j].at # a
    BY <2>2, <2>3
  <2>5. Latest(w, n, a, b) = w[i].what
    <3>1. n \in Nat /\ i \in 1 .. n /\ w[i].at = a /\ \A j \in i + 1 .. n : w[j].at # a
      BY <1>1, <2>4
    <3> HIDE DEF a, b
    <3> QED
      BY ONLY <3>1, LatestIs
  <2> QED
    BY <2>1, <2>5
<1>6. ASSUME NEW a \in Areas, a \notin ToSet(s) PROVE e[a] = d[a]
  <2>1. e[a] = Latest(w, n, a, d[a])
    BY DEF DiskAfter
  <2>2. \A i \in 1 .. n : w[i].at # a
    BY <1>1, <1>6 DEF n
  <2> DEFINE b == d[a]
  <2>3. Latest(w, n, a, b) = b
    <3> HIDE DEF b
    <3> QED
      BY <1>1, <2>2, LatestNone
  <2> QED
    BY <2>1, <2>3
<1>7. e \in DiskType
  BY <1>4, GoesTypes
<1> QED
  BY <1>4, <1>5, <1>6, <1>7 DEF n

(* The parts of a removal: where the entry of path is in its folder f, the *)
(* table t without its clusters, the units of f without it, and the writes *)
(* that clear the clusters, blank the folder and fill it again.            *)
Removal(E, S, L, path, f, k, t, rest, width, w1, w2, w3) ==
  /\ path \in DOMAIN E /\ path # <<>> /\ L[path] = <<>>
  /\ f = Front(path) /\ k \in 1 .. Len(L[f]) /\ L[f][k] = Last(path)
  /\ \A c \in Clusters : t[c] = IF c \in ToSet(S[path]) THEN Free ELSE fat[c]
  /\ rest = Without(Units(disk, S[f]), k + Header(S[f][1]))
  /\ width = Width(S[f][1]) /\ w1 = Cleared(S[path])
  /\ w2 \in Seq(WriteType) /\ Len(w2) = Len(S[f]) /\ \A i \in 1 .. Len(S[f]) : w2[i].at = S[f][i]
  /\ w3 \in Seq(WriteType) /\ Len(w3) = Len(S[f])
  /\ \A i \in 1 .. Len(S[f]) : w3[i].at = S[f][i] /\ w3[i].what = SubSeq(rest, (i - 1) * width + 1, i * width)

(* The writes w lead to a tree without path and to the table t.            *)
Removed(E, S, path, t, w) ==
  \E F, T, M, e :
    /\ Goes("rmdir", fat, disk, w, t, e) /\ Settles(t, e, F, T, M)
    /\ \A q \in DOMAIN E : q # path => q \in DOMAIN F /\ F[q] = E[q]
    /\ AllOwned(fat, S) => AllOwned(t, T)
    /\ DOMAIN F = DOMAIN E \ {path} /\ Untouched(disk, E, S, e, F, T, DOMAIN F)

(* rmdir blanks the clusters of what it removes, saves the table without   *)
(* them and writes the folder above without the entry.                     *)
LEMMA RmdirGoes ==
  ASSUME fat \in TableType, disk \in DiskType, NEW E, NEW S, NEW L, Settles(fat, disk, E, S, L),
         NEW path, NEW f, NEW k, NEW t \in TableType, NEW rest, NEW width, NEW w1, NEW w2, NEW w3,
         Removal(E, S, L, path, f, k, t, rest, width, w1, w2, w3),
         NEW w, w = ((w1 \o <<SaveTables(t)>>) \o w2) \o w3
  PROVE  w # <<>> /\ Removed(E, S, path, t, w)
<1>a. /\ path \in DOMAIN E /\ path # <<>> /\ L[path] = <<>>
      /\ f = Front(path) /\ k \in 1 .. Len(L[f]) /\ L[f][k] = Last(path)
      /\ \A c \in Clusters : t[c] = IF c \in ToSet(S[path]) THEN Free ELSE fat[c]
      /\ rest = Without(Units(disk, S[f]), k + Header(S[f][1]))
      /\ width = Width(S[f][1]) /\ w1 = Cleared(S[path])
      /\ w2 \in Seq(WriteType) /\ Len(w2) = Len(S[f]) /\ \A i \in 1 .. Len(S[f]) : w2[i].at = S[f][i]
      /\ w3 \in Seq(WriteType) /\ Len(w3) = Len(S[f])
      /\ \A i \in 1 .. Len(S[f]) : w3[i].at = S[f][i] /\ w3[i].what = SubSeq(rest, (i - 1) * width + 1, i * width)
  BY DEF Removal
<1> USE <1>a
<1>1. /\ Represents(fat, disk, E, S, L) /\ IsTree(E, S, L) /\ ChainsApart(fat, E, S)
      /\ Holds(disk, E, S, L) /\ FreeBlank(fat, disk) /\ AllHeaded(disk, E, S)
      /\ (SmallWrites => SizesFit(E, S)) /\ DOMAIN S = DOMAIN E
  BY TreeFacts DEF Settles, Sound, Represents
<1>2. f \in DOMAIN E /\ E[f].dir /\ f # path
  BY <1>1, ListedAt
<1>3. /\ IsChain(fat, S[path]) /\ S[path] \in Seq(Clusters) /\ ToSet(S[path]) \subseteq Clusters
      /\ Shaped(S[path]) /\ Len(S[path]) \in Nat /\ Len(S[path]) > 0 /\ DOMAIN S[path] = 1 .. Len(S[path])
      /\ Distinct(S[path]) /\ ToSet(S[path]) = {S[path][i] : i \in 1 .. Len(S[path])}
  <2>1. /\ IsChain(fat, S[path]) /\ S[path] \in Seq(Clusters) /\ ToSet(S[path]) \subseteq Clusters
        /\ Shaped(S[path]) /\ Len(S[path]) \in Nat /\ Len(S[path]) > 0 /\ DOMAIN S[path] = 1 .. Len(S[path])
    BY <1>1, ShapeOf
  <2>3. ToSet(S[path]) = {S[path][i] : i \in 1 .. Len(S[path])}
    BY <2>1 DEF ToSet
  <2>2. Distinct(S[path])
    BY <2>1 DEF IsChain
  <2> QED
    BY <2>1, <2>2, <2>3
<1>4. /\ Shaped(S[f]) /\ S[f] \in Seq(Areas) /\ Distinct(S[f]) /\ Len(S[f]) \in Nat
      /\ DOMAIN S[f] = 1 .. Len(S[f]) /\ width \in Nat /\ Headed(disk, S[f])
  BY <1>1, <1>2, ShapeOf, ShapedFacts DEF AllHeaded
<1>5. \A c \in Clusters : t[c] = Free <=> c \in ToSet(S[path]) \/ fat[c] = Free
  OBVIOUS
<1>6. \E e : /\ Goes("rmdir", fat, disk, w1, fat, e) /\ e \in DiskType
             /\ \A i \in 1 .. Len(S[path]) : e[S[path][i]] = w1[i].what
             /\ \A a \in Areas : a \notin ToSet(S[path]) => e[a] = disk[a]
  <2> DEFINE s == S[path]
  <2>1. s \in Seq(Areas) /\ Distinct(s)
    BY <1>1, <1>3, ShapeOf
  <2>2. /\ w1 \in Seq(WriteType) /\ Len(w1) = Len(s)
        /\ \A i \in 1 .. Len(s) : w1[i].at = s[i] /\ w1[i].what = BlankCluster
    <3>1. BlankCluster \in Seq(Unit) /\ Len(BlankCluster) = Size
      BY ConstantFacts DEF BlankCluster, Unit
    <3>2. \A c \in Clusters : c \in Areas /\ Width(c) = Size
      BY ConstantFacts DEF Areas, Width
    <3>3. \A c \in Clusters : /\ WriteUnits(c, BlankCluster) \in WriteType
                              /\ WriteUnits(c, BlankCluster).at = c
                              /\ WriteUnits(c, BlankCluster).what = BlankCluster
      BY <3>1, <3>2, WriteIs
    <3>4. \A i \in 1 .. Len(s) : s[i] \in Clusters
      BY <1>3
    <3>5. w1 = [i \in 1 .. Len(s) |-> WriteUnits(s[i], BlankCluster)]
      BY DEF Cleared
    <3> QED
      BY ONLY <1>3, <3>3, <3>4, <3>5
  <2>4. /\ FreeBlank(fat, disk) /\ w1 \in Seq(WriteType) /\ Len(w1) = Len(s)
        /\ \A i \in 1 .. Len(s) : w1[i].at = s[i] /\ (s[i] \in FreeIn(fat) => w1[i].what = BlankCluster)
    BY <1>1, <2>2
  <2> HIDE DEF s
  <2>3. \E e : /\ Goes("rmdir", fat, disk, w1, fat, e) /\ e \in DiskType
               /\ \A i \in 1 .. Len(s) : e[s[i]] = w1[i].what
               /\ \A a \in Areas : a \notin ToSet(s) => e[a] = disk[a]
    BY ONLY <2>1, <2>4, FillGoes, fat \in TableType, disk \in DiskType
  <2> QED
    BY <2>3 DEF s
<1>7. PICK d1 : /\ Goes("rmdir", fat, disk, w1, fat, d1) /\ d1 \in DiskType
                /\ \A i \in 1 .. Len(S[path]) : d1[S[path][i]] = w1[i].what
                /\ \A a \in Areas : a \notin ToSet(S[path]) => d1[a] = disk[a]
  BY <1>6
<1>8. FreeBlank(fat, d1) /\ FreeBlank(t, d1)
  <2>1. \A i \in 1 .. Len(S[path]) : d1[S[path][i]] = BlankCluster
    <3>1. \A i \in 1 .. Len(S[path]) : w1[i].what = BlankCluster
      BY DEF Cleared, WriteUnits
    <3> TAKE i \in 1 .. Len(S[path])
    <3>2. d1[S[path][i]] = w1[i].what
      BY <1>7
    <3>3. w1[i].what = BlankCluster
      BY <3>1
    <3> QED
      BY <3>2, <3>3
  <2>2. \A c \in ToSet(S[path]) : d1[c] = BlankCluster
    <3> TAKE c \in ToSet(S[path])
    <3>1. PICK i \in 1 .. Len(S[path]) : c = S[path][i]
      BY <1>3
    <3> QED
      BY <2>1, <3>1
  <2>3. \A c \in Clusters : c \in Areas
    BY DEF Areas
  <2> QED
    BY <1>1, <1>3, <1>5, <1>7, <2>2, <2>3 DEF FreeBlank, FreeIn
<1>9. Goes("rmdir", fat, d1, <<SaveTables(t)>>, t, d1)
  <2>1. Midway("rmdir", fat, d1) /\ Midway("rmdir", t, d1)
    BY <1>8 DEF Midway
  <2> QED
    BY <1>7, <2>1, GoesTable
<1>10. \A a \in ToSet(S[f]) : a \notin FreeIn(t) /\ a \notin ToSet(S[path])
  <2> TAKE a \in ToSet(S[f])
  <2>1. a \notin ToSet(S[path])
    BY <1>1, <1>2, Apart
  <2>2. a \notin FreeIn(fat)
    BY <1>1, <1>2, FreeFacts DEF Unused
  <2> QED
    BY <1>5, <2>1, <2>2 DEF FreeIn
<1>11. \A i \in 1 .. Len(S[f]) : S[f][i] \notin FreeIn(t)
  BY <1>4, <1>10 DEF ToSet
<1> DEFINE s == S[f]
<1>12. /\ s \in Seq(Areas) /\ Distinct(s) /\ Len(w2) = Len(s) /\ Len(w3) = Len(s)
       /\ \A i \in 1 .. Len(s) : w2[i].at = s[i] /\ (s[i] \in FreeIn(t) => w2[i].what = BlankCluster)
  BY <1>4, <1>11
<1>30. \A i \in 1 .. Len(s) : w3[i].at = s[i] /\ (s[i] \in FreeIn(t) => w3[i].what = BlankCluster)
  BY <1>4, <1>11
<1>31. s \in Seq(Areas) /\ Distinct(s) /\ Len(w3) = Len(s)
  BY <1>12
<1> HIDE DEF s
<1>13. \E e : /\ Goes("rmdir", t, d1, w2, t, e) /\ e \in DiskType
              /\ \A i \in 1 .. Len(s) : e[s[i]] = w2[i].what
              /\ \A a \in Areas : a \notin ToSet(s) => e[a] = d1[a]
  BY ONLY <1>7, <1>8, <1>12, FillGoes, t \in TableType, w2 \in Seq(WriteType)
<1>14. PICK d2 : /\ Goes("rmdir", t, d1, w2, t, d2) /\ d2 \in DiskType
                 /\ \A a \in Areas : a \notin ToSet(s) => d2[a] = d1[a]
  BY <1>13
<1>15. FreeBlank(t, d2)
  BY <1>14, <1>7, GoesTypes DEF Midway
<1>16. \E e : /\ Goes("rmdir", t, d2, w3, t, e) /\ e \in DiskType
              /\ \A i \in 1 .. Len(s) : e[s[i]] = w3[i].what
              /\ \A a \in Areas : a \notin ToSet(s) => e[a] = d2[a]
  BY ONLY <1>14, <1>15, <1>30, <1>31, FillGoes, t \in TableType, w3 \in Seq(WriteType)
<1>17. PICK e : /\ Goes("rmdir", t, d2, w3, t, e) /\ e \in DiskType
                /\ \A i \in 1 .. Len(s) : e[s[i]] = w3[i].what
                /\ \A a \in Areas : a \notin ToSet(s) => e[a] = d2[a]
  BY <1>16
<1>18. Goes("rmdir", fat, disk, w, t, e)
  <2> DEFINE x1 == w1 \o <<SaveTables(t)>>
             x2 == x1 \o w2
             y  == <<SaveTables(t)>>
  <2>1. Goes("rmdir", fat, d1, y, t, d1)
    BY <1>9
  <2> HIDE DEF y
  <2>2. Goes("rmdir", fat, disk, w1 \o y, t, d1)
    BY ONLY <1>7, <2>1, GoesOn
  <2>3. Goes("rmdir", fat, disk, x1, t, d1)
    BY <2>2 DEF y
  <2> HIDE DEF x1
  <2>4. Goes("rmdir", fat, disk, x2, t, d2)
    BY ONLY <1>14, <2>3, GoesOn DEF x2
  <2> HIDE DEF x2
  <2>5. Goes("rmdir", fat, disk, x2 \o w3, t, e)
    BY ONLY <1>17, <2>4, GoesOn
  <2> QED
    BY <2>5 DEF x2, x1
<1>19. FreeBlank(t, e)
  BY <1>14, <1>17, GoesTypes DEF Midway
<1>20. Units(e, S[f]) = rest /\ k + Header(S[f][1]) \in 1 .. Len(Units(disk, S[f]))
  <2>1. Len(Units(disk, S[f])) = width * Len(S[f]) /\ Units(disk, S[f]) \in Seq(Unit)
    BY <1>4, UnitsFacts
  <2>2. k + Header(S[f][1]) \in 1 .. Len(Units(disk, S[f]))
    <3>1. FolderHolds(disk, E, S, L, f)
      BY <1>1, <1>2 DEF Holds
    <3>2. Header(S[f][1]) + Len(L[f]) <= Len(Units(disk, S[f]))
      BY <3>1 DEF FolderHolds
    <3>3. Header(S[f][1]) \in {1, 2} /\ Len(Units(disk, S[f])) \in Nat /\ Len(L[f]) \in Nat
      <4>1. Header(S[f][1]) \in {1, 2} /\ Len(Units(disk, S[f])) \in Nat
        BY <1>4, <2>1, ShapedFacts
      <4>2. L[f] \in Seq(Names)
        BY <1>1, <1>2, TreeFacts
      <4> QED
        BY <4>1, <4>2
    <3> QED
      BY <3>2, <3>3
  <2>3. rest \in Seq(Unit) /\ Len(rest) = width * Len(S[f])
    <3> DEFINE U == Units(disk, S[f])
               h == k + Header(S[f][1])
    <3>1. rest = Without(U, h) /\ U \in Seq(Unit) /\ h \in 1 .. Len(U)
      BY <2>1, <2>2
    <3> HIDE DEF U, h
    <3>2. rest \in Seq(Unit) /\ Len(rest) = Len(U)
      BY <3>1, WithoutFacts
    <3> QED
      BY <2>1, <3>2 DEF U
  <2>4. \A i \in 1 .. Len(s) : e[s[i]] = SubSeq(rest, (i - 1) * width + 1, i * width)
    BY <1>17 DEF s
  <2>5. Shaped(s) /\ width = Width(s[1]) /\ Len(rest) = width * Len(s)
    BY <1>4, <2>3 DEF s
  <2>6. Units(e, s) = rest
    BY ONLY <1>17, <2>3, <2>4, <2>5, Pasted
  <2> QED
    BY <2>2, <2>6 DEF s
<1>21. \A a \in Areas : a \notin ToSet(S[path]) /\ a \notin ToSet(S[f]) => e[a] = disk[a]
  BY <1>7, <1>14, <1>17 DEF s
<1>22. \A c \in Clusters : c \notin ToSet(S[path]) => t[c] = fat[c]
  OBVIOUS
<1> DEFINE D == DOMAIN E \ {path}
           F == [x \in D |-> E[x]]
           T == [x \in D |-> S[x]]
           M == [x \in D |-> IF x = f THEN RemoveAt(L[f], k) ELSE L[x]]
<1>23. Represents(t, e, F, T, M) /\ \A x \in D : E[x].dir /\ Headed(disk, S[x]) => Headed(e, S[x])
  <2>1. Units(e, S[f]) = Without(Units(disk, S[f]), k + Header(S[f][1]))
    BY <1>20
  <2>2. /\ Represents(fat, disk, E, S, L) /\ fat \in TableType /\ t \in TableType /\ disk \in DiskType /\ e \in DiskType
        /\ path \in DOMAIN E /\ path # <<>> /\ L[path] = <<>> /\ f = Front(path)
        /\ k \in 1 .. Len(L[f]) /\ L[f][k] = Last(path) /\ Headed(disk, S[f])
    BY <1>1, <1>4, <1>17
  <2>3. Represents(t, e, F, T, M)
    BY ONLY <1>21, <1>22, <2>1, <2>2, RepresentsWithout, SMTT(60)
  <2>4. Headed(e, S[f])
    <3> DEFINE h == k + Header(S[f][1])
    <3>1. Header(S[f][1]) \in {1, 2} /\ h > Header(S[f][1])
      BY <1>4, ShapedFacts
    <3>2. h \in 1 .. Len(Units(disk, S[f])) /\ Units(e, S[f]) = Without(Units(disk, S[f]), h)
      BY <1>20, <2>1
    <3> HIDE DEF h
    <3> QED
      BY <1>4, <1>17, <3>1, <3>2, HeadedWithout
  <2>5. ASSUME NEW x \in D, x # f, Headed(disk, S[x]) PROVE Headed(e, S[x])
    <3> DEFINE q == S[x]
    <3>1. x \in DOMAIN E /\ Shaped(q) /\ DOMAIN q = 1 .. Len(q) /\ q \in Seq(Areas)
      BY <1>1, ShapeOf
    <3>2. \A a \in ToSet(q) : a \notin ToSet(S[path]) /\ a \notin ToSet(S[f])
      BY <1>1, <1>2, <2>5, <3>1, Apart
    <3> HIDE DEF q
    <3>3. ASSUME NEW i \in 1 .. Len(q) PROVE e[q[i]] = disk[q[i]]
      <4>2. q[i] \in ToSet(q)
        BY ONLY <3>1, i \in 1 .. Len(q) DEF ToSet
      <4>1. q[i] \in ToSet(q) /\ q[i] \in Areas
        BY <3>1, <4>2, ElementOfSeq
      <4> QED
        BY <1>21, <3>2, <4>1
    <3>4. Units(e, q) = Units(disk, q)
      BY ONLY disk \in DiskType, <1>17, <3>1, <3>3, UnitsEqual
    <3> QED
      BY <2>5, <3>4 DEF Headed, q
  <2> QED
    BY <2>3, <2>4, <2>5
<1>24. DOMAIN F = D /\ DOMAIN T = D /\ \A x \in D : x \in DOMAIN E /\ F[x] = E[x] /\ T[x] = S[x]
  OBVIOUS
<1> HIDE DEF D, F, T, M
<1>25. AllHeaded(e, F, T)
  BY <1>1, <1>23, <1>24 DEF AllHeaded
<1>26. SmallWrites => SizesFit(F, T)
  BY <1>1, <1>24 DEF SizesFit
<1>27. Settles(t, e, F, T, M)
  BY <1>19, <1>23, <1>25, <1>26 DEF Settles, Sound
<1>28. AllOwned(fat, S) => AllOwned(t, T)
  <2> SUFFICES ASSUME AllOwned(fat, S), NEW x \in Clusters, t[x] # Free
               PROVE  \E p \in DOMAIN T \ {<<>>} : x \in ToSet(T[p])
    BY DEF AllOwned
  <2>1. x \notin ToSet(S[path]) /\ fat[x] # Free
    BY <1>5
  <2>2. PICK p \in DOMAIN S \ {<<>>} : x \in ToSet(S[p])
    BY <2>1 DEF AllOwned
  <2>3. p \in D
    BY <1>1, <2>1, <2>2 DEF D
  <2> QED
    BY <1>24, <2>2, <2>3
<1>29. w # <<>>
  <2> DEFINE y == <<SaveTables(t)>>
  <2>1. w1 \in Seq(WriteType) /\ y \in Seq(WriteType)
    BY <1>7, <1>9 DEF Goes
  <2>2. Len(y) = 1
    OBVIOUS
  <2> HIDE DEF y
  <2>9. Len(w1) \in Nat
    BY <2>1
  <2>10. w1 \o y \in Seq(WriteType) /\ Len(w1 \o y) = Len(w1) + Len(y)
    BY <2>1, ConcatProperties
  <2>3. w1 \o y \in Seq(WriteType) /\ Len(w1 \o y) = Len(w1) + 1 /\ Len(w1) \in Nat
    BY <2>2, <2>9, <2>10
  <2> DEFINE x1 == w1 \o y
  <2>4. x1 \in Seq(WriteType) /\ Len(x1) > 0
    BY <2>3
  <2> HIDE DEF x1
  <2>5. x1 \o w2 \in Seq(WriteType) /\ Len(x1 \o w2) > 0
    BY <2>4, ConcatProperties
  <2> DEFINE x2 == x1 \o w2
  <2>6. x2 \in Seq(WriteType) /\ Len(x2) > 0
    BY <2>5
  <2> HIDE DEF x2
  <2>7. Len(x2 \o w3) > 0
    BY <2>6, ConcatProperties
  <2>8. w = x2 \o w3
    BY DEF x2, x1, y
  <2> QED
    BY <2>7, <2>8
<1> QED
  <2>1. \A q \in DOMAIN E : q # path => q \in DOMAIN F /\ F[q] = E[q]
    BY <1>24 DEF D
  <2>2. Untouched(disk, E, S, e, F, T, D)
    <3> SUFFICES ASSUME NEW q \in D, ~E[q].dir, NEW a \in ToSet(S[q]) PROVE e[a] = disk[a]
      BY <1>24 DEF Untouched
    <3>1. q \in DOMAIN E /\ q # f /\ q # path
      BY <1>2 DEF D
    <3>2. a \notin ToSet(S[path]) /\ a \notin ToSet(S[f])
      BY <1>1, <1>2, <3>1, Apart
    <3>3. a \in Areas
      <4>1. S[q] \in Seq(Areas)
        BY <1>1, <3>1, ShapeOf
      <4> QED
        BY <4>1 DEF ToSet
    <3> QED
      BY <1>21, <3>2, <3>3
  <2>3. DOMAIN F = DOMAIN E \ {path}
    BY <1>24 DEF D
  <2>4. Untouched(disk, E, S, e, F, T, DOMAIN F)
    BY <1>24, <2>2
  <2> QED
    BY <1>18, <1>27, <1>28, <1>29, <2>1, <2>3, <2>4 DEF Removed

(***************************************************************************)
(* The parts of a write: its data, its new clusters and its size.          *)
(***************************************************************************)

(* One more free cluster at most, and a new one.                           *)
LEMMA TakeFreeFacts ==
  ASSUME NEW t \in TableType, NEW s \in Seq(Clusters), ToSet(s) \subseteq FreeIn(t)
  PROVE  /\ TakeFree(t, s) \in Seq(Clusters) /\ ToSet(TakeFree(t, s)) \subseteq FreeIn(t)
         /\ Len(TakeFree(t, s)) <= Len(s) + 1
<1>1. CASE FreeIn(t) \subseteq ToSet(s)
  BY <1>1 DEF TakeFree
<1>2. CASE ~(FreeIn(t) \subseteq ToSet(s))
  <2> DEFINE c == Min(FreeIn(t) \ ToSet(s))
  <2>1. FreeIn(t) \ ToSet(s) \subseteq Nat /\ FreeIn(t) \ ToSet(s) # {}
    BY <1>2, ConstantFacts DEF FreeIn
  <2>2. c \in FreeIn(t) /\ c \in Clusters
    BY <2>1, MinFacts DEF FreeIn
  <2>3. TakeFree(t, s) = Append(s, c)
    BY <1>2 DEF TakeFree
  <2> HIDE DEF c
  <2>4. Append(s, c) \in Seq(Clusters) /\ Len(Append(s, c)) = Len(s) + 1
    BY <2>2
  <2>5. \A y \in ToSet(Append(s, c)) : y \in ToSet(s) \/ y = c
    <3>1. /\ DOMAIN Append(s, c) = 1 .. Len(s) + 1 /\ DOMAIN s = 1 .. Len(s) /\ Len(s) \in Nat
          /\ \A i \in 1 .. Len(s) : Append(s, c)[i] = s[i]
          /\ Append(s, c)[Len(s) + 1] = c
      BY <2>2
    <3> QED
      BY <3>1 DEF ToSet
  <2> QED
    BY <2>2, <2>3, <2>4, <2>5
<1> QED
  BY <1>1, <1>2

(* The clusters that a write takes are free, and no more than it lacks.    *)
LEMMA FirstFreeFacts ==
  ASSUME NEW t \in TableType, NEW n \in Nat
  PROVE  /\ FirstFree(t, n) \in Seq(Clusters) /\ ToSet(FirstFree(t, n)) \subseteq FreeIn(t)
         /\ Len(FirstFree(t, n)) <= n
<1> DEFINE V == {s \in Seq(Clusters) : ToSet(s) \subseteq FreeIn(t)}
           v == <<>>
           G == [i \in Nat |-> [y \in V |-> TakeFree(t, y)]]
           F(f) == [i \in Nat |-> IF i = 0 THEN <<>> ELSE TakeFree(t, f[i - 1])]
           take == CHOOSE f : f = F(f)
<1>1. v \in V
  BY DEF ToSet
<1>2. G \in [Nat -> [V -> V]]
  <2>1. ASSUME NEW y \in V PROVE TakeFree(t, y) \in V
    BY TakeFreeFacts
  <2> HIDE DEF V
  <2> QED
    BY <2>1
<1>3. \E g \in [Nat -> V] : RunsOn(g, v, G)
  <2> HIDE DEF G, V, v
  <2> QED
    BY <1>1, <1>2, RecursionFor
<1>4. PICK g \in [Nat -> V] : RunsOn(g, v, G)
  BY <1>3
<1>5. g[0] = <<>> /\ \A i \in Nat : g[i] \in V /\ g[i + 1] = TakeFree(t, g[i])
  <2>1. \A i \in Nat : g[i] \in V
    BY <1>4
  <2>2. g[0] = v /\ \A i \in Nat : g[i + 1] = G[i][g[i]]
    BY <1>4 DEF RunsOn
  <2>3. \A i \in Nat : G[i][g[i]] = TakeFree(t, g[i])
    BY <2>1
  <2> QED
    BY <2>1, <2>2, <2>3
<1>6. g = F(g)
  <2>1. \A i \in Nat : F(g)[i] = g[i]
    <3> TAKE i \in Nat
    <3>1. CASE i = 0
      BY <1>5, <3>1
    <3>2. CASE i # 0
      <4>1. i - 1 \in Nat /\ (i - 1) + 1 = i
        BY <3>2
      <4>2. g[i] = TakeFree(t, g[i - 1])
        BY <1>5, <4>1
      <4> QED
        BY <3>2, <4>2
    <3> QED
      BY <3>1, <3>2
  <2>2. F(g) \in [Nat -> {F(g)[i] : i \in Nat}] /\ g \in [Nat -> V]
    OBVIOUS
  <2> HIDE DEF F, V
  <2> QED
    BY <2>1, <2>2
<1>7. take = F(take)
  <2> HIDE DEF F
  <2> QED
    BY <1>6
<1>8. FirstFree(t, n) = take[n]
  BY DEF FirstFree
<1>9. take[0] = <<>> /\ \A i \in Nat : take[i + 1] = TakeFree(t, take[i])
  <2> HIDE DEF take
  <2>1. \A i \in Nat : take[i] = F(take)[i]
    BY <1>7
  <2>2. \A i \in Nat : F(take)[i] = IF i = 0 THEN <<>> ELSE TakeFree(t, take[i - 1])
    OBVIOUS
  <2> HIDE DEF F
  <2>3. take[0] = <<>>
    BY <2>1, <2>2
  <2>4. \A i \in Nat : take[i + 1] = TakeFree(t, take[i])
    <3> TAKE i \in Nat
    <3>1. i + 1 \in Nat /\ i + 1 # 0 /\ (i + 1) - 1 = i
      OBVIOUS
    <3> QED
      BY <2>1, <2>2, <3>1
  <2> QED
    BY <2>3, <2>4
<1> HIDE DEF take, F, G
<1>10. \A i \in Nat : take[i] \in V /\ Len(take[i]) <= i
  <2> DEFINE N == {i \in Nat : take[i] \in V /\ Len(take[i]) <= i}
  <2>1. 0 \in N
    <3>1. take[0] \in V
      BY <1>1, <1>9
    <3>2. Len(take[0]) <= 0
      BY <1>9
    <3> QED
      BY <3>1, <3>2
  <2>2. ASSUME NEW i \in N PROVE i + 1 \in N
    <3>1. i \in Nat /\ take[i] \in Seq(Clusters) /\ ToSet(take[i]) \subseteq FreeIn(t) /\ Len(take[i]) <= i
      BY <2>2
    <3> DEFINE s == take[i]
    <3>2. s \in Seq(Clusters) /\ ToSet(s) \subseteq FreeIn(t) /\ Len(s) <= i /\ Len(s) \in Nat
      BY <3>1
    <3> HIDE DEF s
    <3>3. /\ TakeFree(t, s) \in Seq(Clusters) /\ ToSet(TakeFree(t, s)) \subseteq FreeIn(t)
          /\ Len(TakeFree(t, s)) <= Len(s) + 1
      BY <3>2, TakeFreeFacts
    <3>4. take[i + 1] = TakeFree(t, s)
      BY <1>9, <3>1 DEF s
    <3>5. Len(TakeFree(t, s)) \in Nat
      BY <3>3
    <3>6. take[i + 1] \in V
      BY <3>3, <3>4
    <3>7. Len(take[i + 1]) <= i + 1 /\ i + 1 \in Nat
      BY <3>1, <3>2, <3>3, <3>4, <3>5
    <3> HIDE DEF V
    <3> QED
      BY <3>6, <3>7
  <2>3. N \subseteq Nat
    OBVIOUS
  <2> HIDE DEF N
  <2>4. N = Nat
    BY <2>1, <2>2, <2>3, SetInduction
  <2> QED
    BY <2>4 DEF N
<1> QED
  BY <1>8, <1>10

(* The smaller one of two numbers.                                         *)
LEMMA MinOf ==
  ASSUME NEW a \in Nat, NEW b \in Nat
  PROVE  Min({a, b}) = IF a <= b THEN a ELSE b
<1>1. {a, b} \subseteq Nat /\ {a, b} # {}
  OBVIOUS
<1>2. Min({a, b}) \in {a, b} /\ \A k \in {a, b} : Min({a, b}) <= k
  BY <1>1, MinFacts
<1> QED
  BY <1>2

(* What a write puts into a cluster is made of pieces of a file.           *)
LEMMA PartTyped ==
  ASSUME NEW x \in Seq(Piece), NEW i \in Nat, i > 0
  PROVE  SubSeq(x, (i - 1) * Size + 1, Min({i * Size, Len(x)})) \in Seq(Piece)
<1> DEFINE a == (i - 1) * Size
           b == i * Size
           n == Min({b, Len(x)})
<1>1. a \in Nat /\ b \in Nat
  BY ConstantFacts
<1> HIDE DEF a, b
<1>2. n \in Nat /\ n <= Len(x)
  BY <1>1, MinOf
<1> HIDE DEF n
<1>3. \A j \in a + 1 .. n : x[j] \in Piece
  BY <1>1, <1>2, ElementOfSeq
<1>4. SubSeq(x, a + 1, n) \in Seq(Piece)
  BY <1>1, <1>2, <1>3, SubSeqProperties
<1> QED
  BY <1>4 DEF a, b, n

(* A cluster of a file that is written over holds pieces of a file.        *)
LEMMA OverTyped ==
  ASSUME disk \in DiskType, NEW x \in Seq(Piece), NEW c \in Clusters, NoEntries(disk, c)
  PROVE  /\ Over(x, c) \in Seq(Unit) /\ Len(Over(x, c)) = Size
         /\ \A j \in 1 .. Size : Over(x, c)[j].kind \in {"blank", "data"}
<1>1. disk[c] \in Seq(Unit) /\ Len(disk[c]) = Size
  BY ConstantFacts DEF DiskType, Areas, Width
<1>2. Over(x, c) = [j \in 1 .. Size |-> IF j <= Len(x) THEN x[j] ELSE disk[c][j]]
  BY DEF Over
<1>3. ASSUME NEW j \in 1 .. Size
      PROVE  /\ Over(x, c)[j] \in Unit
             /\ Over(x, c)[j].kind \in {"blank", "data"}
  <2>1. CASE j <= Len(x)
    <3>1. x[j] \in Piece
      BY <2>1, ElementOfSeq
    <3> QED
      BY <1>2, <2>1, <3>1 DEF Piece
  <2>2. CASE ~(j <= Len(x))
    <3>1. disk[c][j] \in Unit
      BY <1>1, ElementOfSeq
    <3> QED
      BY <1>2, <2>2, <3>1 DEF NoEntries
  <2> QED
    BY <2>1, <2>2
<1>4. Size \in Nat
  BY ConstantFacts
<1> QED
  BY <1>2, <1>3, <1>4

(* Pieces are written into the clusters of a file and into free clusters.  *)
LEMMA DataGoes ==
  ASSUME NEW t \in TableType, NEW d \in DiskType, NEW E, NEW S, NEW L, Sound(t, d, E, S, L),
         FreeBlank(t, d), NEW q \in DOMAIN E, q # <<>>, ~E[q].dir,
         NEW w, w \in Seq(WriteType),
         \A i \in 1 .. Len(w) : /\ w[i].at \in Clusters
                                /\ w[i].at \in ToSet(S[q]) \/ w[i].at \in FreeIn(t)
                                /\ \A j \in 1 .. Size : w[i].what[j].kind \in {"blank", "data"}
  PROVE  \E e : /\ Goes("write", t, d, w, t, e) /\ e \in DiskType /\ Sound(t, e, E, S, L)
                /\ \A x \in DOMAIN E : E[x].dir /\ Headed(d, S[x]) => Headed(e, S[x])
                /\ \A a \in Areas : (\A i \in 1 .. Len(w) : w[i].at # a) => e[a] = d[a]
                /\ \A a \in FreeIn(t) : NoEntries(e, a)
                /\ e = DiskAfter(d, w, Len(w))
<1> DEFINE n == Len(w)
           e == DiskAfter(d, w, n)
<1>1. n \in Nat
  OBVIOUS
<1>2. IsTree(E, S, L) /\ ChainsApart(t, E, S) /\ Represents(t, d, E, S, L) /\ (SmallWrites => SizesFit(E, S))
      /\ DOMAIN S = DOMAIN E
  BY TreeFacts DEF Sound, Represents
<1>3. \A i \in 1 .. n : w[i].at \in Clusters /\ w[i].at # Table
  <2> TAKE i \in 1 .. n
  <2>1. w[i].at \in Clusters
    OBVIOUS
  <2> QED
    BY <2>1, ConstantFacts
<1> HIDE DEF n, e
<1>4. ASSUME NEW k \in 0 .. n, NEW a \in Areas
      PROVE  \/ DiskAfter(d, w, k)[a] = d[a]
             \/ \E i \in 1 .. n : w[i].at = a /\ DiskAfter(d, w, k)[a] = w[i].what
  <2>1. DiskAfter(d, w, k)[a] = Latest(w, k, a, d[a])
    BY DEF DiskAfter
  <2>2. k \in Nat /\ 1 .. k \subseteq 1 .. n
    BY <1>1
  <2> QED
    BY <2>1, <2>2, LatestOf
<1>5. ASSUME NEW k \in 0 .. n
      PROVE  /\ DiskAfter(d, w, k) \in DiskType
             /\ Represents(t, DiskAfter(d, w, k), E, S, L)
             /\ \A x \in DOMAIN E : E[x].dir /\ Headed(d, S[x]) => Headed(DiskAfter(d, w, k), S[x])
  <2> DEFINE m == DiskAfter(d, w, k)
  <2>1. m \in DiskType
    BY AfterTypes DEF n
  <2>2. ASSUME NEW a \in Areas
        PROVE  m[a] = d[a] \/ (/\ a \in Clusters /\ NoEntries(m, a)
                               /\ \A p \in DOMAIN E : E[p].dir => a \notin ToSet(S[p]))
    <3> SUFFICES ASSUME m[a] # d[a]
                 PROVE  /\ a \in Clusters /\ NoEntries(m, a)
                        /\ \A p \in DOMAIN E : E[p].dir => a \notin ToSet(S[p])
      OBVIOUS
    <3>1. PICK i \in 1 .. n : w[i].at = a /\ m[a] = w[i].what
      BY <1>4
    <3>2. a \in Clusters /\ (a \in ToSet(S[q]) \/ a \in FreeIn(t))
      BY <3>1 DEF n
    <3>3. \A j \in 1 .. Size : w[i].what[j].kind \in {"blank", "data"}
      BY DEF n
    <3>4. NoEntries(m, a)
      BY <3>1, <3>3 DEF NoEntries
    <3>5. ASSUME NEW p \in DOMAIN E, E[p].dir PROVE a \notin ToSet(S[p])
      <4>1. CASE a \in ToSet(S[q])
        <5>1. p # q
          BY <3>5
        <5> QED
          BY <1>2, <4>1, <5>1, Apart
      <4>2. CASE a \in FreeIn(t)
        BY <1>2, <4>2, FreeFacts DEF Unused
      <4> QED
        BY <3>2, <4>1, <4>2
    <3> QED
      BY <3>2, <3>4, <3>5
  <2> HIDE DEF m
  <2>3. Represents(t, m, E, S, L)
    BY ONLY <1>2, <2>1, <2>2, RepresentsOtherData, t \in TableType, d \in DiskType
  <2>4. \A x \in DOMAIN E : E[x].dir /\ Headed(d, S[x]) => Headed(m, S[x])
    <3> TAKE x \in DOMAIN E
    <3> QED
      BY ONLY <1>2, <2>1, <2>2, RepresentsOtherData, t \in TableType, d \in DiskType
  <2> QED
    BY <2>1, <2>3, <2>4 DEF m
<1>6. Goes("write", t, d, w, t, e)
  <2>1. \A k \in 0 .. n : Midway("write", t, DiskAfter(d, w, k))
    <3> TAKE k \in 0 .. n
    <3>1. Sound(t, DiskAfter(d, w, k), E, S, L)
      BY <1>2, <1>5 DEF Sound
    <3> QED
      BY <3>1 DEF Midway
  <2> QED
    BY <1>3, <2>1, GoesMany DEF n, e
<1>7. n \in 0 .. n
  BY <1>1
<1>8. /\ e \in DiskType /\ Sound(t, e, E, S, L)
      /\ \A x \in DOMAIN E : E[x].dir /\ Headed(d, S[x]) => Headed(e, S[x])
  BY <1>2, <1>5, <1>7 DEF Sound, e
<1>9. ASSUME NEW a \in Areas, \A i \in 1 .. n : w[i].at # a PROVE e[a] = d[a]
  BY <1>4, <1>7, <1>9 DEF e
<1>10. ASSUME NEW a \in FreeIn(t) PROVE NoEntries(e, a)
  <2>1. a \in Areas /\ d[a] = BlankCluster
    BY DEF FreeIn, Areas, FreeBlank
  <2>2. CASE e[a] = d[a]
    <3>1. \A j \in 1 .. Size : e[a][j].kind = "blank"
      BY <2>1, <2>2, KindFacts DEF BlankCluster
    <3> QED
      BY <3>1 DEF NoEntries
  <2>3. CASE \E i \in 1 .. n : w[i].at = a /\ e[a] = w[i].what
    BY <2>3 DEF NoEntries, n
  <2> QED
    BY <1>4, <1>7, <2>1, <2>2, <2>3 DEF e
<1>11. e = DiskAfter(d, w, Len(w))
  BY DEF e, n
<1> QED
  BY <1>6, <1>8, <1>9, <1>10, <1>11 DEF n

(* Products grow with their factors.                                       *)
LEMMA TimesMore ==
  ASSUME NEW n \in Nat, NEW a \in Nat, NEW b \in Nat, a <= b
  PROVE  n * a \in Nat /\ n * b \in Nat /\ n * a <= n * b
<1> DEFINE c == b - a
<1>1. c \in Nat /\ b = a + c
  OBVIOUS
<1> HIDE DEF c
<1>2. n * (a + c) = n * a + n * c /\ n * a \in Nat /\ n * c \in Nat
  BY <1>1
<1> QED
  BY <1>1, <1>2

(* Longer chains are long enough.                                          *)
LEMMA SizesLonger ==
  ASSUME NEW E, NEW S, NEW T, SizesFit(E, S),
         \A x \in DOMAIN E : Len(S[x]) \in Nat /\ Len(T[x]) \in Nat /\ Len(S[x]) <= Len(T[x]),
         \A x \in DOMAIN E : ~E[x].dir => E[x].size \in Nat
  PROVE  SizesFit(E, T)
<1> SUFFICES ASSUME NEW x \in DOMAIN E, ~E[x].dir PROVE E[x].size <= Size * Len(T[x])
  BY DEF SizesFit
<1> DEFINE a == Len(S[x])
           b == Len(T[x])
           n == E[x].size
<1>1. a \in Nat /\ b \in Nat /\ a <= b /\ n \in Nat
  OBVIOUS
<1>2. n <= Size * a
  BY DEF SizesFit
<1> HIDE DEF a, b, n
<1>3. Size * a \in Nat /\ Size * b \in Nat /\ Size * a <= Size * b
  BY <1>1, ConstantFacts, TimesMore
<1>4. n <= Size * b
  BY <1>1, <1>2, <1>3
<1> QED
  BY <1>4 DEF b, n

(* The table u after the last of the clusters new, which it allocates, was *)
(* linked to the last one of the chain s.                                  *)
Links(t, u, s, new) ==
  \A c \in Clusters : u[c] = IF c \in ToSet(new) THEN EOC
                             ELSE IF c = Last(s) /\ new # <<>> THEN Last(new) ELSE t[c]

(* T says whose the clusters are once the table u is saved in place of t.  *)
Linked(t, d, E, S, L, q, new, u, T) ==
  /\ Goes("write", t, d, <<SaveTables(u)>>, u, d) /\ Sound(u, d, E, T, L)
  /\ \A x \in DOMAIN E : E[x].dir /\ Headed(d, S[x]) => Headed(d, T[x])
  /\ \A x \in DOMAIN E : x # q => T[x] = S[x]
  /\ Len(T[q]) = IF new = <<>> THEN Len(S[q]) ELSE Len(S[q]) + 1
  /\ T[q] = IF new = <<>> THEN S[q] ELSE Append(S[q], Last(new))
  /\ Len(new) <= 1 /\ AllOwned(t, S) => AllOwned(u, T)

(* A write links one of the clusters that it took to the last one of the   *)
(* file, and saves the table.                                              *)
LEMMA LinkGoes ==
  ASSUME NEW t \in TableType, NEW d \in DiskType, NEW E, NEW S, NEW L, Sound(t, d, E, S, L),
         NEW q \in DOMAIN E, q # <<>>, ~E[q].dir,
         NEW new \in Seq(Clusters), ToSet(new) \subseteq FreeIn(t),
         \A a \in FreeIn(t) : NoEntries(d, a), NEW u \in TableType,
         Links(t, u, S[q], new)
  PROVE  \E T : Linked(t, d, E, S, L, q, new, u, T)
<1>1. /\ IsTree(E, S, L) /\ ChainsApart(t, E, S) /\ Represents(t, d, E, S, L)
      /\ (SmallWrites => SizesFit(E, S)) /\ DOMAIN S = DOMAIN E
  BY TreeFacts DEF Sound, Represents
<1>0. \A c \in Clusters : u[c] = IF c \in ToSet(new) THEN EOC
                               ELSE IF c = Last(S[q]) /\ new # <<>> THEN Last(new) ELSE t[c]
  BY DEF Links
<1>2. /\ IsChain(t, S[q]) /\ S[q] \in Seq(Clusters) /\ Len(S[q]) \in Nat /\ Len(S[q]) > 0
      /\ DOMAIN S[q] = 1 .. Len(S[q])
  BY <1>1, ShapeOf
<1>3. Last(S[q]) \in ToSet(S[q]) /\ Last(S[q]) \in Clusters
  <2>1. Len(S[q]) \in 1 .. Len(S[q])
    BY <1>2
  <2>2. Last(S[q]) \in ToSet(S[q])
    BY <1>2, <2>1 DEF Last, ToSet
  <2> QED
    BY <1>2, <2>2, ChainNotFree
<1>4. \A c \in ToSet(new) : c \in Clusters /\ Unused(S, c)
  <2> TAKE c \in ToSet(new)
  <2>1. c \in FreeIn(t)
    OBVIOUS
  <2> QED
    BY <1>1, <2>1, FreeFacts
<1>5. Midway("write", t, d)
  BY DEF Midway
<1>6. ASSUME NEW T, Sound(u, d, E, T, L) PROVE Goes("write", t, d, <<SaveTables(u)>>, u, d)
  <2>1. Midway("write", u, d)
    BY <1>6 DEF Midway
  <2> QED
    BY <1>5, <2>1, GoesTable
<1>7. CASE new = <<>>
  <2>1. \A c \in Clusters : c \notin ToSet(new)
    BY <1>7 DEF ToSet
  <2>2. \A c \in Clusters : u[c] = t[c]
    BY <1>0, <1>7, <2>1
  <2>3. u = t
    BY <2>2 DEF TableType
  <2>4. Sound(u, d, E, S, L)
    BY <2>3
  <2>5. Linked(t, d, E, S, L, q, new, u, S)
    BY <1>6, <1>7, <2>3, <2>4 DEF Linked
  <2> QED
    BY <2>5
<1>8. CASE new # <<>>
  <2> DEFINE c == Last(new)
             T == With(S, q, Append(S[q], c))
  <2>1. c \in ToSet(new) /\ Len(new) \in Nat /\ Len(new) > 0 /\ DOMAIN new = 1 .. Len(new)
    <3>1. Len(new) \in 1 .. Len(new) /\ DOMAIN new = 1 .. Len(new)
      BY <1>8
    <3> QED
      BY <3>1 DEF Last, ToSet
  <2>2. c \in Clusters /\ Unused(S, c) /\ u[c] = EOC /\ NoEntries(d, c) /\ c \in FreeIn(t)
    BY <1>0, <1>4, <2>1
  <2>3. Last(S[q]) \notin ToSet(new)
    BY <1>1, <1>3, <1>4 DEF Unused
  <2>4. u[Last(S[q])] = c
    BY <1>0, <1>3, <1>8, <2>3
  <2>5. \A p \in DOMAIN E \ {<<>>} : \A x \in ToSet(S[p]) : x # Last(S[q]) => u[x] = t[x]
    <3> TAKE p \in DOMAIN E \ {<<>>}
    <3> TAKE x \in ToSet(S[p])
    <3>1. x \in Clusters
      BY <1>1, ShapeOf
    <3>2. x \notin ToSet(new)
      BY <1>1, <1>4 DEF Unused
    <3> QED
      BY <1>0, <3>1, <3>2
  <2>6. T[q] = Append(S[q], c) /\ \A x \in DOMAIN E : x # q => T[x] = S[x]
    BY <1>1 DEF With
  <2>7. /\ Represents(u, d, E, T, L)
        /\ \A x \in DOMAIN E : E[x].dir /\ Headed(d, S[x]) => Headed(d, T[x])
    <3> HIDE DEF c
    <3>1. Represents(u, d, E, T, L)
      BY <1>1, <2>2, <2>4, <2>5, RepresentsLonger
    <3>2. \A x \in DOMAIN E : E[x].dir /\ Headed(d, S[x]) => Headed(d, T[x])
      BY <1>1, <2>2, <2>4, <2>5, RepresentsLonger
    <3> QED
      BY <3>1, <3>2
  <2>8. Len(T[q]) = Len(S[q]) + 1
    BY <1>2, <2>2, <2>6
  <2>9. SmallWrites => SizesFit(E, T)
    <3> SUFFICES ASSUME SmallWrites PROVE SizesFit(E, T)
      OBVIOUS
    <3>1. \A x \in DOMAIN E : Len(S[x]) \in Nat
      BY <1>1, ShapeOf
    <3>2. \A x \in DOMAIN E : Len(T[x]) \in Nat /\ Len(S[x]) <= Len(T[x])
      <4> TAKE x \in DOMAIN E
      <4>1. CASE x = q
        BY <1>2, <2>8, <4>1
      <4>2. CASE x # q
        BY <2>6, <3>1, <4>2
      <4> QED
        BY <4>1, <4>2
    <3>3. \A x \in DOMAIN E : ~E[x].dir => E[x].size \in Nat
      <4> SUFFICES ASSUME NEW x \in DOMAIN E, ~E[x].dir PROVE E[x].size \in Nat
        OBVIOUS
      <4>1. x # <<>>
        BY <1>1, TreeFacts, KindFacts
      <4>2. E[x] \in EntryType
        BY <1>1, <4>1, TreeFacts
      <4> QED
        BY <4>2, KindFacts
    <3>4. SizesFit(E, S)
      BY <1>1
    <3> HIDE DEF T
    <3> QED
      BY <3>1, <3>2, <3>3, <3>4, SizesLonger
  <2>10. Len(new) <= 1 /\ AllOwned(t, S) => AllOwned(u, T)
    <3> SUFFICES ASSUME Len(new) <= 1, AllOwned(t, S), NEW x \in Clusters, u[x] # Free
                 PROVE  \E p \in DOMAIN T \ {<<>>} : x \in ToSet(T[p])
      BY DEF AllOwned
    <3>1. DOMAIN T = DOMAIN S
      BY <1>1 DEF With
    <3>2. \A y : y \in ToSet(T[q]) <=> y \in ToSet(S[q]) \/ y = c
      <4>1. DOMAIN Append(S[q], c) = 1 .. Len(S[q]) + 1 /\ Append(S[q], c)[Len(S[q]) + 1] = c
            /\ \A i \in 1 .. Len(S[q]) : Append(S[q], c)[i] = S[q][i]
        BY <1>2, <2>2
      <4> QED
        BY <1>2, <2>6, <4>1 DEF ToSet
    <3>3. CASE x \in ToSet(new)
      <4>1. new = <<c>>
        BY <2>1 DEF Last
      <4>2. x = c
        BY <3>3, <4>1 DEF ToSet
      <4> QED
        BY <1>1, <3>1, <3>2, <4>2
    <3>4. CASE x \notin ToSet(new)
      <4>1. t[x] # Free
        <5>1. CASE x = Last(S[q])
          BY <1>2, <1>3, <5>1, ChainNotFree
        <5>2. CASE x # Last(S[q])
          BY <1>0, <3>4, <5>2
        <5> QED
          BY <5>1, <5>2
      <4>2. PICK p \in DOMAIN S \ {<<>>} : x \in ToSet(S[p])
        BY <4>1 DEF AllOwned
      <4>3. x \in ToSet(T[p])
        BY <1>1, <2>6, <3>2, <4>2
      <4> QED
        BY <3>1, <4>2, <4>3
    <3> QED
      BY <3>3, <3>4
  <2>11. Sound(u, d, E, T, L)
    BY <2>7, <2>9 DEF Sound
  <2>12. T[q] = Append(S[q], Last(new))
    BY <2>6
  <2> HIDE DEF T, c
  <2> QED
    BY <1>6, <1>8, <2>6, <2>7, <2>8, <2>10, <2>11, <2>12 DEF Linked
<1> QED
  BY <1>7, <1>8

(* A write ends with the new size in the entry of the file.                *)
LEMMA SizeGoes ==
  ASSUME disk \in DiskType, NEW t \in TableType, NEW d \in DiskType, NEW E, NEW S, NEW L, Sound(t, d, E, S, L),
         NEW q \in DOMAIN E, q # <<>>, ~E[q].dir,
         NEW f, f = Front(q), NEW k \in 1 .. Len(L[f]), L[f][k] = Last(q),
         \A a \in ToSet(S[f]) : d[a] = disk[a],
         NEW n \in Nat, SmallWrites => n <= Size * Len(S[q]), NEW v, v = [E[q] EXCEPT !.size = n]
  PROVE  \E F, e : /\ Goes("write", t, d, <<WriteUnit(S[f], k - 1 + Header(S[f][1]), v)>>, t, e)
                   /\ Sound(t, e, F, S, L)
                   /\ \A x \in DOMAIN E : E[x].dir /\ Headed(d, S[x]) => Headed(e, S[x])
                   /\ DOMAIN F = DOMAIN E /\ \A x \in DOMAIN E : x # q => F[x] = E[x]
                   /\ F[q].size = n /\ F[q].first = E[q].first /\ F[q].dir = E[q].dir
                   /\ \A a \in Areas : a \notin ToSet(S[f]) => e[a] = d[a]
<1> DEFINE F == With(E, q, v)
           j == k - 1 + Header(S[f][1])
           e == Put(d, S[f], j, v)
<1>1. /\ IsTree(E, S, L) /\ ChainsApart(t, E, S) /\ Represents(t, d, E, S, L)
      /\ (SmallWrites => SizesFit(E, S)) /\ DOMAIN S = DOMAIN E
  BY TreeFacts DEF Sound, Represents
<1>2. f \in DOMAIN E /\ E[f].dir /\ f # q
  BY <1>1, ListedAt
<1>3. Shaped(S[f]) /\ Header(S[f][1]) \in {1, 2} /\ L[f] \in Seq(Names)
  BY <1>1, <1>2, ShapeOf, ShapedFacts, TreeFacts
<1>4. j \in Nat /\ j < Len(Units(d, S[f]))
  <2>1. FolderHolds(d, E, S, L, f)
    BY <1>1, <1>2 DEF Represents, Holds
  <2>2. Header(S[f][1]) + Len(L[f]) <= Len(Units(d, S[f]))
    BY <2>1 DEF FolderHolds
  <2>3. Len(Units(d, S[f])) \in Nat /\ Len(L[f]) \in Nat
    BY <1>3, UnitsFacts
  <2> QED
    BY <1>3, <2>2, <2>3
<1>5. E[q] \in EntryType /\ v \in EntryType /\ v.size = n /\ v.first = E[q].first /\ v.dir = E[q].dir
  <2>1. E[q] \in EntryType
    BY <1>1, TreeFacts
  <2> QED
    BY <2>1 DEF EntryType
<1>6. /\ e \in DiskType /\ Represents(t, e, F, S, L)
      /\ \A x \in DOMAIN E : E[x].dir /\ Headed(d, S[x]) => Headed(e, S[x])
      /\ \A a \in Areas : a \notin ToSet(S[f]) => e[a] = d[a]
  <2>1. e = Put(d, S[f], k - 1 + Header(S[f][1]), v)
    OBVIOUS
  <2> HIDE DEF e
  <2>2. e \in DiskType
    BY <1>1, <2>1, RepresentsSize, SMTT(30)
  <2>3. Represents(t, e, F, S, L)
    BY <1>1, <2>1, RepresentsSize, SMTT(30)
  <2>4. \A x \in DOMAIN E : E[x].dir /\ Headed(d, S[x]) => Headed(e, S[x])
    BY <1>1, <2>1, RepresentsSize, SMTT(30)
  <2>5. \A a \in Areas : a \notin ToSet(S[f]) => e[a] = d[a]
    BY <1>1, <2>1, RepresentsSize, SMTT(30)
  <2> QED
    BY <2>2, <2>3, <2>4, <2>5
<1>7. PICK a \in Areas, y \in Seq(Unit) :
        Len(y) = Width(a) /\ WriteUnit(S[f], j, v) = WriteUnits(a, y) /\ e = Paste(d, a, y)
  <2> DEFINE s == S[f]
  <2>1. /\ Shaped(s) /\ j \in Nat /\ j < Len(Units(d, s)) /\ v \in Unit /\ disk \in DiskType /\ d \in DiskType
        /\ \A a \in ToSet(s) : d[a] = disk[a]
    BY <1>3, <1>4, <1>5 DEF Unit
  <2> HIDE DEF s, j
  <2>2. \E a \in Areas : \E x \in Seq(Unit) :
          Len(x) = Width(a) /\ WriteUnit(s, j, v) = WriteUnits(a, x) /\ Put(d, s, j, v) = Paste(d, a, x)
    BY ONLY <2>1, PutWrite
  <2> QED
    BY <2>2 DEF s
<1>8. DOMAIN F = DOMAIN E /\ F[q] = v /\ \A x \in DOMAIN E : x # q => F[x] = E[x]
  BY DEF With
<1> HIDE DEF e, F, j
<1>9. SmallWrites => SizesFit(F, S)
  <2> SUFFICES ASSUME SmallWrites, NEW x \in DOMAIN F, ~F[x].dir PROVE F[x].size <= Size * Len(S[x])
    BY DEF SizesFit
  <2>1. CASE x = q
    BY <1>5, <1>8, <2>1
  <2>2. CASE x # q
    BY <1>1, <1>8, <2>2 DEF SizesFit
  <2> QED
    BY <2>1, <2>2
<1>10. Sound(t, e, F, S, L)
  BY <1>6, <1>9 DEF Sound
<1>11. Goes("write", t, d, <<WriteUnit(S[f], j, v)>>, t, e)
  <2>1. Midway("write", t, d) /\ Midway("write", t, e)
    BY <1>10 DEF Midway
  <2> QED
    BY <1>7, <2>1, GoesDisk
<1>12. /\ F[q].size = n /\ F[q].first = E[q].first /\ F[q].dir = E[q].dir
       /\ DOMAIN F = DOMAIN E /\ \A x \in DOMAIN E : x # q => F[x] = E[x]
  BY <1>5, <1>8
<1>13. Goes("write", t, d, <<WriteUnit(S[f], k - 1 + Header(S[f][1]), v)>>, t, e)
  BY <1>11 DEF j
<1> QED
  BY <1>6, <1>10, <1>12, <1>13

(***************************************************************************)
(* The writes of a write.                                                  *)
(***************************************************************************)

(* Something is left of a concatenation with one element.                  *)
LEMMA ConcatNotEmpty ==
  ASSUME NEW X, NEW x \in Seq(X), NEW y \in Seq(X), Len(y) = 1
  PROVE  x \o y # <<>>
<1>1. Len(x \o y) = Len(x) + Len(y)
  BY ConcatProperties
<1>2. Len(x) \in Nat /\ Len(<<>>) = 0
  OBVIOUS
<1> QED
  BY <1>1, <1>2

(* A write to the file q, the entry k of folder f: w are the writes of its *)
(* data, new the clusters it took, u the table that links them, and last   *)
(* the write of the size unless the file ends where the handle says.       *)
Extension(t, E, S, L, q, f, k, new, w, u, end, size, last) ==
  /\ q \in DOMAIN E /\ q # <<>> /\ ~E[q].dir
  /\ f = Front(q) /\ k \in 1 .. Len(L[f]) /\ L[f][k] = Last(q)
  /\ new \in Seq(Clusters) /\ ToSet(new) \subseteq FreeIn(t)
  /\ w \in Seq(WriteType)
  /\ \A i \in 1 .. Len(w) : /\ w[i].at \in ToSet(S[q]) \/ w[i].at \in ToSet(new)
                            /\ \A j \in 1 .. Size : w[i].what[j].kind \in {"blank", "data"}
  /\ u \in TableType /\ Links(t, u, S[q], new)
  /\ end \in Nat /\ (SmallWrites => Len(new) <= 1 /\ end <= Size * (Len(S[q]) + Len(new)))
  /\ last = IF end = size THEN <<>>
            ELSE <<WriteUnit(S[f], k - 1 + Header(S[f][1]), [E[q] EXCEPT !.size = end])>>

(* The writes lead to the table u and a tree that differs in the size and  *)
(* the chain of q, and to a disk that differs from the one after the data  *)
(* in the folder f.                                                        *)
Wrote(t, E, S, L, q, f, new, w, u, end, size, writes) ==
  \E F, T, e :
    /\ Goes("write", fat, disk, writes, u, e) /\ Settles(u, e, F, T, L)
    /\ DOMAIN F = DOMAIN E /\ \A x \in DOMAIN E : x # q => F[x] = E[x]
    /\ F[q].first = E[q].first /\ F[q].dir = E[q].dir
    /\ F[q].size = IF end = size THEN E[q].size ELSE end
    /\ SmallWrites /\ AllOwned(t, S) => AllOwned(u, T)
    /\ \A x \in DOMAIN E : x # q => T[x] = S[x]
    /\ T[q] = IF new = <<>> THEN S[q] ELSE Append(S[q], Last(new))
    /\ \A a \in Areas : a \notin ToSet(S[f]) => e[a] = DiskAfter(disk, w, Len(w))[a]

(* A write, behind the writes `before` of an allocation at the edge of its *)
(* last cluster.                                                           *)
LEMMA WriteGoes ==
  ASSUME fat \in TableType, disk \in DiskType, NEW t \in TableType, NEW before,
         Goes("write", fat, disk, before, t, disk),
         NEW E, NEW S, NEW L, Settles(t, disk, E, S, L),
         NEW q, NEW f, NEW k, NEW new, NEW w, NEW u, NEW end, NEW size, NEW last,
         Extension(t, E, S, L, q, f, k, new, w, u, end, size, last),
         NEW writes, writes = ((before \o w) \o <<SaveTables(u)>>) \o last
  PROVE  writes # <<>> /\ Wrote(t, E, S, L, q, f, new, w, u, end, size, writes)
<1> DEFINE v == [E[q] EXCEPT !.size = end]
<1>a. /\ q \in DOMAIN E /\ q # <<>> /\ ~E[q].dir
      /\ f = Front(q) /\ k \in 1 .. Len(L[f]) /\ L[f][k] = Last(q)
      /\ new \in Seq(Clusters) /\ ToSet(new) \subseteq FreeIn(t)
      /\ w \in Seq(WriteType)
      /\ \A i \in 1 .. Len(w) : /\ w[i].at \in ToSet(S[q]) \/ w[i].at \in ToSet(new)
                                /\ \A j \in 1 .. Size : w[i].what[j].kind \in {"blank", "data"}
      /\ u \in TableType /\ Links(t, u, S[q], new)
      /\ end \in Nat /\ (SmallWrites => Len(new) <= 1 /\ end <= Size * (Len(S[q]) + Len(new)))
      /\ last = IF end = size THEN <<>> ELSE <<WriteUnit(S[f], k - 1 + Header(S[f][1]), v)>>
  BY DEF Extension
<1>b. v = [E[q] EXCEPT !.size = end]
  OBVIOUS
<1> HIDE DEF v
<1> USE <1>a, <1>b
<1> DEFINE save == <<SaveTables(u)>>
<1>1. /\ Sound(t, disk, E, S, L) /\ FreeBlank(t, disk) /\ AllHeaded(disk, E, S)
      /\ IsTree(E, S, L) /\ ChainsApart(t, E, S) /\ DOMAIN S = DOMAIN E
  BY TreeFacts DEF Settles, Sound, Represents
<1>2. /\ S[q] \in Seq(Clusters) /\ ToSet(S[q]) \subseteq Clusters /\ Len(S[q]) \in Nat /\ Len(S[q]) > 0
      /\ DOMAIN S[q] = 1 .. Len(S[q])
  BY <1>1, ShapeOf
<1>3. f \in DOMAIN E /\ E[f].dir /\ f # q
  BY <1>1, ListedAt
<1>4. \A i \in 1 .. Len(w) : /\ w[i].at \in Clusters
                             /\ w[i].at \in ToSet(S[q]) \/ w[i].at \in FreeIn(t)
                             /\ \A j \in 1 .. Size : w[i].what[j].kind \in {"blank", "data"}
  <2>1. FreeIn(t) \subseteq Clusters
    BY DEF FreeIn
  <2> QED
    BY <1>2, <2>1
<1>5. PICK d1 : /\ Goes("write", t, disk, w, t, d1) /\ d1 \in DiskType /\ Sound(t, d1, E, S, L)
                /\ \A x \in DOMAIN E : E[x].dir /\ Headed(disk, S[x]) => Headed(d1, S[x])
                /\ \A a \in Areas : (\A i \in 1 .. Len(w) : w[i].at # a) => d1[a] = disk[a]
                /\ \A a \in FreeIn(t) : NoEntries(d1, a)
                /\ d1 = DiskAfter(disk, w, Len(w))
  <2>1. /\ t \in TableType /\ disk \in DiskType /\ Sound(t, disk, E, S, L) /\ FreeBlank(t, disk)
        /\ q \in DOMAIN E /\ q # <<>> /\ ~E[q].dir /\ w \in Seq(WriteType)
    BY <1>1
  <2> QED
    BY ONLY <1>4, <2>1, DataGoes, SMTT(60)
<1>6. PICK T : Linked(t, d1, E, S, L, q, new, u, T)
  <2>1. /\ t \in TableType /\ d1 \in DiskType /\ Sound(t, d1, E, S, L)
        /\ q \in DOMAIN E /\ q # <<>> /\ ~E[q].dir
        /\ new \in Seq(Clusters) /\ ToSet(new) \subseteq FreeIn(t)
        /\ \A a \in FreeIn(t) : NoEntries(d1, a)
    BY <1>5
  <2>2. u \in TableType /\ Links(t, u, S[q], new)
    OBVIOUS
  <2> QED
    BY ONLY <2>1, <2>2, LinkGoes, SMTT(60)
<1>15. /\ Goes("write", t, d1, save, u, d1) /\ Sound(u, d1, E, T, L)
       /\ \A x \in DOMAIN E : E[x].dir /\ Headed(d1, S[x]) => Headed(d1, T[x])
       /\ \A x \in DOMAIN E : x # q => T[x] = S[x]
       /\ Len(T[q]) = IF new = <<>> THEN Len(S[q]) ELSE Len(S[q]) + 1
       /\ T[q] = IF new = <<>> THEN S[q] ELSE Append(S[q], Last(new))
       /\ Len(new) <= 1 /\ AllOwned(t, S) => AllOwned(u, T)
  BY <1>6 DEF Linked
<1>7. Goes("write", fat, disk, (before \o w) \o save, u, d1)
  <2> DEFINE x == before \o w
  <2>1. Goes("write", fat, disk, x, t, d1)
    BY ONLY Goes("write", fat, disk, before, t, disk), <1>5, GoesOn
  <2> HIDE DEF x, save
  <2>2. Goes("write", fat, disk, x \o save, u, d1)
    BY ONLY <1>15, <2>1, GoesOn
  <2> QED
    BY <2>2 DEF x
<1>8. \A c \in FreeIn(u) : /\ c \in FreeIn(t) /\ c \notin ToSet(new) /\ c \in Areas /\ c \in Clusters
                           /\ c \notin ToSet(S[q]) /\ c \notin ToSet(S[f]) /\ d1[c] = BlankCluster
  <2> TAKE c \in FreeIn(u)
  <2>1. c \in Clusters /\ u[c] = Free /\ c \in Areas
    BY DEF FreeIn, Areas
  <2>2. c \notin ToSet(new)
    BY <2>1, ConstantFacts DEF Links
  <2>3. t[c] = Free
    <3>1. CASE c = Last(S[q]) /\ new # <<>>
      <4>1. Last(new) \in Clusters
        <5>1. Len(new) \in 1 .. Len(new)
          BY <3>1
        <5> QED
          BY <5>1 DEF Last
      <4>2. u[c] = Last(new)
        BY <2>1, <2>2, <3>1 DEF Links
      <4> QED
        BY <2>1, <4>1, <4>2, ConstantFacts
    <3>2. CASE ~(c = Last(S[q]) /\ new # <<>>)
      BY <2>1, <2>2, <3>2 DEF Links
    <3> QED
      BY <3>1, <3>2
  <2>4. c \in FreeIn(t)
    BY <2>1, <2>3 DEF FreeIn
  <2>5. c \notin ToSet(S[q]) /\ c \notin ToSet(S[f])
    BY <1>1, <1>3, <2>4, FreeFacts DEF Unused
  <2>6. d1[c] = disk[c]
    BY <1>5, <2>1, <2>2, <2>5
  <2>7. disk[c] = BlankCluster
    BY <1>1, <2>4 DEF FreeBlank
  <2> QED
    BY <2>1, <2>2, <2>4, <2>5, <2>6, <2>7
<1>9. AllHeaded(d1, E, T)
  BY <1>1, <1>5, <1>15 DEF AllHeaded
<1>10. \A a \in ToSet(S[f]) : d1[a] = disk[a] /\ a \in Areas
  <2> TAKE a \in ToSet(S[f])
  <2>1. a \notin ToSet(S[q])
    BY <1>1, <1>3, Apart
  <2>2. a \notin ToSet(new)
    <3>1. \A c \in ToSet(new) : Unused(S, c)
      BY <1>1, FreeFacts
    <3> QED
      BY <1>1, <1>3, <3>1 DEF Unused
  <2>3. a \in Areas
    <3>1. S[f] \in Seq(Areas)
      BY <1>1, <1>3, ShapeOf
    <3> QED
      BY <3>1 DEF ToSet
  <2> QED
    BY <1>5, <2>1, <2>2, <2>3
<1>11. SmallWrites => end <= Size * Len(T[q])
  <2> SUFFICES ASSUME SmallWrites PROVE end <= Size * Len(T[q])
    OBVIOUS
  <2>1. Len(new) \in Nat /\ Len(new) <= 1 /\ (new = <<>> <=> Len(new) = 0)
    OBVIOUS
  <2>2. Len(T[q]) = Len(S[q]) + Len(new)
    <3>1. Len(T[q]) = IF new = <<>> THEN Len(S[q]) ELSE Len(S[q]) + 1
      BY <1>15
    <3>2. CASE new = <<>>
      BY <1>2, <2>1, <3>1, <3>2
    <3>3. CASE new # <<>>
      <4>0. Len(new) # 0
        BY <2>1, <3>3
      <4> DEFINE n == Len(new)
      <4>2. n \in Nat /\ n <= 1 /\ n # 0
        BY <2>1, <4>0
      <4> HIDE DEF n
      <4>3. n = 1
        BY <4>2
      <4>1. Len(new) = 1
        BY <4>3 DEF n
      <4> QED
        BY <3>1, <3>3, <4>1
    <3> QED
      BY <3>2, <3>3
  <2> QED
    BY <2>2
<1>12. SmallWrites /\ AllOwned(t, S) => AllOwned(u, T)
  BY <1>15
<1>13. CASE end = size
  <2>1. last = <<>> /\ ((before \o w) \o save) \o <<>> = (before \o w) \o save
    <3>1. (before \o w) \o save \in Seq(WriteType)
      BY <1>7 DEF Goes
    <3> HIDE DEF save
    <3> QED
      BY <1>13, <3>1, ConcatEmptySeq
  <2>2. FreeBlank(u, d1)
    BY <1>8 DEF FreeBlank
  <2>3. Settles(u, d1, E, T, L)
    BY <1>15, <1>9, <2>2 DEF Settles
  <2>9. writes = (before \o w) \o save
    BY <2>1
  <2>4. Goes("write", fat, disk, writes, u, d1)
    BY <1>7, <2>9
  <2>5. writes # <<>>
    <3> DEFINE x == before \o w
    <3>1. x \in Seq(WriteType) /\ save \in Seq(WriteType) /\ Len(save) = 1
      <4>1. before \in Seq(WriteType) /\ save \in Seq(WriteType)
        BY <1>15 DEF Goes
      <4>2. x \in Seq(WriteType)
        BY <4>1, ConcatProperties
      <4> QED
        BY <4>1, <4>2
    <3> HIDE DEF x, save
    <3>4. x \o save # <<>>
      BY <3>1, ConcatNotEmpty
    <3> QED
      BY <2>9, <3>4 DEF x
  <2>6. \E F, X, e :
          /\ Goes("write", fat, disk, writes, u, e) /\ Settles(u, e, F, X, L)
          /\ DOMAIN F = DOMAIN E /\ \A x \in DOMAIN E : x # q => F[x] = E[x]
          /\ F[q].first = E[q].first /\ F[q].dir = E[q].dir
          /\ F[q].size = IF end = size THEN E[q].size ELSE end
          /\ SmallWrites /\ AllOwned(t, S) => AllOwned(u, X)
          /\ \A x \in DOMAIN E : x # q => X[x] = S[x]
          /\ X[q] = IF new = <<>> THEN S[q] ELSE Append(S[q], Last(new))
          /\ \A a \in Areas : a \notin ToSet(S[f]) => e[a] = DiskAfter(disk, w, Len(w))[a]
    BY <1>5, <1>12, <1>13, <1>15, <2>3, <2>4
  <2> QED
    BY <2>5, <2>6 DEF Wrote
<1>14. CASE end # size
  <2> DEFINE y == <<WriteUnit(T[f], k - 1 + Header(T[f][1]), v)>>
  <2>1. last = y
    BY <1>3, <1>15, <1>14
  <2>2. T[f] = S[f]
    BY <1>3, <1>15
  <2>3. \A a \in ToSet(T[f]) : d1[a] = disk[a]
    BY <1>10, <2>2
  <2>4. PICK F, e : /\ Goes("write", u, d1, y, u, e)
                    /\ Sound(u, e, F, T, L)
                    /\ \A x \in DOMAIN E : E[x].dir /\ Headed(d1, T[x]) => Headed(e, T[x])
                    /\ DOMAIN F = DOMAIN E /\ \A x \in DOMAIN E : x # q => F[x] = E[x]
                    /\ F[q].size = end /\ F[q].first = E[q].first /\ F[q].dir = E[q].dir
                    /\ \A a \in Areas : a \notin ToSet(T[f]) => e[a] = d1[a]
    <3>1. /\ disk \in DiskType /\ u \in TableType /\ d1 \in DiskType /\ Sound(u, d1, E, T, L)
          /\ q \in DOMAIN E /\ q # <<>> /\ ~E[q].dir /\ f = Front(q) /\ k \in 1 .. Len(L[f]) /\ L[f][k] = Last(q)
          /\ end \in Nat /\ v = [E[q] EXCEPT !.size = end]
      BY <1>5, <1>15
    <3> QED
      BY ONLY <1>11, <2>3, <3>1, SizeGoes, SMTT(60)
  <2> DEFINE x == (before \o w) \o save
  <2>11. writes = x \o last
    OBVIOUS
  <2>5. Goes("write", fat, disk, writes, u, e)
    <3>1. Goes("write", fat, disk, x, u, d1)
      BY <1>7
    <3> HIDE DEF x, y
    <3>2. Goes("write", fat, disk, x \o y, u, e)
      BY ONLY <2>4, <3>1, GoesOn
    <3> QED
      BY <2>1, <2>11, <3>2
  <2>6. writes # <<>>
    <3>1. x \in Seq(WriteType) /\ y \in Seq(WriteType)
      BY <1>7, <2>4 DEF Goes
    <3>2. Len(y) = 1
      OBVIOUS
    <3> HIDE DEF x, y
    <3>3. x \o y # <<>>
      BY <3>1, <3>2, ConcatNotEmpty
    <3> QED
      BY <2>1, <2>11, <3>3
  <2>7. AllHeaded(e, F, T)
    <3> SUFFICES ASSUME NEW z \in DOMAIN F, F[z].dir PROVE Headed(e, T[z])
      BY DEF AllHeaded
    <3>1. E[z].dir /\ z \in DOMAIN E
      BY <2>4
    <3>2. Headed(d1, T[z])
      BY <1>9, <3>1 DEF AllHeaded
    <3> QED
      BY <2>4, <3>1, <3>2
  <2>8. FreeBlank(u, e)
    <3>1. \A c \in FreeIn(u) : e[c] = BlankCluster
      BY <1>8, <2>2, <2>4
    <3> QED
      BY <3>1 DEF FreeBlank
  <2>9. Settles(u, e, F, T, L)
    BY <2>4, <2>7, <2>8 DEF Settles
  <2>12. \A a \in Areas : a \notin ToSet(S[f]) => e[a] = DiskAfter(disk, w, Len(w))[a]
    BY <1>5, <2>2, <2>4
  <2>13. /\ \A p \in DOMAIN E : p # q => T[p] = S[p]
         /\ T[q] = IF new = <<>> THEN S[q] ELSE Append(S[q], Last(new))
    BY <1>15
  <2>14. /\ DOMAIN F = DOMAIN E /\ \A p \in DOMAIN E : p # q => F[p] = E[p]
         /\ F[q].size = IF end = size THEN E[q].size ELSE end
         /\ F[q].first = E[q].first /\ F[q].dir = E[q].dir
    BY <1>14, <2>4
  <2> HIDE DEF x, y
  <2>10. \E G, X, z :
          /\ Goes("write", fat, disk, writes, u, z) /\ Settles(u, z, G, X, L)
          /\ DOMAIN G = DOMAIN E /\ \A p \in DOMAIN E : p # q => G[p] = E[p]
          /\ G[q].first = E[q].first /\ G[q].dir = E[q].dir
          /\ G[q].size = IF end = size THEN E[q].size ELSE end
          /\ SmallWrites /\ AllOwned(t, S) => AllOwned(u, X)
          /\ \A p \in DOMAIN E : p # q => X[p] = S[p]
          /\ X[q] = IF new = <<>> THEN S[q] ELSE Append(S[q], Last(new))
          /\ \A a \in Areas : a \notin ToSet(S[f]) => z[a] = DiskAfter(disk, w, Len(w))[a]
    BY ONLY <1>12, <2>5, <2>9, <2>12, <2>13, <2>14
  <2> QED
    BY <2>6, <2>10 DEF Wrote
<1> QED
  BY <1>13, <1>14
===============================================================================
