------------------------------ MODULE Induction ------------------------------
(***************************************************************************)
(* Induction over the natural numbers and over the elements of a sequence. *)
(* A rule for all properties P has an operator as its parameter; here it   *)
(* is a constant of the module, and a module that needs the rule for its   *)
(* own operators takes an instance with them.  The first argument of the   *)
(* operators is for whatever else they depend on.                          *)
(***************************************************************************)
EXTENDS Integers, SequencesExt, FiniteSetTheorems, WellFoundedInduction, TLAPS

CONSTANTS
  Op(_, _, _),   (* the step of a fold: what it depends on, what has been   *)
                 (* accumulated and the next element                        *)
  P(_, _, _)     (* the property: what it depends on, the number of steps   *)
                 (* and what has been accumulated by then                   *)

(* A set of numbers has a smallest element.                                *)
LEMMA Least ==
  ASSUME NEW S, S \subseteq Nat, S # {}
  PROVE  \E m \in S : \A k \in S : m <= k
<1>1. \E m \in S : \A k \in S : ~(<<k, m>> \in OpToRel(<, Nat))
  BY NatLessThanWellFounded, WFMin
<1>2. PICK m \in S : \A k \in S : ~(<<k, m>> \in OpToRel(<, Nat))
  BY <1>1
<1>3. ASSUME NEW k \in S, k < m PROVE <<k, m>> \in OpToRel(<, Nat)
  BY <1>3, SMT DEF OpToRel
<1>4. \A k \in S : k \in Nat /\ m \in Nat /\ ~(k < m)
  BY <1>2, <1>3
<1> QED
  BY <1>4

(* A property of 0 that each number hands on to the next one up to n holds *)
(* of n.                                                                   *)
THEOREM Steps ==
  ASSUME NEW c, NEW v, NEW n \in Nat,
         P(c, 0, v[0]),
         \A k \in 0 .. n - 1 : P(c, k, v[k]) => P(c, k + 1, v[k + 1])
  PROVE  \A k \in 0 .. n : P(c, k, v[k])
<1> DEFINE S == {k \in 0 .. n : ~P(c, k, v[k])}
<1>1. SUFFICES ASSUME S # {} PROVE FALSE
  OBVIOUS
<1>0. S \subseteq Nat /\ S \subseteq 0 .. n
  OBVIOUS
<1>2. PICK m \in S : \A k \in S : m <= k
  <2> HIDE DEF S
  <2> QED
    BY <1>0, <1>1, Least
<1>3. m # 0 /\ m - 1 \in 0 .. n - 1 /\ m - 1 \notin S
  <2>1. m # 0
    OBVIOUS
  <2>2. m \in 0 .. n /\ m - 1 \notin S
    <3> HIDE DEF S
    <3> QED
      BY <1>0, <1>2
  <2> QED
    BY <2>1, <2>2
<1>4. P(c, m - 1, v[m - 1]) /\ (m - 1) + 1 = m
  BY <1>2, <1>3
<1> QED
  BY <1>3, <1>4

-----------------------------------------------------------------------------
(* The function of subsets of the positions that FoldLeft is defined by,   *)
(* on the sets of D.                                                       *)
Defines(it, c, base, seq, D) ==
  it = [s \in D |-> IF s = {} THEN base ELSE Op(c, it[s \ {Max(s)}], seq[Max(s)])]

Fold(c, base, seq) == FoldLeft(LAMBDA a, x : Op(c, a, x), base, seq)

LEMMA FoldIs ==
  ASSUME NEW c, NEW base, NEW seq
  PROVE  Fold(c, base, seq) = (CHOOSE it : Defines(it, c, base, seq, SUBSET DOMAIN seq))[DOMAIN seq]
BY DEF Fold, FoldLeft, MapThenFoldSet, Defines

LEMMA MaxFacts ==
  ASSUME NEW n \in Nat, NEW S, S \subseteq 1 .. n, S # {}
  PROVE  Max(S) \in S /\ \A k \in S : k <= Max(S)
<1> DEFINE T == {n - k : k \in S}
<1>1. T \subseteq Nat /\ T # {}
  <2>1. \A k \in S : n - k \in Nat
    OBVIOUS
  <2> QED
    BY <2>1
<1>2. PICK m \in T : \A k \in T : m <= k
  <2> HIDE DEF T
  <2> QED
    BY <1>1, Least
<1>3. PICK x \in S : m = n - x
  BY <1>2
<1>4. \A k \in S : k <= x
  <2> TAKE k \in S
  <2>1. n - x <= n - k
    BY <1>2, <1>3
  <2> QED
    BY <2>1
<1>5. \E y \in S : \A k \in S : y >= k
  BY <1>4
<1> QED
  BY <1>5 DEF Max

(* There is such a function for the positions up to n.                     *)
LEMMA Defined ==
  ASSUME NEW c, NEW base, NEW seq, NEW n \in Nat
  PROVE  \E it : Defines(it, c, base, seq, SUBSET (1 .. n))
<1> DEFINE Some(k) == \E it : Defines(it, c, base, seq, SUBSET (1 .. k))
           S == {k \in 0 .. n : ~Some(k)}
<1>1. SUFFICES ASSUME S # {} PROVE FALSE
  OBVIOUS
<1>0. S \subseteq Nat /\ S \subseteq 0 .. n
  <2> HIDE DEF Some
  <2> QED
    OBVIOUS
<1>2. PICK m \in S : \A k \in S : m <= k
  <2> HIDE DEF S
  <2> QED
    BY <1>0, <1>1, Least
<1>3. m # 0
  <2>1. SUBSET (1 .. 0) = {{}}
    OBVIOUS
  <2> DEFINE it == [s \in SUBSET (1 .. 0) |-> base]
  <2>2. Defines(it, c, base, seq, SUBSET (1 .. 0))
    BY <2>1 DEF Defines
  <2> QED
    BY <2>2
<1>4. Some(m - 1) /\ m \in Nat /\ m - 1 \in Nat /\ m <= n
  <2>1. m \in 0 .. n /\ m - 1 \notin S /\ m - 1 \in 0 .. n
    <3> HIDE DEF S
    <3> QED
      BY <1>0, <1>2, <1>3
  <2> HIDE DEF Some
  <2> QED
    BY <2>1
<1>5. PICK f : Defines(f, c, base, seq, SUBSET (1 .. m - 1))
  BY <1>4
<1> DEFINE g == [s \in SUBSET (1 .. m) |-> IF s = {} THEN base ELSE Op(c, f[s \ {Max(s)}], seq[Max(s)])]
<1>6. ASSUME NEW s \in SUBSET (1 .. m), s # {}
      PROVE  s \ {Max(s)} \in SUBSET (1 .. m - 1)
  <2>1. Max(s) \in 1 .. m /\ \A k \in s : k <= Max(s)
    BY <1>4, <1>6, MaxFacts
  <2>2. m \in Nat
    BY <1>4
  <2> HIDE DEF S
  <2>3. ASSUME NEW k \in s, k # Max(s)
        PROVE  k \in 1 .. m - 1
    BY <2>1, <2>2, <2>3
  <2> QED
    BY <2>3
<1>7. ASSUME NEW s \in SUBSET (1 .. m - 1)
      PROVE  g[s] = f[s]
  <2>1. s \in SUBSET (1 .. m)
    BY <1>4
  <2> QED
    BY <2>1, <1>5 DEF Defines
<1>8. Defines(g, c, base, seq, SUBSET (1 .. m))
  BY <1>6, <1>7 DEF Defines
<1> QED
  BY <1>8, <1>2

(* What has been accumulated after each of the steps of a fold.            *)
THEOREM Unfolded ==
  ASSUME NEW c, NEW base, NEW seq, NEW n \in Nat, DOMAIN seq = 1 .. n
  PROVE  \E v : /\ v[0] = base /\ v[n] = Fold(c, base, seq)
                /\ \A k \in 0 .. n - 1 : v[k + 1] = Op(c, v[k], seq[k + 1])
<1> DEFINE it == CHOOSE f : Defines(f, c, base, seq, SUBSET (1 .. n))
           v == [k \in 0 .. n |-> it[1 .. k]]
<1>1. Defines(it, c, base, seq, SUBSET (1 .. n))
  BY Defined
<1> HIDE DEF it
<1>2. v[0] = base
  BY <1>1 DEF Defines
<1>3. ASSUME NEW k \in 0 .. n - 1
      PROVE  v[k + 1] = Op(c, v[k], seq[k + 1])
  <2>1. 1 .. k + 1 \in SUBSET (1 .. n) /\ 1 .. k + 1 # {} /\ k + 1 \in 0 .. n /\ k \in 0 .. n
          /\ k + 1 \in Nat
    <3>1. k \in Nat /\ k + 1 \in Nat /\ k + 1 \in 1 .. k + 1 /\ k + 1 \in 0 .. n /\ k \in 0 .. n
      OBVIOUS
    <3>2. \A j \in 1 .. k + 1 : j \in 1 .. n
      BY <3>1
    <3>3. 1 .. k + 1 \in SUBSET (1 .. n)
      BY <3>2
    <3>4. 1 .. k + 1 # {}
      BY <3>1
    <3> QED
      BY <3>1, <3>3, <3>4
  <2>2. Max(1 .. k + 1) \in 1 .. k + 1 /\ \A j \in 1 .. k + 1 : j <= Max(1 .. k + 1)
    BY <2>1, MaxFacts
  <2>3. Max(1 .. k + 1) = k + 1 /\ (1 .. k + 1) \ {k + 1} = 1 .. k
    BY <2>2
  <2>4. it[1 .. k + 1] = Op(c, it[1 .. k], seq[k + 1])
    BY <1>1, <2>1, <2>3 DEF Defines
  <2> QED
    BY <2>1, <2>4
<1>5. v[n] = it[1 .. n]
  OBVIOUS
<1>6. Fold(c, base, seq) = it[1 .. n]
  BY FoldIs DEF it
<1> HIDE DEF v
<1> QED
  BY <1>2, <1>3, <1>5, <1>6

(* What holds of the base and is kept by every step holds of the fold.     *)
THEOREM Folded ==
  ASSUME NEW c, NEW base, NEW seq, NEW n \in Nat, DOMAIN seq = 1 .. n,
         P(c, 0, base),
         \A k \in 0 .. n - 1 : \A a : P(c, k, a) => P(c, k + 1, Op(c, a, seq[k + 1]))
  PROVE  P(c, n, Fold(c, base, seq))
<1>1. PICK v : /\ v[0] = base /\ v[n] = Fold(c, base, seq)
              /\ \A k \in 0 .. n - 1 : v[k + 1] = Op(c, v[k], seq[k + 1])
  BY Unfolded
<1>2. \A k \in 0 .. n : P(c, k, v[k])
  BY <1>1, Steps
<1> QED
  BY <1>1, <1>2
=============================================================================
