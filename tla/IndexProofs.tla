---------------------------- MODULE IndexProofs ----------------------------
(***************************************************************************)
(* Proofs about the two parts that keep a summary up to date by the        *)
(* differences that events make, each for every value of its constants:    *)
(* the monitor of the generator (Monitor), whose status is a sum, and the  *)
(* index of label sets (SetIndex), whose maps answer queries.              *)
(***************************************************************************)
EXTENDS PartsProofs

-----------------------------------------------------------------------------
(***************************************************************************)
(* Sums over finite sets.  SumFunction is a recursion over sets that takes *)
(* out one element after the other; that it is defined, and does not       *)
(* depend on which element it takes, is shown by least counterexamples.    *)
(***************************************************************************)
(* Every set of natural numbers that is not empty has a least element. *)
Below == {p \in Nat \X Nat : p[1] < p[2]}

LEMMA BelowWF == IsWellFoundedOn(Below, Nat)
  BY NatLessThanWellFounded DEF OpToRel, Below

LEMMA LeastNumber == ASSUME NEW T, T \subseteq Nat, T # {} PROVE \E x \in T : \A y \in T : x <= y
<1>1. PICK x \in T : \A y \in T : ~(<<y, x>> \in Below)
  BY BelowWF, WFMin
<1>2. \A y \in T : ~(y < x)
  BY <1>1 DEF Below
<1> QED
  BY <1>2

(* The recursion of SumFunction. *)
Pick(s) == CHOOSE x \in s : TRUE
Step(w, g, s) == IF s = {} THEN 0 ELSE w[Pick(s)] + g[s \ {Pick(s)}]
Summed(w) == CHOOSE g : g = [s \in SUBSET DOMAIN w |-> Step(w, g, s)]

LEMMA SumUnfolded == ASSUME NEW w PROVE SumFunction(w) = Summed(w)[DOMAIN w]
  BY DEF SumFunction, SumFunctionOnSet, FoldFunctionOnSet, MapThenFoldSet, Summed, Step, Pick

LEMMA Picked == ASSUME NEW S, IsFiniteSet(S), NEW s \in SUBSET S, s # {}, NEW x \in s
    PROVE  /\ Pick(s) \in s /\ s \ {x} \in SUBSET S /\ IsFiniteSet(s)
           /\ Cardinality(s) \in Nat /\ Cardinality(s) > 0 /\ Cardinality(s \ {x}) = Cardinality(s) - 1
<1>1. IsFiniteSet(s)
  BY FS_Subset
<1>2. Cardinality(s) \in Nat /\ Cardinality(s \ {x}) = Cardinality(s) - 1 /\ IsFiniteSet(s \ {x})
  BY <1>1, FS_RemoveElement, FS_CardinalityType
<1>3. Cardinality(s \ {x}) \in Nat
  BY <1>2, FS_CardinalityType
<1> QED
  BY <1>1, <1>2, <1>3 DEF Pick

LEMMA SumDefined ==
    ASSUME NEW w, IsFiniteSet(DOMAIN w)
    PROVE  Summed(w) = [s \in SUBSET DOMAIN w |-> Step(w, Summed(w), s)]
<1> DEFINE S == DOMAIN w
           Cut(g, n) == [s \in SUBSET S |-> IF Cardinality(s) <= n THEN Step(w, g, s) ELSE 0]
           Bad == {n \in Nat : ~\E g : g = Cut(g, n)}
<1>0. \A s \in SUBSET S : Cardinality(s) \in Nat
  BY FS_Subset, FS_CardinalityType
<1>1. Bad = {}
  <2> SUFFICES ASSUME Bad # {} PROVE FALSE
    OBVIOUS
  <2>1. PICK n \in Bad : \A m \in Bad : n <= m
    BY LeastNumber
  <2>2. n # 0
    <3> DEFINE z == [s \in SUBSET S |-> 0]
    <3>1. ASSUME NEW s \in SUBSET S, Cardinality(s) <= 0 PROVE s = {}
      <4> SUFFICES ASSUME NEW x \in s PROVE FALSE
        OBVIOUS
      <4>1. Cardinality(s) > 0
        BY Picked
      <4> QED
        BY <4>1, <3>1, <1>0
    <3>2. z = Cut(z, 0)
      BY <3>1, <1>0 DEF Step
    <3>3. ~\E f : f = Cut(f, n)
      BY <2>1
    <3> HIDE DEF z, Cut
    <3> QED
      BY <3>2, <3>3
  <2>3. PICK g : g = Cut(g, n - 1)
    <3>1. n - 1 \in Nat /\ ~(n <= n - 1)
      BY <2>1, <2>2
    <3> QED
      BY <3>1, <2>1
  <2> DEFINE h == Cut(g, n)
  <2>4. ASSUME NEW s \in SUBSET S, Cardinality(s) <= n PROVE Step(w, g, s) = Step(w, h, s)
    <3>1. CASE s = {}
      BY <3>1 DEF Step
    <3>2. CASE s # {}
      <4>1. PICK t \in SUBSET S : t = s \ {Pick(s)} /\ Cardinality(t) = Cardinality(s) - 1
        BY <3>2, Picked DEF Pick
      <4>2. Cardinality(t) <= n - 1 /\ Cardinality(t) <= n
        BY <4>1, <2>4, <2>1, <1>0
      <4>3. g[t] = Step(w, g, t)
        BY <4>2, <2>3
      <4>4. h[t] = Step(w, g, t)
        BY <4>2
      <4> QED
        BY <4>1, <4>3, <4>4, <3>2 DEF Step
    <3> QED
      BY <3>1, <3>2
  <2>5. h = Cut(h, n)
    BY <2>4
  <2> QED
    BY <2>5, <2>1
<1>2. PICK n \in Nat : n = Cardinality(S)
  BY <1>0
<1>3. \A s \in SUBSET S : Cardinality(s) <= n
  BY <1>2, FS_Subset
<1>4. PICK g : g = Cut(g, n)
  BY <1>1
<1>5. g = [s \in SUBSET S |-> Step(w, g, s)]
  BY <1>3, <1>4
<1> QED
  BY <1>5 DEF Summed

(* The sum over a set does not depend on which element is taken first. *)
LEMMA SumAny ==
    ASSUME NEW w, IsFiniteSet(DOMAIN w), \A x \in DOMAIN w : w[x] \in Int
    PROVE  \A s \in SUBSET DOMAIN w : /\ Summed(w)[s] \in Int
                                      /\ \A x \in s : Summed(w)[s] = w[x] + Summed(w)[s \ {x}]
<1> DEFINE S == DOMAIN w
           g == Summed(w)
           Good(s) == g[s] \in Int /\ \A x \in s : g[s] = w[x] + g[s \ {x}]
           Bad == {s \in SUBSET S : ~Good(s)}
           Sizes == {Cardinality(s) : s \in Bad}
<1>0. \A s \in SUBSET S : Cardinality(s) \in Nat
  BY FS_Subset, FS_CardinalityType
<1>1. \A s \in SUBSET S : g[s] = Step(w, g, s)
  BY SumDefined
<1> SUFFICES ASSUME Bad # {} PROVE FALSE
  OBVIOUS
<1>2. PICK k \in Sizes : \A j \in Sizes : k <= j
  <2>1. Sizes \subseteq Nat /\ Sizes # {}
    BY <1>0
  <2> HIDE DEF Sizes
  <2> QED
    BY <2>1, LeastNumber
<1>3. PICK s \in Bad : k = Cardinality(s)
  BY <1>2
<1>4. \A t \in SUBSET S : Cardinality(t) < Cardinality(s) => Good(t)
  <2> SUFFICES ASSUME NEW t \in SUBSET S, Cardinality(t) < Cardinality(s), ~Good(t) PROVE FALSE
    OBVIOUS
  <2>0. s \in SUBSET S
    OBVIOUS
  <2>1. Cardinality(t) \in Sizes
    OBVIOUS
  <2> HIDE DEF Sizes, Bad, Good
  <2>2. Cardinality(s) <= Cardinality(t)
    <3>1. k <= Cardinality(t)
      BY <2>1, <1>2
    <3> QED
      BY <3>1, <1>3
  <2>3. Cardinality(s) \in Nat /\ Cardinality(t) \in Nat
    BY <2>0, <1>0
  <2> QED
    BY <2>2, <2>3
<1>5. CASE s = {}
  <2>1. g[s] = 0
    BY <1>1, <1>5 DEF Step
  <2>2. Good(s)
    BY <2>1, <1>5
  <2> QED
    BY <2>2
<1>6. CASE s # {}
  <2>0. s \in SUBSET S /\ ~Good(s)
    OBVIOUS
  <2> HIDE DEF Sizes, Bad
  <2>1. PICK p \in s : p = Pick(s)
    BY <1>6 DEF Pick
  <2>2. \A x \in s : s \ {x} \in SUBSET S /\ Cardinality(s \ {x}) < Cardinality(s)
    BY <2>0, <1>6, Picked, <1>0
  <2>3. g[s] = w[p] + g[s \ {p}]
    BY <2>0, <2>1, <1>1, <1>6 DEF Step
  <2>4. \A x \in s : w[x] \in Int /\ g[s \ {x}] \in Int
    BY <2>0, <2>2, <1>4
  <2> HIDE DEF g
  <2>5. g[s] \in Int
    BY <2>3, <2>4
  <2>6. ASSUME NEW x \in s PROVE g[s] = w[x] + g[s \ {x}]
    <3>1. CASE x = p
      BY <3>1, <2>3
    <3>2. CASE x # p
      <4>1. PICK r : r = (s \ {p}) \ {x} /\ r = (s \ {x}) \ {p}
        OBVIOUS
      <4>2. g[s \ {p}] = w[x] + g[r]
        <5>1. Good(s \ {p}) /\ x \in s \ {p}
          BY <3>2, <2>2, <1>4
        <5> QED
          BY <5>1, <4>1
      <4>3. g[s \ {x}] = w[p] + g[r]
        <5>1. Good(s \ {x}) /\ p \in s \ {x}
          BY <3>2, <2>2, <1>4
        <5> QED
          BY <5>1, <4>1
      <4>4. g[r] \in Int
        <5>1. r \in SUBSET S /\ Cardinality(r) < Cardinality(s)
          <6>1. s \ {p} \in SUBSET S /\ s \ {p} # {} /\ x \in s \ {p}
            BY <3>2, <2>0
          <6>2. r \in SUBSET S /\ Cardinality(r) = Cardinality(s \ {p}) - 1
            <7> DEFINE u == s \ {p}
            <7>1. u \in SUBSET S /\ u # {} /\ x \in u /\ r = u \ {x}
              BY <6>1, <4>1
            <7> HIDE DEF u
            <7>2. r \in SUBSET S /\ Cardinality(r) = Cardinality(u) - 1
              BY <7>1, Picked
            <7> QED
              BY <7>2 DEF u
          <6>3. Cardinality(s \ {p}) \in Nat /\ Cardinality(s) \in Nat /\ Cardinality(s \ {p}) < Cardinality(s)
            BY <6>1, <2>0, <2>2, <1>0
          <6> QED
            BY <6>2, <6>3
        <5> QED
          BY <5>1, <1>4
      <4> QED
        <5>1. w[x] \in Int /\ w[p] \in Int
          BY <2>4
        <5> HIDE DEF Good
        <5> QED
          BY <4>2, <4>3, <4>4, <2>3, <5>1
    <3> QED
      BY <3>1, <3>2
  <2> QED
    BY <2>0, <2>5, <2>6
<1> QED
  BY <1>5, <1>6

Ints(w) == IsFiniteSet(DOMAIN w) /\ \A x \in DOMAIN w : w[x] \in Int

Less(w, x) == [y \in DOMAIN w \ {x} |-> w[y]]

(* Nor on the elements outside the set. *)
LEMMA SumLocal ==
    ASSUME NEW v, NEW w, Ints(v), Ints(w), DOMAIN v \subseteq DOMAIN w, \A x \in DOMAIN v : v[x] = w[x]
    PROVE  Summed(v)[DOMAIN v] = Summed(w)[DOMAIN v]
<1> DEFINE S == DOMAIN v
           f == Summed(v)
           g == Summed(w)
           Bad == {s \in SUBSET S : f[s] # g[s]}
           Sizes == {Cardinality(s) : s \in Bad}
<1>0. \A s \in SUBSET S : Cardinality(s) \in Nat
  BY FS_Subset, FS_CardinalityType DEF Ints
<1>1. \A s \in SUBSET S : \A x \in s : f[s] = v[x] + f[s \ {x}]
  BY SumAny DEF Ints
<1>2. \A s \in SUBSET S : \A x \in s : g[s] = w[x] + g[s \ {x}]
  <2>1. \A s \in SUBSET DOMAIN w : \A x \in s : g[s] = w[x] + g[s \ {x}]
    BY SumAny DEF Ints
  <2> HIDE DEF g
  <2> QED
    BY <2>1
<1>3. f[{}] = 0 /\ g[{}] = 0
  BY SumDefined DEF Step, Ints
<1> HIDE DEF f, g
<1> SUFFICES ASSUME Bad # {} PROVE FALSE
  BY DEF f, g
<1>4. PICK k \in Sizes : \A j \in Sizes : k <= j
  <2>1. Sizes \subseteq Nat /\ Sizes # {}
    BY <1>0
  <2> HIDE DEF Sizes
  <2> QED
    BY <2>1, LeastNumber
<1>5. PICK s \in Bad : k = Cardinality(s)
  BY <1>4
<1>6. PICK x : x \in s
  BY <1>5, <1>3
<1>7. s \ {x} \in SUBSET S /\ Cardinality(s \ {x}) < Cardinality(s)
  <2>1. s \in SUBSET S /\ s # {} /\ IsFiniteSet(S)
    BY <1>5, <1>6 DEF Ints
  <2>2. s \ {x} \in SUBSET S /\ Cardinality(s) \in Nat /\ Cardinality(s \ {x}) = Cardinality(s) - 1
    BY <2>1, <1>6, Picked
  <2> QED
    BY <2>2
<1>8. f[s \ {x}] = g[s \ {x}]
  <2> SUFFICES ASSUME s \ {x} \in Bad PROVE FALSE
    BY <1>7
  <2>1. Cardinality(s \ {x}) \in Sizes
    OBVIOUS
  <2> HIDE DEF Sizes, Bad
  <2>2. Cardinality(s) <= Cardinality(s \ {x})
    BY <2>1, <1>4, <1>5
  <2>3. Cardinality(s) \in Nat /\ Cardinality(s \ {x}) \in Nat
    BY <1>0, <1>5, <1>7 DEF Bad
  <2> QED
    BY <2>2, <2>3, <1>7
<1>9. f[s] = v[x] + f[s \ {x}] /\ g[s] = w[x] + g[s \ {x}] /\ v[x] = w[x]
  BY <1>1, <1>2, <1>5, <1>6
<1> QED
  BY <1>5, <1>8, <1>9

(* A sum is taken apart at any of its elements. *)
LEMMA SumOne ==
    ASSUME NEW w, Ints(w), NEW x \in DOMAIN w
    PROVE  /\ SumFunction(w) = w[x] + SumFunction(Less(w, x))
           /\ Ints(Less(w, x)) /\ SumFunction(Less(w, x)) \in Int
<1> DEFINE v == Less(w, x)
<1>1. DOMAIN v = DOMAIN w \ {x} /\ \A y \in DOMAIN v : v[y] = w[y]
  BY DEF Less
<1>2. Ints(v)
  <2>1. IsFiniteSet(DOMAIN v)
    BY <1>1, FS_RemoveElement DEF Ints
  <2> QED
    BY <2>1, <1>1 DEF Ints
<1> HIDE DEF v
<1>3. Summed(v)[DOMAIN v] = Summed(w)[DOMAIN v]
  BY <1>1, <1>2, SumLocal
<1>4. Summed(w)[DOMAIN w] = w[x] + Summed(w)[DOMAIN w \ {x}]
  <2>1. \A s \in SUBSET DOMAIN w : \A y \in s : Summed(w)[s] = w[y] + Summed(w)[s \ {y}]
    BY SumAny DEF Ints
  <2>2. DOMAIN w \in SUBSET DOMAIN w
    OBVIOUS
  <2> QED
    BY <2>1, <2>2, Zenon
<1>5. Summed(v)[DOMAIN v] \in Int
  BY SumAny, <1>2 DEF Ints
<1>6. SumFunction(w) = w[x] + SumFunction(v) /\ SumFunction(v) \in Int
  BY <1>1, <1>3, <1>4, <1>5, SumUnfolded
<1> QED
  BY <1>2, <1>6 DEF v

LEMMA SumInt == ASSUME NEW w, Ints(w) PROVE SumFunction(w) \in Int
  BY SumAny, SumUnfolded DEF Ints

LEMMA SumEmpty == ASSUME NEW w, DOMAIN w = {} PROVE SumFunction(w) = 0
<1>1. Ints(w)
  BY FS_EmptySet DEF Ints
<1>2. Summed(w)[{}] = 0
  BY <1>1, SumDefined DEF Step, Ints
<1> QED
  BY <1>2, SumUnfolded

(* Sums are compared element by element. *)
LEMMA SumAtMost ==
    ASSUME NEW v, NEW w, Ints(v), Ints(w), DOMAIN v = DOMAIN w, NEW c \in Int, \A x \in DOMAIN v : v[x] <= c * w[x]
    PROVE  SumFunction(v) <= c * SumFunction(w)
<1> DEFINE S == DOMAIN v
           f == Summed(v)
           g == Summed(w)
           Bad == {s \in SUBSET S : ~(f[s] <= c * g[s])}
           Sizes == {Cardinality(s) : s \in Bad}
<1>0. \A s \in SUBSET S : Cardinality(s) \in Nat
  BY FS_Subset, FS_CardinalityType DEF Ints
<1>1. \A s \in SUBSET S : f[s] \in Int /\ \A x \in s : f[s] = v[x] + f[s \ {x}]
  BY SumAny DEF Ints
<1>2. \A s \in SUBSET S : g[s] \in Int /\ \A x \in s : g[s] = w[x] + g[s \ {x}]
  BY SumAny DEF Ints
<1>3. f[{}] = 0 /\ g[{}] = 0
  BY SumDefined DEF Step, Ints
<1>a. SumFunction(v) = f[S] /\ SumFunction(w) = g[S]
  BY SumUnfolded
<1> HIDE DEF f, g
<1> SUFFICES ASSUME Bad # {} PROVE FALSE
  BY <1>a
<1>4. PICK k \in Sizes : \A j \in Sizes : k <= j
  <2>1. Sizes \subseteq Nat /\ Sizes # {}
    BY <1>0
  <2> HIDE DEF Sizes
  <2> QED
    BY <2>1, LeastNumber
<1>5. PICK s \in Bad : k = Cardinality(s)
  BY <1>4
<1>b. c * 0 = 0
  OBVIOUS
<1>6. PICK x : x \in s
  <2> SUFFICES ASSUME s = {} PROVE FALSE
    OBVIOUS
  <2>1. ~(f[{}] <= c * g[{}])
    BY <1>5
  <2> QED
    BY <2>1, <1>3, <1>b
<1>7. s \ {x} \in SUBSET S /\ Cardinality(s \ {x}) < Cardinality(s)
  <2>1. s \in SUBSET S /\ s # {} /\ IsFiniteSet(S)
    BY <1>5, <1>6 DEF Ints
  <2>2. s \ {x} \in SUBSET S /\ Cardinality(s) \in Nat /\ Cardinality(s \ {x}) = Cardinality(s) - 1
    BY <2>1, <1>6, Picked
  <2> QED
    BY <2>2
<1>8. f[s \ {x}] <= c * g[s \ {x}]
  <2> SUFFICES ASSUME s \ {x} \in Bad PROVE FALSE
    BY <1>7
  <2>1. Cardinality(s \ {x}) \in Sizes
    OBVIOUS
  <2> HIDE DEF Sizes, Bad
  <2>2. Cardinality(s) <= Cardinality(s \ {x})
    BY <2>1, <1>4, <1>5
  <2>3. Cardinality(s) \in Nat /\ Cardinality(s \ {x}) \in Nat
    BY <1>0, <1>5, <1>7 DEF Bad
  <2> QED
    BY <2>2, <2>3, <1>7
<1>9. f[s] = v[x] + f[s \ {x}] /\ g[s] = w[x] + g[s \ {x}] /\ v[x] <= c * w[x]
  BY <1>1, <1>2, <1>5, <1>6
<1>10. f[s \ {x}] \in Int /\ g[s \ {x}] \in Int /\ v[x] \in Int /\ w[x] \in Int
  BY <1>1, <1>2, <1>5, <1>6, <1>7 DEF Ints
<1>11. PICK a \in Int, b \in Int, d \in Int, e \in Int : a = f[s \ {x}] /\ b = g[s \ {x}] /\ d = v[x] /\ e = w[x]
  BY <1>10
<1>12. c * (e + b) = c * e + c * b
  OBVIOUS
<1>13. f[s] = d + a /\ g[s] = e + b /\ d <= c * e /\ a <= c * b
  BY <1>8, <1>9, <1>11
<1>14. d + a <= c * (e + b)
  BY <1>12, <1>13
<1> QED
  BY <1>5, <1>13, <1>14

LEMMA SumNat ==
    ASSUME NEW w, IsFiniteSet(DOMAIN w), \A x \in DOMAIN w : w[x] \in Nat
    PROVE  SumFunction(w) \in Nat
<1>1. Ints(w)
  BY DEF Ints
<1>2. \A x \in DOMAIN w : w[x] <= 2 * w[x]
  OBVIOUS
<1>3. SumFunction(w) \in Int
  BY <1>1, SumInt
<1>4. SumFunction(w) <= 2 * SumFunction(w)
  BY <1>1, <1>2, SumAtMost
<1> QED
  BY <1>3, <1>4

-----------------------------------------------------------------------------
(***************************************************************************)
(* The monitor.  The quotient and the remainder of a division are unique,  *)
(* so that rounding up from half the divisor is rounding to nearest.       *)
(***************************************************************************)
LEMMA Division ==
    ASSUME NEW n \in Int, NEW d \in Nat, d > 0
    PROVE  n \div d \in Int /\ d * (n \div d) <= n /\ n < d * (n \div d) + d
  OBVIOUS

LEMMA QuotientUnique ==
    ASSUME NEW n \in Int, NEW d \in Nat, d > 0, NEW q \in Int, d * q <= n, n < d * q + d
    PROVE  n \div d = q
<1>1. PICK p \in Int : p = n \div d /\ d * p <= n /\ n < d * p + d
  BY Division
<1>2. ~(p < q)
  <2> SUFFICES ASSUME p < q PROVE FALSE
    OBVIOUS
  <2>1. d * (p + 1) <= d * q
    <3>1. PICK k \in Nat : q = p + 1 + k
      <4>1. q - p - 1 \in Nat /\ q = p + 1 + (q - p - 1)
        OBVIOUS
      <4> QED
        BY <4>1
    <3>2. d * (p + 1 + k) = d * (p + 1) + d * k
      OBVIOUS
    <3>3. d * k \in Nat /\ d * (p + 1) \in Int
      OBVIOUS
    <3> QED
      BY <3>1, <3>2, <3>3
  <2>2. d * (p + 1) = d * p + d
    OBVIOUS
  <2>3. d * p \in Int /\ d * q \in Int
    OBVIOUS
  <2> QED
    BY <2>1, <2>2, <2>3, <1>1
<1>3. ~(q < p)
  <2> SUFFICES ASSUME q < p PROVE FALSE
    OBVIOUS
  <2>1. d * (q + 1) <= d * p
    <3>1. PICK k \in Nat : p = q + 1 + k
      <4>1. p - q - 1 \in Nat /\ p = q + 1 + (p - q - 1)
        OBVIOUS
      <4> QED
        BY <4>1
    <3>2. d * (q + 1 + k) = d * (q + 1) + d * k
      OBVIOUS
    <3>3. d * k \in Nat /\ d * (q + 1) \in Int
      OBVIOUS
    <3> QED
      BY <3>1, <3>2, <3>3
  <2>2. d * (q + 1) = d * q + d
    OBVIOUS
  <2>3. d * p \in Int /\ d * q \in Int
    OBVIOUS
  <2> QED
    BY <2>1, <2>2, <2>3, <1>1
<1> QED
  BY <1>1, <1>2, <1>3

LEMMA Rounding ==
    ASSUME NEW n \in Nat, NEW d \in Nat, d > 0
    PROVE  Mon!RoundedIntDiv(n, d) = Mon!Nearest(n, d) /\ Mon!RoundedIntDiv(n, d) \in Nat
<1>1. PICK q \in Int : q = n \div d /\ d * q <= n /\ n < d * q + d
  BY Division
<1>2. PICK e \in Int : e = d * q
  OBVIOUS
<1>3. PICK r \in Nat : r = n - e /\ r < d
  BY <1>1, <1>2
<1>4. q \in Nat
  <2> SUFFICES ASSUME q <= -1 PROVE FALSE
    OBVIOUS
  <2>1. PICK k \in Nat : q = -1 - k
    <3>1. -1 - q \in Nat /\ q = -1 - (-1 - q)
      OBVIOUS
    <3> QED
      BY <3>1
  <2>2. d * (-1 - k) = -d - d * k /\ d * k \in Nat
    OBVIOUS
  <2>3. e + d <= 0
    BY <2>1, <2>2, <1>2
  <2> QED
    BY <2>3, <1>1, <1>2
<1>5. Mon!RoundedIntDiv(n, d) = IF n > 0 /\ r * 2 >= d THEN q + 1 ELSE q
  <2>1. Mon!Quo(n, d) = q /\ Mon!Rem(n, d) = r
    BY <1>1, <1>2, <1>3 DEF Mon!Quo, Mon!Rem
  <2> QED
    BY <2>1 DEF Mon!RoundedIntDiv
<1>6. (2 * d) * q = 2 * e /\ (2 * d) * (q + 1) = 2 * e + 2 * d
  <2>1. (2 * d) * q = 2 * (d * q)
    OBVIOUS
  <2>2. (2 * d) * (q + 1) = (2 * d) * q + 2 * d
    OBVIOUS
  <2> QED
    BY <2>1, <2>2, <1>2
<1> DEFINE b == 2 * d
           a == 2 * n + d
<1>7. b \in Nat /\ b > 0 /\ a \in Int /\ a = 2 * e + 2 * r + d
  BY <1>2, <1>3
<1>8. CASE r * 2 >= d
  <2>1. n > 0
    <3>1. e >= 0
      BY <1>2, <1>4
    <3> QED
      BY <3>1, <1>3, <1>8
  <2>2. b * (q + 1) <= a /\ a < b * (q + 1) + b
    BY <1>3, <1>6, <1>7, <1>8
  <2>3. a \div b = q + 1
    <3>1. q + 1 \in Int
      OBVIOUS
    <3> HIDE DEF a, b
    <3> QED
      BY <3>1, <2>2, <1>7, QuotientUnique
  <2> QED
    BY <2>1, <2>3, <1>4, <1>5, <1>8 DEF Mon!Nearest
<1>9. CASE ~(r * 2 >= d)
  <2>2. b * q <= a /\ a < b * q + b
    BY <1>3, <1>6, <1>7, <1>9
  <2>3. a \div b = q
    <3> HIDE DEF a, b
    <3> QED
      BY <2>2, <1>7, QuotientUnique
  <2> QED
    BY <2>3, <1>4, <1>5, <1>9 DEF Mon!Nearest
<1> QED
  BY <1>8, <1>9

LEMMA MinOfTwo == ASSUME NEW a \in Int, NEW b \in Int PROVE Mon!Min({a, b}) = IF a <= b THEN a ELSE b
<1>1. CASE a <= b
  <2>1. \A x \in {a, b} : (\A y \in {a, b} : x <= y) => x = a
    BY <1>1
  <2>2. a \in {a, b} /\ \A y \in {a, b} : a <= y
    BY <1>1
  <2> QED
    BY <2>1, <2>2, <1>1 DEF Mon!Min
<1>2. CASE ~(a <= b)
  <2>1. \A x \in {a, b} : (\A y \in {a, b} : x <= y) => x = b
    BY <1>2
  <2>2. b \in {a, b} /\ \A y \in {a, b} : b <= y
    BY <1>2
  <2> QED
    BY <2>1, <2>2, <1>2 DEF Mon!Min
<1> QED
  BY <1>1, <1>2

(* The status of one PodProtector. *)
LEMMA OneStatus ==
    ASSUME NEW p \in Mon!Protector, NEW s, s = Mon!PprToStatus(p)
    PROVE  /\ s = Mon!Ideal(p)
           /\ s \in [Mon!Fields -> Nat]
           /\ s.nonZero <= s.workloads /\ s.meets <= s.workloads
           /\ s.ppm <= ProportionPpmUnits * s.nonZero
<1> DEFINE U == ProportionPpmUnits
<1>1. p.minAvailable \in Nat /\ p.aggregated \in Nat /\ U \in Nat /\ U > 0
  <2>1. p.minAvailable \in Amounts /\ p.aggregated \in Amounts
    BY DEF Mon!Protector
  <2>2. U \in Nat /\ U > 0
    BY MonitorAssumption
  <2>3. \A x \in Amounts : x \in Nat
    BY MonitorAssumption
  <2> QED
    BY <2>1, <2>2, <2>3
<1>2. p.aggregated * U \in Nat
  BY <1>1
<1>3. PICK ppm : ppm = Mon!Proportion(p.aggregated, p.minAvailable)
  OBVIOUS
<1>4. CASE p.minAvailable > 0
  <2>1. PICK q \in Nat : q = Mon!RoundedIntDiv(p.aggregated * U, p.minAvailable) /\ q = Mon!Nearest(p.aggregated * U, p.minAvailable)
    BY <1>1, <1>2, <1>4, Rounding
  <2>2. ppm = Mon!Min({U, q})
    BY <1>3, <1>4, <2>1 DEF Mon!Proportion
  <2>3. ppm \in Nat /\ ppm <= U
    BY <2>2, <1>1, MinOfTwo
  <2> QED
    <3>1. U * 1 = U
      BY <1>1
    <3>2. s = [workloads |-> 1, nonZero |-> 1, minAvailable |-> p.minAvailable,
               meets |-> IF p.aggregated >= p.minAvailable THEN 1 ELSE 0, replicas |-> p.aggregated, ppm |-> ppm]
      BY <1>3, <1>4 DEF Mon!PprToStatus
    <3>3. s = Mon!Ideal(p)
      BY <1>1, <1>4, <3>2, <2>1, <2>2 DEF Mon!PprToStatus, Mon!Ideal
    <3>4. s \in [Mon!Fields -> Nat]
      BY <1>1, <3>2, <2>3 DEF Mon!Fields, Mon!Zero
    <3> QED
      BY <3>1, <3>2, <3>3, <3>4, <2>3
<1>5. CASE p.minAvailable = 0
  <2>1. ppm = 0
    BY <1>3, <1>5 DEF Mon!Proportion
  <2>2. U * 0 = 0
    BY <1>1
  <2> QED
    BY <1>1, <1>3, <1>5, <2>1, <2>2 DEF Mon!PprToStatus, Mon!Ideal, Mon!Fields, Mon!Zero
<1> QED
  BY <1>1, <1>4, <1>5

(***************************************************************************)
(* The sum over the statuses of a map of PodProtectors, field by field.    *)
(***************************************************************************)
Statuses == {Mon!PprToStatus(p) : p \in Mon!Protector}

Tracked(m) == IsFiniteSet(DOMAIN m) /\ m \in [DOMAIN m -> Statuses]

Column(m, f) == [n \in DOMAIN m |-> m[n][f]]

Totals(m) == [f \in Mon!Fields |-> SumFunction(Column(m, f))]

LEMMA StatusFields == ASSUME NEW s \in Statuses, NEW f \in Mon!Fields PROVE s[f] \in Nat /\ s[f] \in Int
<1>1. PICK p \in Mon!Protector : s = Mon!PprToStatus(p)
  BY DEF Statuses
<1>2. s \in [Mon!Fields -> Nat]
  BY <1>1, OneStatus
<1> QED
  BY <1>2

LEMMA ColumnInts ==
    ASSUME NEW m, Tracked(m), NEW f \in Mon!Fields
    PROVE  /\ Ints(Column(m, f)) /\ DOMAIN Column(m, f) = DOMAIN m
           /\ \A n \in DOMAIN m : Column(m, f)[n] = m[n][f] /\ m[n][f] \in Nat
<1>1. DOMAIN Column(m, f) = DOMAIN m /\ \A n \in DOMAIN m : Column(m, f)[n] = m[n][f]
  BY DEF Column
<1>2. \A n \in DOMAIN m : m[n][f] \in Nat /\ m[n][f] \in Int
  BY StatusFields DEF Tracked
<1> QED
  BY <1>1, <1>2 DEF Ints, Tracked

LEMMA FieldNames == Mon!Fields = {"workloads", "nonZero", "minAvailable", "meets", "replicas", "ppm"}
  BY DEF Mon!Fields, Mon!Zero

LEMMA StatusBounds ==
    ASSUME NEW s \in Statuses
    PROVE  s["nonZero"] <= s["workloads"] /\ s["meets"] <= s["workloads"] /\ s["ppm"] <= ProportionPpmUnits * s["nonZero"]
<1>1. PICK p \in Mon!Protector : s = Mon!PprToStatus(p)
  BY DEF Statuses
<1> QED
  BY <1>1, OneStatus

(* The sum over any PodProtectors is one the observer may export. *)
LEMMA TotalsMeaningful ==
    ASSUME NEW m, Tracked(m)
    PROVE  /\ \A f \in Mon!Fields : Totals(m)[f] \in Int /\ Totals(m)[f] >= 0
           /\ Totals(m)["nonZero"] <= Totals(m)["workloads"] /\ Totals(m)["meets"] <= Totals(m)["workloads"]
           /\ Totals(m)["ppm"] <= ProportionPpmUnits * Totals(m)["nonZero"]
<1>1. \A f \in Mon!Fields : Totals(m)[f] = SumFunction(Column(m, f)) /\ SumFunction(Column(m, f)) \in Int
  BY ColumnInts, SumInt DEF Totals
<1>2. ASSUME NEW f \in Mon!Fields PROVE Totals(m)[f] >= 0
  <2>1. PICK w : w = Column(m, f) /\ IsFiniteSet(DOMAIN w) /\ \A n \in DOMAIN w : w[n] \in Nat
    BY ColumnInts DEF Ints
  <2>2. SumFunction(w) \in Nat
    BY <2>1, SumNat
  <2> QED
    BY <2>1, <2>2, <1>1
<1> DEFINE a == Column(m, "workloads")
           b == Column(m, "nonZero")
           c == Column(m, "meets")
           d == Column(m, "ppm")
<1>3. Ints(a) /\ Ints(b) /\ Ints(c) /\ Ints(d) /\ DOMAIN a = DOMAIN m /\ DOMAIN b = DOMAIN m /\ DOMAIN c = DOMAIN m /\ DOMAIN d = DOMAIN m
  BY ColumnInts, FieldNames
<1>4. \A n \in DOMAIN m : /\ a[n] = m[n]["workloads"] /\ b[n] = m[n]["nonZero"] /\ c[n] = m[n]["meets"] /\ d[n] = m[n]["ppm"]
                          /\ a[n] \in Nat /\ b[n] \in Nat /\ c[n] \in Nat /\ d[n] \in Nat
  BY ColumnInts, FieldNames
<1>5. \A n \in DOMAIN m : b[n] <= a[n] /\ c[n] <= a[n] /\ d[n] <= ProportionPpmUnits * b[n]
  <2>1. \A n \in DOMAIN m : m[n] \in Statuses
    BY DEF Tracked
  <2> HIDE DEF a, b, c, d
  <2> QED
    BY <2>1, <1>4, StatusBounds
<1>6. Totals(m)["workloads"] = SumFunction(a) /\ Totals(m)["nonZero"] = SumFunction(b) /\ Totals(m)["meets"] = SumFunction(c)
      /\ Totals(m)["ppm"] = SumFunction(d)
  BY <1>1, FieldNames
<1> HIDE DEF a, b, c, d
<1>7. SumFunction(a) \in Int /\ SumFunction(b) \in Int /\ SumFunction(c) \in Int /\ SumFunction(d) \in Int
  BY <1>3, SumInt
<1>8. \A n \in DOMAIN m : b[n] <= 1 * a[n] /\ c[n] <= 1 * a[n]
  BY <1>4, <1>5
<1>9. SumFunction(b) <= 1 * SumFunction(a) /\ SumFunction(c) <= 1 * SumFunction(a)
  BY <1>3, <1>8, SumAtMost
<1>10. SumFunction(d) <= ProportionPpmUnits * SumFunction(b)
  <2>1. ProportionPpmUnits \in Int
    BY MonitorAssumption
  <2> QED
    BY <2>1, <1>3, <1>5, SumAtMost
<1> QED
  BY <1>1, <1>2, <1>6, <1>7, <1>9, <1>10

LEMMA WithoutTracked ==
    ASSUME NEW m, Tracked(m), NEW n, NEW f \in Mon!Fields
    PROVE  /\ Tracked(Mon!Without(m, n))
           /\ SumFunction(Column(Mon!Without(m, n), f))
                  = SumFunction(Column(m, f)) - (IF n \in DOMAIN m THEN m[n][f] ELSE 0)
           /\ SumFunction(Column(Mon!Without(m, n), f)) \in Int
<1> DEFINE u == Mon!Without(m, n)
           w == Column(m, f)
<1>1. DOMAIN u = DOMAIN m \ {n} /\ \A x \in DOMAIN u : u[x] = m[x]
  BY DEF Mon!Without
<1>2. Tracked(u)
  <2>1. IsFiniteSet(DOMAIN u)
    BY <1>1, FS_Subset DEF Tracked
  <2> QED
    BY <2>1, <1>1 DEF Tracked, Mon!Without
<1>3. Ints(w) /\ DOMAIN w = DOMAIN m /\ \A x \in DOMAIN m : w[x] = m[x][f] /\ m[x][f] \in Nat
  BY ColumnInts
<1>4. SumFunction(w) \in Int
  BY <1>3, SumInt
<1>5. CASE n \in DOMAIN m
  <2>1. Column(u, f) = Less(w, n)
    BY <1>1, <1>3 DEF Column, Less
  <2> HIDE DEF w, u
  <2>2. SumFunction(w) = w[n] + SumFunction(Less(w, n)) /\ SumFunction(Less(w, n)) \in Int
    BY <1>3, <1>5, SumOne
  <2>3. w[n] = m[n][f] /\ m[n][f] \in Int
    BY <1>3, <1>5
  <2>4. SumFunction(Column(u, f)) = SumFunction(w) - m[n][f] /\ SumFunction(Column(u, f)) \in Int
    BY <2>1, <2>2, <2>3, <1>4
  <2> QED
    BY <2>4, <1>2, <1>5 DEF w, u
<1>6. CASE n \notin DOMAIN m
  <2>1. Column(u, f) = w
    BY <1>1, <1>6 DEF Column
  <2> HIDE DEF w, u
  <2>2. SumFunction(Column(u, f)) = SumFunction(w) - 0 /\ SumFunction(Column(u, f)) \in Int
    BY <2>1, <1>4
  <2> QED
    BY <2>2, <1>2, <1>6 DEF w, u
<1> QED
  BY <1>5, <1>6

LEMMA WithTracked ==
    ASSUME NEW m, Tracked(m), NEW n, NEW s \in Statuses, NEW f \in Mon!Fields
    PROVE  /\ Tracked(Mon!With(m, n, s))
           /\ SumFunction(Column(Mon!With(m, n, s), f)) = s[f] + SumFunction(Column(Mon!Without(m, n), f))
<1> DEFINE u == Mon!With(m, n, s)
           w == Column(u, f)
<1>1. DOMAIN u = DOMAIN m \cup {n} /\ \A x \in DOMAIN u : u[x] = IF x = n THEN s ELSE m[x]
  BY DEF Mon!With
<1>2. Tracked(u)
  <2>1. IsFiniteSet(DOMAIN u)
    BY <1>1, FS_AddElement DEF Tracked
  <2>2. \A x \in DOMAIN u : u[x] \in Statuses
    BY <1>1 DEF Tracked
  <2>3. u = [x \in DOMAIN u |-> u[x]]
    BY DEF Mon!With
  <2> HIDE DEF u
  <2> QED
    BY <2>1, <2>2, <2>3 DEF Tracked
<1>3. Ints(w) /\ DOMAIN w = DOMAIN u /\ \A x \in DOMAIN u : w[x] = u[x][f]
  <2> HIDE DEF u
  <2> QED
    BY <1>2, ColumnInts
<1>4. Less(w, n) = Column(Mon!Without(m, n), f)
  <2>1. DOMAIN w \ {n} = DOMAIN m \ {n}
    BY <1>1, <1>3
  <2>2. \A x \in DOMAIN m \ {n} : w[x] = m[x][f]
    BY <1>1, <1>3
  <2> HIDE DEF w, u
  <2> QED
    BY <2>1, <2>2 DEF Less, Column, Mon!Without
<1>5. n \in DOMAIN w /\ w[n] = s[f]
  BY <1>1, <1>3
<1> HIDE DEF w
<1>6. SumFunction(w) = w[n] + SumFunction(Less(w, n))
  BY <1>3, <1>5, SumOne
<1> QED
  BY <1>2, <1>4, <1>5, <1>6 DEF w

(* What State.add and State.remove owe to the status is what the sum changes by. *)
Owed(m, n, s) == Mon!Minus(s, IF n \in DOMAIN m THEN m[n] ELSE Mon!Zero)

LEMMA TotalsChanged ==
    ASSUME NEW m, Tracked(m), NEW n, NEW s, NEW v,
           \/ s \in Statuses /\ v = Mon!With(m, n, s)
           \/ s = Mon!Zero /\ v = Mon!Without(m, n)
    PROVE  Tracked(v) /\ Owed(m, n, s) \in [Mon!Fields -> Int] /\ Totals(v) = Mon!Plus(Totals(m), Owed(m, n, s))
<1>0. PICK old : old = IF n \in DOMAIN m THEN m[n] ELSE Mon!Zero
  OBVIOUS
<1>1. \A f \in Mon!Fields : Mon!Zero[f] = 0
  BY DEF Mon!Fields, Mon!Zero
<1>2. ASSUME NEW f \in Mon!Fields
      PROVE  /\ Tracked(v) /\ s[f] \in Int /\ old[f] \in Int /\ SumFunction(Column(m, f)) \in Int
             /\ SumFunction(Column(v, f)) = SumFunction(Column(m, f)) + (s[f] - old[f])
  <2>1. PICK a \in Int : a = SumFunction(Column(m, f))
    BY ColumnInts, SumInt
  <2>2. PICK b \in Int : b = SumFunction(Column(Mon!Without(m, n), f)) /\ b = a - old[f] /\ old[f] \in Int
    <3>1. old[f] = IF n \in DOMAIN m THEN m[n][f] ELSE 0
      BY <1>0, <1>1
    <3>2. old[f] \in Int
      BY <3>1, StatusFields DEF Tracked
    <3> QED
      BY <3>1, <3>2, <2>1, WithoutTracked
  <2>3. CASE s \in Statuses /\ v = Mon!With(m, n, s)
    <3>1. s[f] \in Int /\ Tracked(v) /\ SumFunction(Column(v, f)) = s[f] + b
      <4>1. s[f] \in Int
        BY <2>3, StatusFields
      <4>2. Tracked(Mon!With(m, n, s)) /\ SumFunction(Column(Mon!With(m, n, s), f)) = s[f] + SumFunction(Column(Mon!Without(m, n), f))
        BY <2>3, WithTracked
      <4> QED
        BY <4>1, <4>2, <2>2, <2>3
    <3> QED
      BY <3>1, <2>1, <2>2
  <2>4. CASE s = Mon!Zero /\ v = Mon!Without(m, n)
    <3>1. s[f] = 0 /\ Tracked(v) /\ SumFunction(Column(v, f)) = b
      BY <2>2, <2>4, <1>1, WithoutTracked
    <3> QED
      BY <3>1, <2>1, <2>2
  <2> QED
    BY <2>3, <2>4
<1>3. Tracked(v)
  BY <1>2, FieldNames
<1>4. Owed(m, n, s) = [f \in Mon!Fields |-> s[f] - old[f]]
  BY <1>0 DEF Owed, Mon!Minus
<1>5. Owed(m, n, s) \in [Mon!Fields -> Int]
  BY <1>2, <1>4
<1>6. Totals(v) = [f \in Mon!Fields |-> Totals(m)[f] + Owed(m, n, s)[f]]
  BY <1>2, <1>4 DEF Totals
<1> QED
  BY <1>3, <1>5, <1>6 DEF Mon!Plus

-----------------------------------------------------------------------------
(***************************************************************************)
(* The inductive invariant.  A PodProtector is counted as it is, or an     *)
(* event that shows it as it is is on its way and no other of it follows;  *)
(* the status is the sum over what is cached, or short of it by what the   *)
(* handler is about to apply, and then still the sum over what was cached. *)
(***************************************************************************)
Current(n) == IF n \in DOMAIN ppr THEN <<ppr[n]>> ELSE <<>>

Counted(n) ==
    IF n \in DOMAIN ppr THEN n \in DOMAIN delta /\ delta[n] = Mon!PprToStatus(ppr[n]) ELSE n \notin DOMAIN delta

Announced(n) ==
    \E i \in 1..Len(events) : /\ events[i].name = n /\ events[i].ppr = Current(n)
                              /\ \A j \in i + 1..Len(events) : events[j].name # n

MonEvent == [name : Pprs, ppr : {<<>>} \cup {<<p>> : p \in Mon!Protector}]

MonInv ==
    /\ DOMAIN ppr \subseteq Pprs /\ ppr \in [DOMAIN ppr -> Mon!Protector]
    /\ events \in Seq(MonEvent)
    /\ DOMAIN delta \subseteq Pprs /\ Tracked(delta)
    /\ \/ owed = <<>> /\ total = Totals(delta)
       \/ \E d \in [Mon!Fields -> Int] : owed = <<d>> /\ Totals(delta) = Mon!Plus(total, d)
    /\ \E m : Tracked(m) /\ total = Totals(m)
    /\ \A n \in Pprs : Announced(n) \/ (Counted(n) /\ \A i \in 1..Len(events) : events[i].name # n)

LEMMA MonInit == Mon!Init => MonInv
<1> SUFFICES ASSUME Mon!Init PROVE MonInv
  OBVIOUS
<1>1. DOMAIN ppr = {} /\ ppr \in [DOMAIN ppr -> Mon!Protector] /\ DOMAIN delta = {} /\ events = <<>> /\ owed = <<>> /\ total = Mon!Zero
  BY DEF Mon!Init, Mon!NoEntries
<1>2. Tracked(delta)
  <2>1. delta \in [{} -> Statuses]
    BY DEF Mon!Init, Mon!NoEntries
  <2> QED
    BY <2>1, <1>1, FS_EmptySet DEF Tracked
<1>3. total = Totals(delta)
  <2>1. \A f \in Mon!Fields : SumFunction(Column(delta, f)) = 0
    <3> TAKE f \in Mon!Fields
    <3>1. DOMAIN Column(delta, f) = {}
      BY <1>1 DEF Column
    <3> QED
      BY <3>1, SumEmpty
  <2>2. Mon!Zero = [f \in Mon!Fields |-> 0]
    BY DEF Mon!Zero, Mon!Fields
  <2> QED
    BY <2>1, <2>2, <1>1 DEF Totals
<1>4. events \in Seq(MonEvent) /\ Len(events) = 0
  BY <1>1
<1>5. \A n \in Pprs : Counted(n)
  BY <1>1 DEF Counted
<1> QED
  BY <1>1, <1>2, <1>3, <1>4, <1>5 DEF MonInv

(* A PodProtector changes in the store, and the event is sent. *)
LEMMA MonSent ==
    ASSUME MonInv, NEW n \in Pprs, Mon!Send(n), UNCHANGED <<delta, owed, total>>,
           DOMAIN ppr' \subseteq Pprs, ppr' \in [DOMAIN ppr' -> Mon!Protector],
           \A k \in Pprs \ {n} : (k \in DOMAIN ppr' <=> k \in DOMAIN ppr) /\ (k \in DOMAIN ppr => ppr'[k] = ppr[k])
    PROVE  MonInv'
<1>1. PICK L \in Nat : L = Len(events) /\ events \in Seq(MonEvent)
  BY DEF MonInv
<1>2. PICK e : e \in MonEvent /\ e.name = n /\ e.ppr = (IF n \in DOMAIN ppr' THEN <<ppr'[n]>> ELSE <<>>) /\ events' = Append(events, e)
  <2> DEFINE e == IF n \in DOMAIN ppr' THEN [name |-> n, ppr |-> <<ppr'[n]>>] ELSE [name |-> n, ppr |-> <<>>]
  <2>1. events' = Append(events, e)
    BY DEF Mon!Send
  <2>2. CASE n \in DOMAIN ppr'
    <3>1. ppr'[n] \in Mon!Protector /\ e = [name |-> n, ppr |-> <<ppr'[n]>>]
      BY <2>2
    <3> QED
      BY <3>1, <2>1, <2>2 DEF MonEvent
  <2>3. CASE n \notin DOMAIN ppr'
    <3>1. e = [name |-> n, ppr |-> <<>>]
      BY <2>3
    <3> QED
      BY <3>1, <2>1, <2>3 DEF MonEvent
  <2> QED
    BY <2>2, <2>3
<1>3. /\ events' \in Seq(MonEvent) /\ Len(events') = L + 1 /\ events'[L + 1] = e
      /\ \A i \in 1..L : events'[i] = events[i]
  BY <1>1, <1>2
<1>4. e.ppr = Current(n)'
  BY <1>2 DEF Current
<1>5. Announced(n)'
  <2>1. L + 1 \in 1..L + 1 /\ \A j \in L + 1 + 1..L + 1 : FALSE
    OBVIOUS
  <2> QED
    BY <2>1, <1>2, <1>3, <1>4 DEF Announced
<1>6. ASSUME NEW k \in Pprs, k # n PROVE (Announced(k) \/ (Counted(k) /\ \A i \in 1..Len(events) : events[i].name # k))'
  <2>1. Current(k)' = Current(k) /\ (Counted(k)' <=> Counted(k))
    BY <1>6 DEF Current, Counted
  <2>2. CASE Announced(k)
    <3>1. PICK i \in 1..L : events[i].name = k /\ events[i].ppr = Current(k) /\ \A j \in i + 1..L : events[j].name # k
      BY <2>2, <1>1 DEF Announced
    <3>2. i \in 1..L + 1 /\ events'[i].name = k /\ events'[i].ppr = Current(k)
      BY <3>1, <1>3
    <3>3. \A j \in i + 1..L + 1 : events'[j].name # k
      <4> TAKE j \in i + 1..L + 1
      <4>1. CASE j = L + 1
        BY <4>1, <1>2, <1>3, <1>6
      <4>2. CASE j # L + 1
        <5>1. j \in i + 1..L /\ j \in 1..L
          BY <4>2, <3>1
        <5> QED
          BY <5>1, <3>1, <1>3
      <4> QED
        BY <4>1, <4>2
    <3> QED
      BY <3>2, <3>3, <2>1, <1>3 DEF Announced
  <2>3. CASE Counted(k) /\ \A i \in 1..Len(events) : events[i].name # k
    <3>1. \A i \in 1..L + 1 : i \in 1..L \/ i = L + 1
      OBVIOUS
    <3> QED
      BY <3>1, <2>1, <2>3, <1>1, <1>2, <1>3, <1>6
  <2> QED
    BY <2>2, <2>3, <1>6 DEF MonInv
<1>7. \A k \in Pprs : (Announced(k) \/ (Counted(k) /\ \A i \in 1..Len(events) : events[i].name # k))'
  BY <1>5, <1>6
<1> QED
  BY <1>3, <1>7 DEF MonInv

LEMMA MonHandled == ASSUME MonInv, Mon!Handle PROVE MonInv'
<1>0. PICK L \in Nat : L = Len(events) /\ L > 0 /\ events \in Seq(MonEvent) /\ owed = <<>> /\ total = Totals(delta)
  BY DEF MonInv, Mon!Handle
<1>1. PICK e \in MonEvent : e = events[1] /\ e = Head(events)
  BY <1>0
<1>2. /\ events' = Tail(events) /\ events' \in Seq(MonEvent) /\ Len(events') = L - 1
      /\ \A i \in 1..L - 1 : events'[i] = events[i + 1]
  BY <1>0 DEF Mon!Handle
<1>3. UNCHANGED <<ppr, total>>
  BY DEF Mon!Handle
<1>4. PICK n : n = e.name /\ n \in Pprs
  BY <1>1 DEF MonEvent
<1>5. PICK s : s = IF e.ppr # <<>> THEN Mon!PprToStatus(e.ppr[1]) ELSE Mon!Zero
  OBVIOUS
<1>6. PICK d : d = Owed(delta, n, s)
  OBVIOUS
<1>7. owed' = <<d>>
  BY <1>1, <1>4, <1>5, <1>6 DEF Mon!Handle, Mon!DeltaOf, Owed
<1>8. \/ e.ppr # <<>> /\ s \in Statuses /\ delta' = Mon!With(delta, n, s)
      \/ e.ppr = <<>> /\ s = Mon!Zero /\ delta' = Mon!Without(delta, n)
  <2>1. CASE e.ppr = <<>>
    BY <2>1, <1>1, <1>4, <1>5 DEF Mon!Handle
  <2>2. CASE e.ppr # <<>>
    <3>1. PICK p \in Mon!Protector : e.ppr = <<p>>
      BY <2>2, <1>1 DEF MonEvent
    <3>2. s = Mon!PprToStatus(p) /\ s \in Statuses
      BY <2>2, <3>1, <1>5 DEF Statuses
    <3> QED
      BY <2>2, <3>2, <1>1, <1>4, <1>5 DEF Mon!Handle
  <2> QED
    BY <2>1, <2>2
<1>9. Tracked(delta) /\ DOMAIN delta \subseteq Pprs
  BY DEF MonInv
<1>10. Tracked(delta') /\ d \in [Mon!Fields -> Int] /\ Totals(delta') = Mon!Plus(Totals(delta), d)
  <2>1. PICK v : v = delta'
    OBVIOUS
  <2>2. \/ s \in Statuses /\ v = Mon!With(delta, n, s)
        \/ s = Mon!Zero /\ v = Mon!Without(delta, n)
    BY <2>1, <1>8
  <2>3. Tracked(v) /\ d \in [Mon!Fields -> Int] /\ Totals(v) = Mon!Plus(Totals(delta), d)
    BY <2>2, <1>6, <1>9, TotalsChanged
  <2> QED
    BY <2>1, <2>3
<1>11. DOMAIN delta' \subseteq Pprs
  BY <1>4, <1>8, <1>9 DEF Mon!With, Mon!Without
<1>12. ASSUME NEW k \in Pprs PROVE (Announced(k) \/ (Counted(k) /\ \A i \in 1..Len(events) : events[i].name # k))'
  <2>0. Current(k)' = Current(k)
    BY <1>3 DEF Current
  <2>1. CASE Announced(k)
    <3>1. PICK i \in 1..L : events[i].name = k /\ events[i].ppr = Current(k) /\ \A j \in i + 1..L : events[j].name # k
      BY <2>1, <1>0 DEF Announced
    <3>2. \A j \in i..L - 1 : events'[j].name # k
      <4> TAKE j \in i..L - 1
      <4>1. j + 1 \in i + 1..L /\ j \in 1..L - 1
        BY <3>1
      <4> QED
        BY <4>1, <3>1, <1>2
    <3>3. CASE i = 1
      <4>1. k = n /\ e.ppr = Current(k)
        BY <3>1, <3>3, <1>1, <1>4
      <4>2. Counted(k)'
        <5>1. CASE e.ppr = <<>>
          <6>1. k \notin DOMAIN ppr' /\ k \notin DOMAIN delta'
            <7>1. k \notin DOMAIN ppr
              BY <5>1, <4>1 DEF Current
            <7>2. delta' = Mon!Without(delta, n)
              BY <5>1, <1>8
            <7> QED
              BY <7>1, <7>2, <4>1, <1>3 DEF Mon!Without
          <6> QED
            BY <6>1 DEF Counted
        <5>2. CASE e.ppr # <<>>
          <6>1. k \in DOMAIN ppr /\ e.ppr = <<ppr[k]>>
            BY <5>2, <4>1 DEF Current
          <6>2. s = Mon!PprToStatus(ppr[k])
            BY <6>1, <5>2, <1>5
          <6>3. k \in DOMAIN delta' /\ delta'[k] = s
            BY <5>2, <4>1, <1>8 DEF Mon!With
          <6>4. k \in DOMAIN ppr' /\ delta'[k] = Mon!PprToStatus(ppr'[k])
            BY <6>1, <6>2, <6>3, <1>3
          <6> QED
            BY <6>3, <6>4 DEF Counted
        <5> QED
          BY <5>1, <5>2
      <4> QED
        BY <4>2, <3>2, <3>3, <1>2
    <3>4. CASE i # 1
      <4>1. PICK h \in 1..L - 1 : h = i - 1
        BY <3>1, <3>4
      <4>2. events'[h] = events[i] /\ h + 1 = i
        BY <4>1, <3>1, <1>2
      <4> QED
        BY <4>1, <4>2, <3>1, <3>2, <2>0, <1>2 DEF Announced
    <3> QED
      BY <3>3, <3>4
  <2>2. CASE Counted(k) /\ \A i \in 1..Len(events) : events[i].name # k
    <3>1. k # n /\ \A i \in 1..L : events[i].name # k
      BY <2>2, <1>0, <1>1, <1>4
    <3>2. \A i \in 1..L - 1 : i + 1 \in 1..L
      OBVIOUS
    <3>3. (k \in DOMAIN delta' <=> k \in DOMAIN delta) /\ (k \in DOMAIN delta => delta'[k] = delta[k])
      BY <3>1, <1>8 DEF Mon!With, Mon!Without
    <3>4. Counted(k)'
      BY <3>3, <2>2, <1>3 DEF Counted
    <3> QED
      BY <3>1, <3>2, <3>4, <1>2
  <2> QED
    BY <2>1, <2>2 DEF MonInv
<1>13. \E m : Tracked(m) /\ total' = Totals(m)
  BY <1>0, <1>3, <1>9
<1>14. Totals(delta') = Mon!Plus(total', d)
  BY <1>0, <1>3, <1>10
<1> QED
  BY <1>2, <1>3, <1>7, <1>10, <1>11, <1>12, <1>13, <1>14 DEF MonInv

LEMMA MonApplied == ASSUME MonInv, Mon!Apply PROVE MonInv'
<1>1. PICK d \in [Mon!Fields -> Int] : owed = <<d>> /\ Totals(delta) = Mon!Plus(total, d)
  BY DEF MonInv, Mon!Apply
<1>2. total' = Mon!Plus(total, d) /\ owed' = <<>> /\ ppr' = ppr /\ events' = events /\ delta' = delta
  BY <1>1 DEF Mon!Apply
<1>3. total' = Totals(delta) /\ Totals(delta)' = Totals(delta)
  BY <1>1, <1>2
<1>4. Tracked(delta)
  BY DEF MonInv
<1> QED
  BY <1>2, <1>3, <1>4 DEF MonInv, Announced, Counted, Current

LEMMA MonStep == MonInv /\ [Mon!Next]_Mon!vars => MonInv'
<1> SUFFICES ASSUME MonInv, [Mon!Next]_Mon!vars PROVE MonInv'
  OBVIOUS
<1>0. DOMAIN ppr \subseteq Pprs /\ ppr \in [DOMAIN ppr -> Mon!Protector]
  BY DEF MonInv
<1>1. ASSUME NEW n \in Pprs, NEW p \in Mon!Protector, Mon!Put(n, p) PROVE MonInv'
  <2>1. ppr' = Mon!With(ppr, n, p) /\ Mon!Send(n) /\ UNCHANGED <<delta, owed, total>>
    BY <1>1 DEF Mon!Put
  <2>2. DOMAIN ppr' = DOMAIN ppr \cup {n} /\ \A x \in DOMAIN ppr' : ppr'[x] = IF x = n THEN p ELSE ppr[x]
    BY <2>1 DEF Mon!With
  <2>3. ppr' \in [DOMAIN ppr' -> Mon!Protector]
    <3>1. \A x \in DOMAIN ppr \cup {n} : (IF x = n THEN p ELSE ppr[x]) \in Mon!Protector
      BY <1>0
    <3>2. ppr' \in [DOMAIN ppr \cup {n} -> Mon!Protector]
      BY <3>1, <2>1 DEF Mon!With
    <3> QED
      BY <3>2, <2>2
  <2> QED
    BY <2>1, <2>2, <2>3, <1>0, MonSent
<1>2. ASSUME NEW n \in Pprs, Mon!Delete(n) PROVE MonInv'
  <2>1. ppr' = Mon!Without(ppr, n) /\ Mon!Send(n) /\ UNCHANGED <<delta, owed, total>>
    BY <1>2 DEF Mon!Delete
  <2>2. DOMAIN ppr' = DOMAIN ppr \ {n} /\ \A x \in DOMAIN ppr' : ppr'[x] = ppr[x]
    BY <2>1 DEF Mon!Without
  <2>3. ppr' \in [DOMAIN ppr' -> Mon!Protector]
    <3>1. ppr' \in [DOMAIN ppr \ {n} -> Mon!Protector]
      BY <1>0, <2>1 DEF Mon!Without
    <3> QED
      BY <3>1, <2>2
  <2> QED
    BY <2>1, <2>2, <2>3, <1>0, MonSent
<1>3. CASE UNCHANGED Mon!vars
  BY <1>3 DEF Mon!vars, MonInv, Announced, Counted, Current
<1> QED
  BY <1>1, <1>2, <1>3, MonHandled, MonApplied DEF Mon!Next

(* Once the handler has caught up, what is cached is what exists. *)
LEMMA MonCaughtUp == ASSUME MonInv PROVE Mon!StatusIsSum
<1> SUFFICES ASSUME events = <<>>, owed = <<>> PROVE total = [f \in Mon!Fields |-> Mon!SumOf(ppr, f)]
  BY DEF Mon!StatusIsSum
<1>1. total = Totals(delta)
  BY DEF MonInv
<1>2. \A n \in Pprs : Counted(n)
  <2>1. \A i \in 1..Len(events) : FALSE
    OBVIOUS
  <2> QED
    BY <2>1 DEF MonInv, Announced
<1>3. DOMAIN delta = DOMAIN ppr
  BY <1>2 DEF Counted, MonInv
<1>4. \A n \in DOMAIN ppr : delta[n] = Mon!Ideal(ppr[n])
  <2> TAKE n \in DOMAIN ppr
  <2>1. n \in Pprs /\ ppr[n] \in Mon!Protector
    BY DEF MonInv
  <2>2. delta[n] = Mon!PprToStatus(ppr[n])
    BY <2>1, <1>2 DEF Counted
  <2> QED
    BY <2>1, <2>2, OneStatus
<1>5. ASSUME NEW f \in Mon!Fields PROVE SumFunction(Column(delta, f)) = Mon!SumOf(ppr, f)
  <2>1. Column(delta, f) = [n \in DOMAIN ppr |-> Mon!Ideal(ppr[n])[f]]
    BY <1>3, <1>4 DEF Column
  <2>2. PICK w : w = Column(delta, f)
    OBVIOUS
  <2>3. Mon!SumOf(ppr, f) = Mon!SumFunction(w)
    BY <2>1, <2>2 DEF Mon!SumOf
  <2>4. Mon!SumFunction(w) = SumFunction(w)
    BY DEF Mon!SumFunction, SumFunction, Mon!SumFunctionOnSet, SumFunctionOnSet, Mon!FoldFunctionOnSet, FoldFunctionOnSet,
           Mon!MapThenFoldSet, MapThenFoldSet
  <2> QED
    BY <2>2, <2>3, <2>4
<1> QED
  BY <1>1, <1>5 DEF Totals

LEMMA MonHolds == ASSUME MonInv PROVE Mon!StatusIsSum /\ Mon!AlwaysMeaningful
<1>1. PICK m : Tracked(m) /\ total = Totals(m)
  BY DEF MonInv
<1> QED
  BY <1>1, TotalsMeaningful, MonCaughtUp, FieldNames DEF Mon!AlwaysMeaningful

LEMMA MonChosen ==
    /\ PartsInit /\ part = "monitor" => Mon!Init
    /\ [PartsNext]_partsVars /\ part = "monitor" => [Mon!Next]_Mon!vars
<1>1. PartsInit /\ part = "monitor" => Mon!Init
  BY DEF PartsInit
<1>2. [PartsNext]_partsVars /\ part = "monitor" => [Mon!Next]_Mon!vars
  BY DEF PartsNext, partsVars, monitorVars, group3, Mon!vars
<1> QED
  BY <1>1, <1>2

LEMMA UniqueChosen ==
    /\ PartsInit /\ part = "unique" => Unique!Init
    /\ [PartsNext]_partsVars /\ part = "unique" => [Unique!Next]_Unique!vars
<1>1. PartsInit /\ part = "unique" => Unique!Init
  BY DEF PartsInit
<1>2. [PartsNext]_partsVars /\ part = "unique" => [Unique!Next]_Unique!vars
  BY DEF PartsNext, partsVars, uniqueVars, group2, Unique!vars
<1> QED
  BY <1>1, <1>2

(***************************************************************************)
(* metrics/unique, generator/monitor: each of any emissions is counted in  *)
(* one window and no other; for any number of PodProtectors with any       *)
(* counts of replicas, whatever events the handler has seen, the exported  *)
(* status is one that some PodProtectors have, and the sum over those that *)
(* exist, rounded to the nearest ppm, once the handler has caught up.      *)
(***************************************************************************)
THEOREM ExportsAreExact == PartsSpec => []ExportedExactly
<1>1. PartsInit /\ part = "unique" => Unique!Init
  BY UniqueChosen
<1>2. [PartsNext]_partsVars /\ part = "unique" => [Unique!Next]_Unique!vars
  BY UniqueChosen
<1>3. [PartsNext]_partsVars => (part = "unique" <=> (part = "unique")')
  BY PartKept
<1>4. Unique!Spec => []Unique!CountedOnce
  BY EmissionsCountedOnce
<1>5. PartsInit /\ part = "monitor" => MonInv
  BY MonChosen, MonInit
<1>6. [PartsNext]_partsVars /\ part = "monitor" /\ MonInv => MonInv'
  BY MonChosen, MonStep
<1>7. [PartsNext]_partsVars => (part = "monitor" <=> (part = "monitor")')
  BY PartKept
<1>8. MonInv => Mon!StatusIsSum /\ Mon!AlwaysMeaningful
  BY MonHolds
<1> QED
  BY <1>1, <1>2, <1>3, <1>4, <1>5, <1>6, <1>7, <1>8, PTL DEF PartsSpec, Unique!Spec, ExportedExactly

-----------------------------------------------------------------------------
(***************************************************************************)
(* Sorting by key.  The rank of an element is the number of those that it  *)
(* does not come before: a bijection to 1..n, increasing with the key.     *)
(***************************************************************************)
Keyed(s, I) == IsFiniteSet(I) /\ I \subseteq Int /\ \A i \in I : s[i].key \in Int

Upto(s, I, i) == {j \in I : Sets!NotAfter(s, j, i)}

LEMMA SameCardinality == \A S : Sets!Cardinality(S) = Cardinality(S) /\ (Sets!IsFiniteSet(S) <=> IsFiniteSet(S))
  BY DEF Sets!Cardinality, Cardinality, Sets!IsFiniteSet, IsFiniteSet

LEMMA UptoFinite ==
    ASSUME NEW s, NEW I, Keyed(s, I), NEW i \in I
    PROVE  /\ IsFiniteSet(Upto(s, I, i)) /\ Cardinality(I) \in Nat
           /\ Cardinality(Upto(s, I, i)) \in 1..Cardinality(I)
<1> DEFINE U == Upto(s, I, i)
<1>1. U \in SUBSET I /\ i \in U
  <2>1. i \in Int /\ s[i].key \in Int
    BY DEF Keyed
  <2>2. i \in U
    BY <2>1 DEF Upto, Sets!NotAfter
  <2> QED
    BY <2>2 DEF Upto
<1>2. IsFiniteSet(U) /\ Cardinality(U) <= Cardinality(I)
  <2> HIDE DEF U
  <2> QED
    BY <1>1, FS_Subset DEF Keyed
<1>3. Cardinality(U) \in Nat /\ Cardinality(I) \in Nat /\ Cardinality(U) # 0
  <2> HIDE DEF U
  <2> QED
    BY <1>1, <1>2, FS_CardinalityType, FS_EmptySet DEF Keyed
<1> QED
  BY <1>2, <1>3

LEMMA RankGrows ==
    ASSUME NEW s, NEW I, Keyed(s, I), NEW i \in I, NEW k \in I, i # k, Sets!NotAfter(s, i, k)
    PROVE  Cardinality(Upto(s, I, i)) < Cardinality(Upto(s, I, k))
<1> DEFINE U == Upto(s, I, i)
           V == Upto(s, I, k)
<1>0. i \in Int /\ k \in Int /\ s[i].key \in Int /\ s[k].key \in Int
  BY DEF Keyed
<1>1. \A j \in I : j \in Int /\ s[j].key \in Int
  BY DEF Keyed
<1>2. U \subseteq V
  <2>1. ASSUME NEW j \in I, Sets!NotAfter(s, j, i) PROVE Sets!NotAfter(s, j, k)
    <3>1. j \in Int /\ s[j].key \in Int
      BY <1>1
    <3> QED
      BY <3>1, <2>1, <1>0 DEF Sets!NotAfter
  <2> QED
    BY <2>1 DEF Upto
<1>3. k \in V /\ k \notin U
  BY <1>0 DEF Upto, Sets!NotAfter
<1>4. IsFiniteSet(V) /\ IsFiniteSet(U) /\ Cardinality(U) \in Nat /\ Cardinality(V) \in Nat
  BY UptoFinite
<1> HIDE DEF U, V
<1>5. Cardinality(U) <= Cardinality(V) /\ Cardinality(U) # Cardinality(V)
  BY <1>2, <1>3, <1>4, FS_Subset
<1> QED
  BY <1>4, <1>5 DEF U, V

LEMMA RankUnique ==
    ASSUME NEW s, NEW I, Keyed(s, I), NEW i \in I, NEW k \in I, Cardinality(Upto(s, I, i)) = Cardinality(Upto(s, I, k))
    PROVE  i = k
<1>1. i \in Int /\ k \in Int /\ s[i].key \in Int /\ s[k].key \in Int
  BY DEF Keyed
<1>2. Sets!NotAfter(s, i, k) \/ Sets!NotAfter(s, k, i)
  BY <1>1 DEF Sets!NotAfter
<1>3. Cardinality(Upto(s, I, i)) \in Nat
  BY UptoFinite
<1> QED
  BY <1>2, <1>3, RankGrows

LEMMA RankTaken ==
    ASSUME NEW s, NEW I, Keyed(s, I), NEW r \in 1..Cardinality(I)
    PROVE  \E i \in I : Cardinality(Upto(s, I, i)) = r
<1>0. PICK n \in Nat : n = Cardinality(I)
  BY FS_CardinalityType DEF Keyed
<1>1. PICK f : f = [i \in I |-> Cardinality(Upto(s, I, i))]
  OBVIOUS
<1>2. f \in [I -> 1..n]
  BY <1>0, <1>1, UptoFinite
<1>3. \A i, k \in I : f[i] = f[k] => i = k
  BY <1>1, RankUnique
<1>4. f \in Injection(I, 1..n)
  BY <1>2, <1>3 DEF Injection, IsInjective
<1>5. IsFiniteSet(1..n) /\ Cardinality(1..n) = n
  BY FS_Interval
<1>6. f \in Surjection(I, 1..n)
  BY <1>0, <1>4, <1>5, FS_Injection
<1> QED
  BY <1>0, <1>1, <1>6 DEF Surjection

(* A sequence that is sorted by key. *)
Sorted(t, n) ==
    /\ n \in Nat /\ DOMAIN t = 1..n /\ Len(t) = n
    /\ \A p \in 1..n : t[p].key \in Int
    /\ \A p, q \in 1..n : p <= q => t[p].key <= t[q].key

(* utilsort.ByKey returns the elements, sorted. *)
LEMMA SortedByKey ==
    ASSUME NEW s, NEW I, Keyed(s, I)
    PROVE  /\ Sorted(Sets!ByKey(s, I), Cardinality(I))
           /\ Sets!Range(Sets!ByKey(s, I)) = {s[i] : i \in I}
<1>0. PICK n \in Nat : n = Cardinality(I)
  BY FS_CardinalityType DEF Keyed
<1>1. PICK g : g = [r \in 1..n |-> CHOOSE i \in I : Cardinality(Upto(s, I, i)) = r]
  OBVIOUS
<1>2. \A r \in 1..n : g[r] \in I /\ Cardinality(Upto(s, I, g[r])) = r
  BY <1>0, <1>1, RankTaken
<1>3. PICK t : t = Sets!ByKey(s, I)
  OBVIOUS
<1>4. t = [r \in 1..n |-> s[CHOOSE i \in I : Cardinality({j \in I : Sets!NotAfter(s, j, i)}) = r]]
  <2>1. t = [r \in 1..Cardinality(I) |-> s[CHOOSE i \in I : Cardinality({j \in I : Sets!NotAfter(s, j, i)}) = r]]
    BY <1>3 DEF Sets!ByKey, Sets!Cardinality, Cardinality, Sets!IsFiniteSet, IsFiniteSet
  <2> QED
    BY <1>0, <2>1, Zenon
<1>5. DOMAIN t = 1..n /\ \A r \in 1..n : t[r] = s[g[r]]
  <2>1. DOMAIN t = 1..n /\ \A r \in 1..n : t[r] = s[CHOOSE i \in I : Cardinality({j \in I : Sets!NotAfter(s, j, i)}) = r]
    BY <1>4
  <2>2. \A r \in 1..n : g[r] = CHOOSE i \in I : Cardinality({j \in I : Sets!NotAfter(s, j, i)}) = r
    BY <1>1 DEF Upto
  <2> QED
    BY <2>1, <2>2
<1>6. Len(t) = n
  BY <1>4
<1>7. \A p \in 1..n : t[p].key \in Int
  BY <1>2, <1>5 DEF Keyed
<1>8. ASSUME NEW p \in 1..n, NEW q \in 1..n, p <= q PROVE t[p].key <= t[q].key
  <2>1. PICK i \in I, k \in I : i = g[p] /\ k = g[q] /\ Cardinality(Upto(s, I, i)) = p /\ Cardinality(Upto(s, I, k)) = q
    BY <1>2
  <2>2. i \in Int /\ k \in Int /\ s[i].key \in Int /\ s[k].key \in Int /\ t[p] = s[i] /\ t[q] = s[k]
    BY <2>1, <1>5 DEF Keyed
  <2>3. ASSUME s[k].key < s[i].key PROVE FALSE
    <3>1. Sets!NotAfter(s, k, i) /\ i # k
      BY <2>2, <2>3 DEF Sets!NotAfter
    <3>2. q < p
      BY <3>1, <2>1, RankGrows
    <3> QED
      BY <3>2, <1>8
  <2> QED
    BY <2>2, <2>3
<1>9. Sets!Range(t) = {s[i] : i \in I}
  <2>1. \A i \in I : \E r \in 1..n : g[r] = i
    <3> TAKE i \in I
    <3>1. PICK r \in 1..n : r = Cardinality(Upto(s, I, i))
      BY <1>0, UptoFinite
    <3> QED
      BY <3>1, <1>2, RankUnique
  <2> QED
    BY <2>1, <1>2, <1>5 DEF Sets!Range
<1> QED
  BY <1>0, <1>3, <1>5, <1>6, <1>7, <1>8, <1>9 DEF Sorted

-----------------------------------------------------------------------------
(***************************************************************************)
(* LeftZip.  The head of the right slice, a recursion over the left one,   *)
(* stands at the first element whose key is not smaller: since the left    *)
(* one is sorted, none that is passed is looked for again.                 *)
(***************************************************************************)
NotBelow(right, key) == {j \in 1..Len(right) + 1 : j \in DOMAIN right => ~(right[j].key < key)}

NextHead(ls, right, g, i) ==
    IF i = 0 THEN 1
    ELSE Sets!Min({j \in g[i - 1]..Len(right) + 1 : j \in DOMAIN right => ~(right[j].key < ls[i].key)})

Heads(ls, right) == CHOOSE g : g = [i \in 0..Len(ls) |-> NextHead(ls, right, g, i)]

LEMMA ZipUnfolded ==
    ASSUME NEW ls, NEW right, NEW g, g = Heads(ls, right)
    PROVE  Sets!LeftZip(ls, right) =
               [i \in 1..Len(ls) |->
                  [left  |-> ls[i],
                   right |-> IF g[i] \in DOMAIN right /\ right[g[i]].key = ls[i].key THEN <<right[g[i]]>> ELSE <<>>]]
  BY DEF Sets!LeftZip, Heads, NextHead

LEMMA LeastIsMin ==
    ASSUME NEW T, T \subseteq Nat, NEW x \in T, \A y \in T : x <= y
    PROVE  Sets!Min(T) = x
<1>1. \A z \in T : (\A y \in T : z <= y) => z = x
  <2> TAKE z \in T
  <2>1. z \in Nat /\ x \in Nat
    OBVIOUS
  <2> QED
    BY <2>1
<1> QED
  BY <1>1 DEF Sets!Min

(* The first element with a key that is not smaller. *)
First(right, key, x) == x \in NotBelow(right, key) /\ \A y \in NotBelow(right, key) : x <= y

LEMMA FirstExists ==
    ASSUME NEW right, NEW b, Sorted(right, b), NEW key \in Int
    PROVE  \E x \in 1..b + 1 : First(right, key, x)
<1>1. b \in Nat /\ Len(right) = b /\ DOMAIN right = 1..b
  BY DEF Sorted
<1>2. b + 1 \in NotBelow(right, key) /\ NotBelow(right, key) \subseteq Nat /\ NotBelow(right, key) \subseteq 1..b + 1
  BY <1>1 DEF NotBelow
<1> QED
  BY <1>2, LeastNumber DEF First

LEMMA HeadsFound ==
    ASSUME NEW ls, NEW a, Sorted(ls, a), NEW right, NEW b, Sorted(right, b)
    PROVE  \A i \in 1..a : Heads(ls, right)[i] \in 1..b + 1 /\ First(right, ls[i].key, Heads(ls, right)[i])
<1>1. a \in Nat /\ Len(ls) = a /\ b \in Nat /\ Len(right) = b /\ DOMAIN right = 1..b
  BY DEF Sorted
<1>2. PICK h : h = [i \in 0..a |-> IF i = 0 THEN 1 ELSE CHOOSE x \in 1..b + 1 : First(right, ls[i].key, x)]
  OBVIOUS
<1>3. h[0] = 1 /\ \A i \in 1..a : h[i] \in 1..b + 1 /\ First(right, ls[i].key, h[i])
  <2>1. 0 \in 0..a /\ \A i \in 1..a : i \in 0..a /\ i # 0 /\ ls[i].key \in Int
    BY <1>1 DEF Sorted
  <2>2. h[0] = 1 /\ \A i \in 1..a : h[i] = CHOOSE x \in 1..b + 1 : First(right, ls[i].key, x)
    BY <1>2, <2>1
  <2> QED
    BY <2>1, <2>2, FirstExists
<1>4. ASSUME NEW g, NEW i \in 1..a, g[i - 1] = h[i - 1] PROVE NextHead(ls, right, g, i) = h[i]
  <2> DEFINE T == {j \in h[i - 1]..b + 1 : j \in DOMAIN right => ~(right[j].key < ls[i].key)}
  <2>1. h[i - 1] \in 1..b + 1 /\ h[i - 1] <= h[i] /\ h[i] \in 1..b + 1
    <3>1. CASE i = 1
      BY <3>1, <1>1, <1>3
    <3>2. CASE i # 1
      <4>1. PICK k \in 1..a : k = i - 1 /\ k <= i
        BY <3>2, <1>1
      <4>2. ls[k].key <= ls[i].key /\ ls[k].key \in Int /\ ls[i].key \in Int /\ \A j \in 1..b : right[j].key \in Int
        BY <4>1 DEF Sorted
      <4>3. h[i] \in NotBelow(right, ls[k].key)
        <5>1. h[i] \in NotBelow(right, ls[i].key)
          BY <1>3 DEF First
        <5> QED
          BY <5>1, <4>2, <1>1 DEF NotBelow
      <4> QED
        BY <4>1, <4>3, <1>3 DEF First
    <3> QED
      BY <3>1, <3>2
  <2>2. T \subseteq NotBelow(right, ls[i].key) /\ T \subseteq Nat
    BY <2>1, <1>1 DEF NotBelow
  <2>3. h[i] \in T /\ \A y \in T : h[i] <= y
    <3>1. h[i] \in T
      BY <2>1, <1>1, <1>3 DEF First, NotBelow
    <3> QED
      BY <3>1, <2>2, <1>3 DEF First
  <2>4. Sets!Min(T) = h[i]
    <3> HIDE DEF T
    <3> QED
      BY <2>2, <2>3, LeastIsMin
  <2>5. i # 0 /\ NextHead(ls, right, g, i) = Sets!Min(T)
    BY <1>1, <1>4 DEF NextHead
  <2> QED
    BY <2>4, <2>5
<1>5. h = [i \in 0..a |-> NextHead(ls, right, h, i)]
  <2>1. \A i \in 0..a : h[i] = NextHead(ls, right, h, i)
    <3> TAKE i \in 0..a
    <3>1. CASE i = 0
      BY <3>1, <1>3 DEF NextHead
    <3>2. CASE i # 0
      BY <3>2, <1>4
    <3> QED
      BY <3>1, <3>2
  <2> QED
    BY <2>1, <1>2
<1>6. PICK g : g = Heads(ls, right)
  OBVIOUS
<1>7. g = [i \in 0..a |-> NextHead(ls, right, g, i)]
  BY <1>1, <1>5, <1>6 DEF Heads
<1>8. \A i \in 0..a : g[i] = h[i]
  <2> DEFINE W == {i \in 0..a : g[i] # h[i]}
  <2> SUFFICES ASSUME W # {} PROVE FALSE
    OBVIOUS
  <2>1. PICK x \in W : \A y \in W : x <= y
    <3>1. W \subseteq Nat
      BY <1>1
    <3> HIDE DEF W
    <3> QED
      BY <3>1, LeastNumber
  <2>2. x \in 0..a /\ g[x] = NextHead(ls, right, g, x) /\ g[x] # h[x]
    BY <2>1, <1>7
  <2>3. CASE x = 0
    BY <2>2, <2>3, <1>3 DEF NextHead
  <2>4. CASE x # 0
    <3>1. x - 1 \in 0..a /\ x \in 1..a /\ ~(x <= x - 1)
      BY <2>2, <2>4, <1>1
    <3>2. g[x - 1] = h[x - 1]
      BY <3>1, <2>1
    <3> QED
      BY <3>1, <3>2, <2>2, <1>4
  <2> QED
    BY <2>3, <2>4
<1> QED
  BY <1>1, <1>3, <1>6, <1>8

(* What LeftZip pairs an element with: the element on the right that has its key, if one has. *)
Paired(right, key, x) ==
    \/ x = <<>> /\ \A j \in DOMAIN right : right[j].key # key
    \/ \E j \in DOMAIN right : right[j].key = key /\ x = <<right[j]>>

LEMMA ZipPairs ==
    ASSUME NEW ls, NEW a, Sorted(ls, a), NEW right, NEW b, Sorted(right, b)
    PROVE  /\ DOMAIN Sets!LeftZip(ls, right) = DOMAIN ls
           /\ \A i \in DOMAIN ls : /\ Sets!LeftZip(ls, right)[i].left = ls[i]
                                     /\ Paired(right, ls[i].key, Sets!LeftZip(ls, right)[i].right)
<1>1. a \in Nat /\ Len(ls) = a /\ DOMAIN ls = 1..a /\ b \in Nat /\ Len(right) = b /\ DOMAIN right = 1..b
  BY DEF Sorted
<1>2. PICK g : g = Heads(ls, right)
  OBVIOUS
<1>3. PICK z : z = Sets!LeftZip(ls, right)
  OBVIOUS
<1>4. z = [i \in 1..a |->
             [left  |-> ls[i],
              right |-> IF g[i] \in DOMAIN right /\ right[g[i]].key = ls[i].key THEN <<right[g[i]]>> ELSE <<>>]]
  BY <1>1, <1>2, <1>3, ZipUnfolded
<1>5. DOMAIN z = 1..a
  BY <1>4
<1>6. ASSUME NEW i \in 1..a PROVE z[i].left = ls[i] /\ Paired(right, ls[i].key, z[i].right)
  <2>1. z[i].left = ls[i] /\ z[i].right = IF g[i] \in DOMAIN right /\ right[g[i]].key = ls[i].key THEN <<right[g[i]]>> ELSE <<>>
    BY <1>4
  <2>2. g[i] \in 1..b + 1 /\ First(right, ls[i].key, g[i])
    BY <1>2, HeadsFound
  <2>3. CASE g[i] \in DOMAIN right /\ right[g[i]].key = ls[i].key
    BY <2>1, <2>3 DEF Paired
  <2>4. CASE ~(g[i] \in DOMAIN right /\ right[g[i]].key = ls[i].key)
    <3>1. ASSUME NEW j \in 1..b, right[j].key = ls[i].key PROVE FALSE
      <4>1. ls[i].key \in Int /\ \A k \in 1..b : right[k].key \in Int
        BY DEF Sorted
      <4>2. j \in NotBelow(right, ls[i].key)
        BY <3>1, <4>1, <1>1 DEF NotBelow
      <4>3. g[i] <= j /\ g[i] \in 1..b /\ ~(right[g[i]].key < ls[i].key)
        BY <4>2, <2>2, <1>1 DEF First, NotBelow
      <4>4. right[g[i]].key <= right[j].key
        BY <4>3 DEF Sorted
      <4> QED
        BY <4>1, <4>3, <4>4, <3>1, <2>4, <1>1
    <3> QED
      BY <3>1, <2>1, <2>4, <1>1 DEF Paired
  <2> QED
    BY <2>3, <2>4
<1> QED
  BY <1>1, <1>3, <1>5, <1>6

-----------------------------------------------------------------------------
(***************************************************************************)
(* Selector.Matches, on the canonical forms, is what the API says of the   *)
(* raw ones.                                                               *)
(***************************************************************************)
LEMMA SetSorted ==
    ASSUME NEW m, Sets!RawLabels(m)
    PROVE  /\ Sorted(Sets!CreateSet(m), Cardinality(DOMAIN m))
           /\ Sets!Range(Sets!CreateSet(m)) = {[key |-> k, value |-> m[k]] : k \in DOMAIN m}
<1>1. PICK s : s = [k \in DOMAIN m |-> [key |-> k, value |-> m[k]]]
  OBVIOUS
<1>2. Sets!CreateSet(m) = Sets!ByKey(s, DOMAIN m)
  BY <1>1 DEF Sets!CreateSet
<1>3. \A k \in DOMAIN m : s[k] = [key |-> k, value |-> m[k]] /\ s[k].key = k
  BY <1>1
<1>4. Keyed(s, DOMAIN m)
  BY <1>3, SameCardinality DEF Keyed, Sets!RawLabels
<1>5. {s[k] : k \in DOMAIN m} = {[key |-> k, value |-> m[k]] : k \in DOMAIN m}
  <2>1. \A k \in DOMAIN m : s[k] = [key |-> k, value |-> m[k]]
    BY <1>3
  <2> QED
    BY <2>1, Zenon
<1> QED
  BY <1>2, <1>4, <1>5, SortedByKey

LEMMA ReqmtsSorted ==
    ASSUME NEW raw \in Seq(Sets!RawReqmt), NEW op
    PROVE  /\ \E a : Sorted(Sets!ReqmtsOf(raw, op), a)
           /\ Sets!Range(Sets!ReqmtsOf(raw, op)) = {raw[i] : i \in {i \in DOMAIN raw : raw[i].op = op}}
<1>1. PICK I : I = {i \in DOMAIN raw : raw[i].op = op}
  OBVIOUS
<1>2. Len(raw) \in Nat /\ DOMAIN raw = 1..Len(raw) /\ \A i \in DOMAIN raw : raw[i] \in Sets!RawReqmt
  OBVIOUS
<1>3. IsFiniteSet(I)
  <2>1. IsFiniteSet(DOMAIN raw)
    BY <1>2, FS_Interval
  <2>2. I \in SUBSET DOMAIN raw
    BY <1>1
  <2> QED
    BY <2>1, <2>2, FS_Subset
<1>4. Keyed(raw, I)
  <2>1. \A i \in I : i \in DOMAIN raw
    BY <1>1
  <2>2. \A i \in I : i \in Int /\ raw[i].key \in Int
    BY <2>1, <1>2 DEF Sets!RawReqmt
  <2> QED
    BY <2>2, <1>3 DEF Keyed
<1>5. Sets!ReqmtsOf(raw, op) = Sets!ByKey(raw, I)
  BY <1>1 DEF Sets!ReqmtsOf
<1>6. Sorted(Sets!ByKey(raw, I), Cardinality(I)) /\ Sets!Range(Sets!ByKey(raw, I)) = {raw[i] : i \in I}
  BY <1>4, SortedByKey
<1> QED
  BY <1>1, <1>5, <1>6

Lookup(m, k) == IF k \in DOMAIN m THEN <<[key |-> k, value |-> m[k]]>> ELSE <<>>

LEMMA ZipLooksUp ==
    ASSUME NEW ls, NEW a, Sorted(ls, a), NEW m, Sets!RawLabels(m), NEW z, z = Sets!LeftZip(ls, Sets!CreateSet(m))
    PROVE  /\ \A x \in Sets!Range(z) : x.left \in Sets!Range(ls) /\ x.right = Lookup(m, x.left.key)
           /\ \A l \in Sets!Range(ls) : \E x \in Sets!Range(z) : x.left = l
<1>1. PICK right, b : right = Sets!CreateSet(m) /\ Sorted(right, b) /\ Sets!Range(right) = {[key |-> k, value |-> m[k]] : k \in DOMAIN m}
  BY SetSorted
<1>2. DOMAIN z = DOMAIN ls /\ \A i \in DOMAIN ls : z[i].left = ls[i] /\ Paired(right, ls[i].key, z[i].right)
  BY <1>1, ZipPairs
<1>3. \A j \in DOMAIN right : \E k \in DOMAIN m : right[j] = [key |-> k, value |-> m[k]]
  BY <1>1 DEF Sets!Range
<1>4. \A k \in DOMAIN m : \E j \in DOMAIN right : right[j] = [key |-> k, value |-> m[k]]
  BY <1>1 DEF Sets!Range
<1>5. ASSUME NEW key, NEW y, Paired(right, key, y) PROVE y = Lookup(m, key)
  <2>1. CASE y = <<>> /\ \A j \in DOMAIN right : right[j].key # key
    <3>1. key \notin DOMAIN m
      BY <2>1, <1>4
    <3> QED
      BY <3>1, <2>1 DEF Lookup
  <2>2. ASSUME NEW j \in DOMAIN right, right[j].key = key, y = <<right[j]>> PROVE y = Lookup(m, key)
    <3>1. PICK k \in DOMAIN m : right[j] = [key |-> k, value |-> m[k]]
      BY <1>3
    <3>2. k = key
      BY <3>1, <2>2
    <3> QED
      BY <3>1, <3>2, <2>2 DEF Lookup
  <2> QED
    BY <2>1, <2>2, <1>5 DEF Paired
<1>6. \A i \in DOMAIN ls : z[i].right = Lookup(m, z[i].left.key)
  BY <1>2, <1>5
<1> QED
  BY <1>2, <1>6 DEF Sets!Range

LEMMA MatchesSelects ==
    ASSUME NEW raw \in Seq(Sets!RawReqmt), Sets!IsValid(raw), NEW m, Sets!RawLabels(m)
    PROVE  Sets!Matches(Sets!CreateSelector(raw), Sets!CreateSet(m)) <=> Sets!Selects(raw, m)
<1> DEFINE Zip(op) == Sets!Range(Sets!LeftZip(Sets!ReqmtsOf(raw, op), Sets!CreateSet(m)))
           Rs(op)  == {raw[i] : i \in {i \in DOMAIN raw : raw[i].op = op}}
<1>1. ASSUME NEW op
      PROVE  /\ \A x \in Zip(op) : x.left \in Rs(op) /\ x.right = Lookup(m, x.left.key)
             /\ \A l \in Rs(op) : \E x \in Zip(op) : x.left = l
  <2>1. PICK ls, a : ls = Sets!ReqmtsOf(raw, op) /\ Sorted(ls, a) /\ Sets!Range(ls) = Rs(op)
    BY ReqmtsSorted
  <2>2. PICK z : z = Sets!LeftZip(ls, Sets!CreateSet(m))
    OBVIOUS
  <2>3. Zip(op) = Sets!Range(z)
    BY <2>1, <2>2
  <2> HIDE DEF Zip, Rs
  <2> QED
    BY <2>1, <2>2, <2>3, ZipLooksUp
<1>2. \A op : \A l \in Rs(op) : l.op = op
  OBVIOUS
<1>3. \A k : Lookup(m, k) = <<>> <=> k \notin DOMAIN m
  BY DEF Lookup
<1>4. ASSUME NEW l, NEW x, x = Lookup(m, l.key), x # <<>>
      PROVE  Sets!HasValue(l.values, x[1]) <=> m[l.key] \in Sets!Range(l.values)
  <2>1. x = <<[key |-> l.key, value |-> m[l.key]]>>
    BY <1>4 DEF Lookup
  <2>2. x[1].value = m[l.key]
    BY <2>1
  <2> QED
    BY <2>2 DEF Sets!HasValue, Sets!Range
<1> HIDE DEF Zip
<1>5. (\A x \in Zip("In") : x.right # <<>> /\ Sets!HasValue(x.left.values, x.right[1]))
         <=> \A l \in Rs("In") : Sets!Satisfies(m, l)
  <2>1. \A l \in Rs("In") : Sets!Satisfies(m, l) <=> (l.key \in DOMAIN m /\ m[l.key] \in Sets!Range(l.values))
    BY <1>2 DEF Sets!Satisfies
  <2>2. \A x \in Zip("In") : (x.right # <<>> /\ Sets!HasValue(x.left.values, x.right[1]))
           <=> (x.left.key \in DOMAIN m /\ m[x.left.key] \in Sets!Range(x.left.values))
    BY <1>1, <1>3, <1>4
  <2> HIDE DEF Rs
  <2> QED
    BY <2>1, <2>2, <1>1
<1>6. (\A x \in Zip("NotIn") : x.right = <<>> \/ ~Sets!HasValue(x.left.values, x.right[1]))
         <=> \A l \in Rs("NotIn") : Sets!Satisfies(m, l)
  <2>1. \A l \in Rs("NotIn") : Sets!Satisfies(m, l) <=> ~(l.key \in DOMAIN m /\ m[l.key] \in Sets!Range(l.values))
    BY <1>2 DEF Sets!Satisfies
  <2>2. \A x \in Zip("NotIn") : (x.right = <<>> \/ ~Sets!HasValue(x.left.values, x.right[1]))
           <=> ~(x.left.key \in DOMAIN m /\ m[x.left.key] \in Sets!Range(x.left.values))
    BY <1>1, <1>3, <1>4
  <2> HIDE DEF Rs
  <2> QED
    BY <2>1, <2>2, <1>1
<1>7. (\A x \in Zip("Exists") : x.right # <<>>) <=> \A l \in Rs("Exists") : Sets!Satisfies(m, l)
  <2>1. \A l \in Rs("Exists") : Sets!Satisfies(m, l) <=> l.key \in DOMAIN m
    BY <1>2 DEF Sets!Satisfies
  <2> HIDE DEF Rs
  <2> QED
    BY <2>1, <1>1, <1>3
<1>8. (\A x \in Zip("DoesNotExist") : x.right = <<>>) <=> \A l \in Rs("DoesNotExist") : Sets!Satisfies(m, l)
  <2>1. \A l \in Rs("DoesNotExist") : Sets!Satisfies(m, l) <=> l.key \notin DOMAIN m
    BY <1>2 DEF Sets!Satisfies
  <2> HIDE DEF Rs
  <2> QED
    BY <2>1, <1>1, <1>3
<1>9. Sets!Selects(raw, m) <=> \A op \in Sets!Operators : \A l \in Rs(op) : Sets!Satisfies(m, l)
  BY DEF Sets!Selects, Sets!IsValid
<1>10. Sets!Matches(Sets!CreateSelector(raw), Sets!CreateSet(m)) <=>
         /\ \A x \in Zip("In") : x.right # <<>> /\ Sets!HasValue(x.left.values, x.right[1])
         /\ \A x \in Zip("NotIn") : x.right = <<>> \/ ~Sets!HasValue(x.left.values, x.right[1])
         /\ \A x \in Zip("Exists") : x.right # <<>>
         /\ \A x \in Zip("DoesNotExist") : x.right = <<>>
  BY DEF Sets!Matches, Sets!CreateSelector, Zip
<1> HIDE DEF Rs
<1> QED
  BY <1>5, <1>6, <1>7, <1>8, <1>9, <1>10 DEF Sets!Operators

-----------------------------------------------------------------------------
(***************************************************************************)
(* The index of label sets.  Both of its maps are the inverse of a map     *)
(* from the names to what is indexed of their sets, and inserting and      *)
(* removing a name keeps them so.                                          *)
(***************************************************************************)
Inverted(h) == [p \in UNION {h[n] : n \in DOMAIN h} |-> {n \in DOMAIN h : p \in h[n]}]

PairsOf(known) == [n \in DOMAIN known |-> Sets!Range(known[n])]
KeysIn(known)  == [n \in DOMAIN known |-> Sets!KeysOf(known[n])]

Exact(known) == [known |-> known, kv |-> Inverted(PairsOf(known)), key |-> Inverted(KeysIn(known))]

LEMMA InvertedAt == ASSUME NEW h, NEW p PROVE Sets!At(Inverted(h), p) = {n \in DOMAIN h : p \in h[n]}
<1>1. DOMAIN Inverted(h) = UNION {h[n] : n \in DOMAIN h} /\ \A x \in DOMAIN Inverted(h) : Inverted(h)[x] = {n \in DOMAIN h : x \in h[n]}
  BY DEF Inverted
<1>2. CASE p \in DOMAIN Inverted(h)
  BY <1>1, <1>2 DEF Sets!At
<1>3. CASE p \notin DOMAIN Inverted(h)
  <2>1. {n \in DOMAIN h : p \in h[n]} = {}
    BY <1>1, <1>3
  <2> QED
    BY <2>1, <1>3 DEF Sets!At
<1> QED
  BY <1>2, <1>3

LEMMA InsertedExact ==
    ASSUME NEW h, NEW n, n \notin DOMAIN h, NEW v
    PROVE  Sets!Inserted(Inverted(h), v, n) = Inverted(Sets!With(h, n, v))
<1>1. PICK mm : mm = Inverted(h)
  OBVIOUS
<1>2. PICK w : w = Sets!With(h, n, v)
  OBVIOUS
<1>3. DOMAIN w = DOMAIN h \cup {n} /\ w[n] = v /\ \A x \in DOMAIN h : w[x] = h[x]
  BY <1>2 DEF Sets!With
<1>4. DOMAIN mm = UNION {h[x] : x \in DOMAIN h} /\ \A p \in DOMAIN mm : mm[p] = {x \in DOMAIN h : p \in h[x]}
  BY <1>1 DEF Inverted
<1>5. UNION {w[x] : x \in DOMAIN w} = DOMAIN mm \cup v
  BY <1>3, <1>4
<1>6. \A p \in DOMAIN mm \cup v : (IF p \in v THEN Sets!At(mm, p) \cup {n} ELSE mm[p]) = {x \in DOMAIN w : p \in w[x]}
  <2> TAKE p \in DOMAIN mm \cup v
  <2>1. Sets!At(mm, p) = {x \in DOMAIN h : p \in h[x]}
    BY <1>1, InvertedAt
  <2>2. CASE p \in v
    BY <2>1, <2>2, <1>3
  <2>3. CASE p \notin v
    <3>1. mm[p] = {x \in DOMAIN h : p \in h[x]}
      BY <2>3, <1>4
    <3> QED
      BY <3>1, <2>3, <1>3
  <2> QED
    BY <2>2, <2>3
<1>7. Inverted(w) = [p \in DOMAIN mm \cup v |-> {x \in DOMAIN w : p \in w[x]}]
  BY <1>5 DEF Inverted
<1>8. Sets!Inserted(mm, v, n) = [p \in DOMAIN mm \cup v |-> IF p \in v THEN Sets!At(mm, p) \cup {n} ELSE mm[p]]
  BY DEF Sets!Inserted
<1> QED
  BY <1>1, <1>2, <1>6, <1>7, <1>8

LEMMA RemovedExact ==
    ASSUME NEW h, NEW n \in DOMAIN h
    PROVE  Sets!Removed(Inverted(h), h[n], n) = Inverted(Sets!Without(h, n))
<1>1. PICK mm : mm = Inverted(h)
  OBVIOUS
<1>2. PICK w : w = Sets!Without(h, n)
  OBVIOUS
<1>3. DOMAIN w = DOMAIN h \ {n} /\ \A x \in DOMAIN w : w[x] = h[x]
  BY <1>2 DEF Sets!Without
<1>4. DOMAIN mm = UNION {h[x] : x \in DOMAIN h} /\ \A p \in DOMAIN mm : mm[p] = {x \in DOMAIN h : p \in h[x]}
  BY <1>1 DEF Inverted
<1>5. PICK P : P = {p \in DOMAIN mm : p \notin h[n] \/ mm[p] # {n}}
  OBVIOUS
<1>6. UNION {w[x] : x \in DOMAIN w} = P
  <2>1. ASSUME NEW p, NEW x \in DOMAIN w, p \in w[x] PROVE p \in P
    <3>1. x \in DOMAIN h /\ x # n /\ p \in h[x]
      BY <2>1, <1>3
    <3>2. p \in DOMAIN mm /\ x \in mm[p]
      BY <3>1, <1>4
    <3> QED
      BY <3>1, <3>2, <1>5
  <2>2. ASSUME NEW p \in P PROVE \E x \in DOMAIN w : p \in w[x]
    <3>1. p \in DOMAIN mm /\ mm[p] = {x \in DOMAIN h : p \in h[x]} /\ mm[p] # {} /\ (p \notin h[n] \/ mm[p] # {n})
      BY <1>4, <1>5
    <3>2. PICK x \in mm[p] : x # n
      BY <3>1
    <3> QED
      BY <3>1, <3>2, <1>3
  <2> QED
    BY <2>1, <2>2
<1>7. \A p \in P : (IF p \in h[n] THEN mm[p] \ {n} ELSE mm[p]) = {x \in DOMAIN w : p \in w[x]}
  <2> TAKE p \in P
  <2>1. mm[p] = {x \in DOMAIN h : p \in h[x]}
    BY <1>4, <1>5
  <2>2. {x \in DOMAIN w : p \in w[x]} = mm[p] \ {n}
    BY <2>1, <1>3
  <2>3. p \notin h[n] => mm[p] \ {n} = mm[p]
    BY <2>1
  <2> QED
    BY <2>2, <2>3
<1>8. Inverted(w) = [p \in P |-> {x \in DOMAIN w : p \in w[x]}]
  BY <1>6 DEF Inverted
<1>9. Sets!Removed(mm, h[n], n) = [p \in P |-> IF p \in h[n] THEN mm[p] \ {n} ELSE mm[p]]
  BY <1>5 DEF Sets!Removed
<1> QED
  BY <1>1, <1>2, <1>7, <1>8, <1>9

LEMMA UntrackExact ==
    ASSUME NEW D, NEW K, K = [x \in D |-> K[x]], NEW n
    PROVE  Sets!DoUntrack(Exact(K), n) = Exact(Sets!Without(K, n))
<1>0. DOMAIN K = D
  OBVIOUS
<1>1. CASE n \notin D
  <2>1. Sets!Without(K, n) = K
    BY <1>0, <1>1 DEF Sets!Without
  <2> QED
    BY <2>1, <1>0, <1>1 DEF Sets!DoUntrack, Exact
<1>2. CASE n \in D
  <2>1. PICK w : w = Sets!Without(K, n)
    OBVIOUS
  <2>2. DOMAIN w = D \ {n} /\ \A x \in DOMAIN w : w[x] = K[x]
    BY <2>1, <1>0 DEF Sets!Without
  <2>3. Sets!Without(PairsOf(K), n) = PairsOf(w) /\ Sets!Without(KeysIn(K), n) = KeysIn(w)
    BY <2>2, <1>0 DEF Sets!Without, PairsOf, KeysIn
  <2>4. /\ DOMAIN PairsOf(K) = D /\ PairsOf(K)[n] = Sets!Range(K[n])
        /\ DOMAIN KeysIn(K) = D /\ KeysIn(K)[n] = Sets!KeysOf(K[n])
    BY <1>0, <1>2 DEF PairsOf, KeysIn
  <2>5. Sets!Removed(Inverted(PairsOf(K)), Sets!Range(K[n]), n) = Inverted(PairsOf(w))
    BY <2>3, <2>4, <1>2, RemovedExact
  <2>6. Sets!Removed(Inverted(KeysIn(K)), Sets!KeysOf(K[n]), n) = Inverted(KeysIn(w))
    BY <2>3, <2>4, <1>2, RemovedExact
  <2>7. Exact(K).known = K /\ Exact(K).kv = Inverted(PairsOf(K)) /\ Exact(K).key = Inverted(KeysIn(K))
    BY DEF Exact
  <2>8. Exact(w) = [known |-> w, kv |-> Inverted(PairsOf(w)), key |-> Inverted(KeysIn(w))]
    BY DEF Exact
  <2> QED
    BY <2>1, <2>5, <2>6, <2>7, <2>8, <1>0, <1>2 DEF Sets!DoUntrack
<1> QED
  BY <1>1, <1>2

LEMMA TrackExact ==
    ASSUME NEW K, NEW n, n \notin DOMAIN K, NEW m
    PROVE  Sets!DoTrack(Exact(K), n, m) = Exact(Sets!With(K, n, Sets!CreateSet(m)))
<1>1. PICK c : c = Sets!CreateSet(m)
  OBVIOUS
<1>2. PICK w : w = Sets!With(K, n, c)
  OBVIOUS
<1>3. DOMAIN w = DOMAIN K \cup {n} /\ w[n] = c /\ \A x \in DOMAIN K : w[x] = K[x]
  BY <1>2 DEF Sets!With
<1>4. Sets!With(PairsOf(K), n, Sets!Range(c)) = PairsOf(w) /\ Sets!With(KeysIn(K), n, Sets!KeysOf(c)) = KeysIn(w)
  BY <1>3 DEF Sets!With, PairsOf, KeysIn
<1>5. DOMAIN PairsOf(K) = DOMAIN K /\ DOMAIN KeysIn(K) = DOMAIN K
  BY DEF PairsOf, KeysIn
<1>6. Sets!Inserted(Inverted(PairsOf(K)), Sets!Range(c), n) = Inverted(PairsOf(w))
  BY <1>4, <1>5, InsertedExact
<1>7. Sets!Inserted(Inverted(KeysIn(K)), Sets!KeysOf(c), n) = Inverted(KeysIn(w))
  BY <1>4, <1>5, InsertedExact
<1>8. Exact(K).known = K /\ Exact(K).kv = Inverted(PairsOf(K)) /\ Exact(K).key = Inverted(KeysIn(K))
  BY DEF Exact
<1>9. Exact(w) = [known |-> w, kv |-> Inverted(PairsOf(w)), key |-> Inverted(KeysIn(w))]
  BY DEF Exact
<1> QED
  BY <1>1, <1>2, <1>6, <1>7, <1>8, <1>9 DEF Sets!DoTrack

LEMMA RetrackExact ==
    ASSUME NEW D, NEW K, K = [x \in D |-> K[x]], NEW n, NEW m
    PROVE  Sets!DoTrack(Sets!DoUntrack(Exact(K), n), n, m) = Exact(Sets!With(K, n, Sets!CreateSet(m)))
<1>1. PICK u : u = Sets!Without(K, n)
  OBVIOUS
<1>2. n \notin DOMAIN u
  BY <1>1 DEF Sets!Without
<1>3. Sets!DoUntrack(Exact(K), n) = Exact(u)
  BY <1>1, UntrackExact
<1>4. PICK c : c = Sets!CreateSet(m)
  OBVIOUS
<1>5. Sets!With(u, n, c) = Sets!With(K, n, c)
  <2>1. DOMAIN u \cup {n} = DOMAIN K \cup {n} /\ \A x \in DOMAIN u : u[x] = K[x]
    BY <1>1 DEF Sets!Without
  <2>2. \A x \in DOMAIN K \cup {n} : (IF x = n THEN c ELSE u[x]) = (IF x = n THEN c ELSE K[x])
    BY <2>1
  <2> QED
    BY <2>1, <2>2 DEF Sets!With
<1> QED
  BY <1>2, <1>3, <1>4, <1>5, TrackExact

(* The assertions of doUntrack. *)
LEMMA ExactConsistent == ASSUME NEW K, NEW n PROVE Sets!Consistent(Exact(K), n)
<1> SUFFICES ASSUME n \in DOMAIN K, NEW p \in Sets!Range(K[n])
             PROVE  n \in Sets!At(Exact(K).kv, p) /\ n \in Sets!At(Exact(K).key, p.key)
  BY DEF Sets!Consistent, Exact
<1>1. Exact(K).kv = Inverted(PairsOf(K)) /\ Exact(K).key = Inverted(KeysIn(K))
  BY DEF Exact
<1>2. n \in DOMAIN PairsOf(K) /\ p \in PairsOf(K)[n] /\ n \in DOMAIN KeysIn(K) /\ p.key \in KeysIn(K)[n]
  BY DEF PairsOf, KeysIn, Sets!KeysOf
<1> QED
  BY <1>1, <1>2, InvertedAt

-----------------------------------------------------------------------------
(***************************************************************************)
(* Sets.Query: whichever index is the best one, it has every name that is  *)
(* selected, and only names that are known.                                *)
(***************************************************************************)
LEMMA BestIsOne ==
    ASSUME NEW all, NEW n \in Nat \ {0}, DOMAIN all = 1..n, \A i \in 1..n : all[i].cardinality \in Nat
    PROVE  \E i \in 1..n : Sets!Best(all) = all[i]
<1>1. PICK C : C = {all[i].cardinality : i \in 1..n}
  OBVIOUS
<1>2. C \subseteq Nat /\ C # {}
  <2>1. 1 \in 1..n
    OBVIOUS
  <2> QED
    BY <2>1, <1>1
<1>3. PICK c \in C : \A d \in C : c <= d
  BY <1>2, LeastNumber
<1>4. PICK T : T = {i \in DOMAIN all : \A j \in DOMAIN all : all[i].cardinality <= all[j].cardinality}
  OBVIOUS
<1>5. T \subseteq Nat /\ T # {}
  <2>1. T \subseteq Nat
    BY <1>4
  <2>2. PICK k \in 1..n : c = all[k].cardinality
    BY <1>1, <1>3
  <2>3. k \in T
    BY <2>2, <1>1, <1>3, <1>4
  <2> QED
    BY <2>1, <2>3
<1>6. PICK x \in T : \A y \in T : x <= y
  BY <1>5, LeastNumber
<1>7. Sets!Min(T) = x
  BY <1>5, <1>6, LeastIsMin
<1> QED
  BY <1>4, <1>6, <1>7 DEF Sets!Best

(* An index that a query may use. *)
Useful(c, raw, labels) ==
    /\ c.cardinality \in Nat
    /\ c.names \subseteq DOMAIN labels
    /\ \A n \in DOMAIN labels : Sets!Selects(raw, labels[n]) => n \in c.names

Labelled(labels) == IsFiniteSet(DOMAIN labels) /\ \A n \in DOMAIN labels : Sets!RawLabels(labels[n])

CanonicalOf(labels) == [n \in DOMAIN labels |-> Sets!CreateSet(labels[n])]

LEMMA FoundByPair ==
    ASSUME NEW labels, Labelled(labels), NEW k, NEW v
    PROVE  Sets!At(Exact(CanonicalOf(labels)).kv, [key |-> k, value |-> v])
               = {n \in DOMAIN labels : k \in DOMAIN labels[n] /\ labels[n][k] = v}
<1>1. PICK h : h = PairsOf(CanonicalOf(labels))
  OBVIOUS
<1>2. Exact(CanonicalOf(labels)).kv = Inverted(h)
  BY <1>1 DEF Exact
<1>3. DOMAIN h = DOMAIN labels /\ \A n \in DOMAIN labels : h[n] = {[key |-> x, value |-> labels[n][x]] : x \in DOMAIN labels[n]}
  <2>1. DOMAIN h = DOMAIN labels /\ \A n \in DOMAIN labels : h[n] = Sets!Range(Sets!CreateSet(labels[n]))
    BY <1>1 DEF PairsOf, CanonicalOf
  <2> QED
    BY <2>1, SetSorted DEF Labelled
<1>4. \A n \in DOMAIN labels : [key |-> k, value |-> v] \in h[n] <=> (k \in DOMAIN labels[n] /\ labels[n][k] = v)
  <2> TAKE n \in DOMAIN labels
  <2>1. \A x \in DOMAIN labels[n] : [key |-> k, value |-> v] = [key |-> x, value |-> labels[n][x]] <=> (x = k /\ labels[n][x] = v)
    OBVIOUS
  <2> QED
    BY <2>1, <1>3
<1> QED
  BY <1>2, <1>3, <1>4, InvertedAt

LEMMA FoundByKey ==
    ASSUME NEW labels, Labelled(labels), NEW k
    PROVE  Sets!At(Exact(CanonicalOf(labels)).key, k) = {n \in DOMAIN labels : k \in DOMAIN labels[n]}
<1>1. PICK h : h = KeysIn(CanonicalOf(labels))
  OBVIOUS
<1>2. Exact(CanonicalOf(labels)).key = Inverted(h)
  BY <1>1 DEF Exact
<1>3. DOMAIN h = DOMAIN labels /\ \A n \in DOMAIN labels : h[n] = DOMAIN labels[n]
  <2>1. DOMAIN h = DOMAIN labels /\ \A n \in DOMAIN labels : h[n] = Sets!KeysOf(Sets!CreateSet(labels[n]))
    BY <1>1 DEF KeysIn, CanonicalOf
  <2>2. ASSUME NEW n \in DOMAIN labels PROVE Sets!KeysOf(Sets!CreateSet(labels[n])) = DOMAIN labels[n]
    <3>1. Sets!Range(Sets!CreateSet(labels[n])) = {[key |-> x, value |-> labels[n][x]] : x \in DOMAIN labels[n]}
      BY SetSorted DEF Labelled
    <3>2. PICK P : P = Sets!Range(Sets!CreateSet(labels[n]))
      OBVIOUS
    <3>3. \A p \in P : \E x \in DOMAIN labels[n] : p.key = x
      BY <3>1, <3>2
    <3>4. \A x \in DOMAIN labels[n] : \E p \in P : p.key = x
      <4> TAKE x \in DOMAIN labels[n]
      <4>1. [key |-> x, value |-> labels[n][x]] \in P
        BY <3>1, <3>2
      <4> QED
        BY <4>1
    <3>5. Sets!KeysOf(Sets!CreateSet(labels[n])) = {p.key : p \in P}
      BY <3>2 DEF Sets!KeysOf
    <3>6. {p.key : p \in P} = DOMAIN labels[n]
      BY <3>3, <3>4
    <3> QED
      BY <3>5, <3>6
  <2> QED
    BY <2>1, <2>2
<1> QED
  BY <1>2, <1>3, InvertedAt

LEMMA AllUseful ==
    ASSUME NEW labels, Labelled(labels), NEW raw
    PROVE  Useful(Sets!IndexAll(Exact(CanonicalOf(labels))), raw, labels)
<1>1. Exact(CanonicalOf(labels)).known = CanonicalOf(labels) /\ DOMAIN CanonicalOf(labels) = DOMAIN labels
  BY DEF Exact, CanonicalOf
<1>2. Sets!Cardinality(DOMAIN labels) \in Nat
  BY SameCardinality, FS_CardinalityType DEF Labelled
<1> QED
  BY <1>1, <1>2 DEF Useful, Sets!IndexAll

LEMMA KeyUseful ==
    ASSUME NEW labels, Labelled(labels), NEW raw, NEW i \in DOMAIN raw, raw[i].op = "Exists"
    PROVE  Useful(Sets!IndexKeyExist(Exact(CanonicalOf(labels)), raw[i]), raw, labels)
<1>1. PICK F : F = {n \in DOMAIN labels : raw[i].key \in DOMAIN labels[n]}
  OBVIOUS
<1>2. Sets!IndexKeyExist(Exact(CanonicalOf(labels)), raw[i]) = [cardinality |-> Sets!Cardinality(F), names |-> F]
  BY <1>1, FoundByKey DEF Sets!IndexKeyExist
<1>3. Sets!Cardinality(F) \in Nat
  BY <1>1, SameCardinality, FS_CardinalityType, FS_Subset DEF Labelled
<1>4. \A n \in DOMAIN labels : Sets!Selects(raw, labels[n]) => raw[i].key \in DOMAIN labels[n]
  BY DEF Sets!Selects, Sets!Satisfies
<1> QED
  BY <1>1, <1>2, <1>3, <1>4 DEF Useful

LEMMA ValuesUseful ==
    ASSUME NEW labels, Labelled(labels), NEW raw \in Seq(Sets!RawReqmt), NEW i \in DOMAIN raw, raw[i].op = "In"
    PROVE  Useful(Sets!IndexKeyValues(Exact(CanonicalOf(labels)), raw[i]), raw, labels)
<1>1. PICK k, values : k = raw[i].key /\ values = raw[i].values
  OBVIOUS
<1>2. PICK found : found = [j \in DOMAIN values |-> {n \in DOMAIN labels : k \in DOMAIN labels[n] /\ labels[n][k] = values[j]}]
  OBVIOUS
<1>3. PICK sizes : sizes = [j \in DOMAIN values |-> Sets!Cardinality(found[j])]
  OBVIOUS
<1>4. Sets!IndexKeyValues(Exact(CanonicalOf(labels)), raw[i])
         = [cardinality |-> Sets!SumFunction(sizes), names |-> UNION Sets!Range(found)]
  <2>1. found = [j \in DOMAIN values |-> Sets!At(Exact(CanonicalOf(labels)).kv, [key |-> k, value |-> values[j]])]
    BY <1>2, FoundByPair
  <2>2. sizes = [j \in DOMAIN found |-> Sets!Cardinality(found[j])]
    BY <1>2, <1>3
  <2> QED
    BY <2>1, <2>2, <1>1 DEF Sets!IndexKeyValues
<1>5. Sets!SumFunction(sizes) \in Nat
  <2>1. raw[i] \in Sets!RawReqmt
    OBVIOUS
  <2>2. values \in Seq(Int)
    BY <2>1, <1>1 DEF Sets!RawReqmt
  <2>3. IsFiniteSet(DOMAIN sizes)
    BY <2>2, <1>3, FS_Interval
  <2>4. \A j \in DOMAIN sizes : sizes[j] \in Nat
    <3> TAKE j \in DOMAIN sizes
    <3>1. found[j] \subseteq DOMAIN labels /\ sizes[j] = Sets!Cardinality(found[j])
      BY <1>2, <1>3
    <3> QED
      BY <3>1, SameCardinality, FS_CardinalityType, FS_Subset DEF Labelled
  <2>5. SumFunction(sizes) \in Nat
    BY <2>3, <2>4, SumNat
  <2>6. Sets!SumFunction(sizes) = SumFunction(sizes)
    BY DEF Sets!SumFunction, SumFunction, Sets!SumFunctionOnSet, SumFunctionOnSet, Sets!FoldFunctionOnSet, FoldFunctionOnSet,
           Sets!MapThenFoldSet, MapThenFoldSet
  <2> QED
    BY <2>5, <2>6
<1>6. UNION Sets!Range(found) \subseteq DOMAIN labels
  BY <1>2 DEF Sets!Range
<1>7. ASSUME NEW n \in DOMAIN labels, Sets!Selects(raw, labels[n]) PROVE n \in UNION Sets!Range(found)
  <2>1. k \in DOMAIN labels[n] /\ labels[n][k] \in Sets!Range(values)
    BY <1>1, <1>7 DEF Sets!Selects, Sets!Satisfies
  <2>2. PICK j \in DOMAIN values : labels[n][k] = values[j]
    BY <2>1 DEF Sets!Range
  <2>3. j \in DOMAIN found /\ n \in found[j]
    BY <2>1, <2>2, <1>2
  <2> QED
    BY <2>3 DEF Sets!Range
<1> QED
  BY <1>4, <1>5, <1>6, <1>7 DEF Useful

LEMMA BestUseful ==
    ASSUME NEW labels, Labelled(labels), NEW raw \in Seq(Sets!RawReqmt)
    PROVE  Useful(Sets!BestIndex(Exact(CanonicalOf(labels)), Sets!CreateSelector(raw)), raw, labels)
<1>1. PICK s : s = Exact(CanonicalOf(labels))
  OBVIOUS
<1>2. PICK exist, a : exist = Sets!ReqmtsOf(raw, "Exists") /\ Sorted(exist, a)
  BY ReqmtsSorted
<1>3. PICK in, b : in = Sets!ReqmtsOf(raw, "In") /\ Sorted(in, b)
  BY ReqmtsSorted
<1>4. a \in Nat /\ DOMAIN exist = 1..a /\ b \in Nat /\ DOMAIN in = 1..b
  BY <1>2, <1>3 DEF Sorted
<1>5. PICK A, B : A = [i \in DOMAIN exist |-> Sets!IndexKeyExist(s, exist[i])] /\ B = [i \in DOMAIN in |-> Sets!IndexKeyValues(s, in[i])]
  OBVIOUS
<1>6. PICK x : x = Sets!IndexAll(s)
  OBVIOUS
<1>7. PICK all : all = <<x>> \o A \o B
  OBVIOUS
<1>8. Sets!BestIndex(s, Sets!CreateSelector(raw)) = Sets!Best(all)
  BY <1>2, <1>3, <1>5, <1>6, <1>7 DEF Sets!BestIndex, Sets!CreateSelector
<1>9. Useful(x, raw, labels)
  BY <1>1, <1>6, AllUseful
<1>10. \A i \in 1..a : Useful(A[i], raw, labels)
  <2> TAKE i \in 1..a
  <2>1. exist[i] \in Sets!Range(exist) /\ A[i] = Sets!IndexKeyExist(s, exist[i])
    BY <1>4, <1>5 DEF Sets!Range
  <2>2. PICK j \in DOMAIN raw : raw[j].op = "Exists" /\ exist[i] = raw[j]
    BY <2>1, <1>2, ReqmtsSorted
  <2> QED
    BY <2>1, <2>2, <1>1, KeyUseful
<1>11. \A i \in 1..b : Useful(B[i], raw, labels)
  <2> TAKE i \in 1..b
  <2>1. in[i] \in Sets!Range(in) /\ B[i] = Sets!IndexKeyValues(s, in[i])
    BY <1>4, <1>5 DEF Sets!Range
  <2>2. PICK j \in DOMAIN raw : raw[j].op = "In" /\ in[i] = raw[j]
    BY <2>1, <1>3, ReqmtsSorted
  <2> QED
    BY <2>1, <2>2, <1>1, ValuesUseful
<1>12. PICK n \in Nat \ {0} : DOMAIN all = 1..n /\ \A i \in 1..n : Useful(all[i], raw, labels)
  <2>1. PICK V : V = {x} \cup {A[i] : i \in 1..a} \cup {B[i] : i \in 1..b}
    OBVIOUS
  <2>2. \A v \in V : Useful(v, raw, labels)
    BY <2>1, <1>9, <1>10, <1>11
  <2>3. A \in Seq(V) /\ B \in Seq(V) /\ <<x>> \in Seq(V)
    <3>1. A = [i \in 1..a |-> A[i]] /\ B = [i \in 1..b |-> B[i]]
      BY <1>4, <1>5
    <3>2. A \in [1..a -> V] /\ B \in [1..b -> V] /\ x \in V
      BY <3>1, <2>1
    <3> QED
      BY <3>2, <1>4
  <2>4. all \in Seq(V) /\ Len(all) > 0
    BY <2>3, <1>7
  <2> QED
    BY <2>2, <2>4
<1>13. \E i \in 1..n : Sets!Best(all) = all[i]
  BY <1>12, BestIsOne DEF Useful
<1> QED
  BY <1>1, <1>8, <1>12, <1>13

-----------------------------------------------------------------------------
(***************************************************************************)
(* The inductive invariant.  The sets of a namespace are exactly what was  *)
(* last tracked under its names.  A query that iterates, during which no   *)
(* writer gets the lock, has returned and has left what it is due to       *)
(* return, and names that the selector will filter out.                    *)
(***************************************************************************)
LabelsIn(w, ns) == [n \in {n \in Pods : <<ns, n>> \in DOMAIN w} |-> w[<<ns, n>>]]

SetOp == [op : {"track"}, ns : Namespaces, name : Pods, labels : LabelMaps] \cup [op : {"untrack"}, ns : Namespaces, name : Pods]

Iterates(q) ==
    LET known == Sets!SetsOf(q.ns).known
    IN  /\ q = [ns |-> q.ns, selector |-> q.selector, due |-> q.due, got |-> q.got, left |-> q.left]
        /\ q.left # {} => q.ns \in DOMAIN index
        /\ q.left \subseteq DOMAIN known
        /\ q.got \subseteq q.due /\ q.due \subseteq q.got \cup q.left
        /\ \A n \in q.left : Sets!Matches(q.selector, known[n]) <=> n \in q.due

SetInv ==
    /\ DOMAIN wanted \subseteq Namespaces \X Pods /\ wanted \in [DOMAIN wanted -> LabelMaps] /\ IsFiniteSet(DOMAIN wanted)
    /\ index = [ns \in DOMAIN index |-> index[ns]] /\ \A ns, n : <<ns, n>> \in DOMAIN wanted => ns \in DOMAIN index
    /\ \A ns : Sets!SetsOf(ns) = Exact(CanonicalOf(LabelsIn(wanted, ns)))
    /\ writer \in [Writers -> {<<>>} \cup {<<o>> : o \in SetOp}]
    /\ reader = [r \in Readers |-> reader[r]]
    /\ \A r \in Readers : reader[r] = <<>> \/ \E q : reader[r] = <<q>> /\ Iterates(q)
    /\ answer = [r \in Readers |-> answer[r]] /\ \A r \in Readers : answer[r].got = answer[r].due
    /\ panicked = FALSE

LEMMA EmptyExact == ASSUME NEW K, DOMAIN K = {} PROVE Exact(CanonicalOf(K)) = Sets!NewSets
<1>1. CanonicalOf(K) = Sets!EmptyMap
  BY DEF CanonicalOf, Sets!EmptyMap
<1>2. DOMAIN Sets!EmptyMap = {}
  BY DEF Sets!EmptyMap
<1>3. DOMAIN PairsOf(Sets!EmptyMap) = {} /\ DOMAIN KeysIn(Sets!EmptyMap) = {}
  BY <1>2 DEF PairsOf, KeysIn
<1>4. ASSUME NEW h, DOMAIN h = {} PROVE Inverted(h) = Sets!EmptyMap
  <2>1. UNION {h[n] : n \in DOMAIN h} = {}
    BY <1>4
  <2> QED
    BY <2>1 DEF Inverted, Sets!EmptyMap
<1> QED
  BY <1>1, <1>3, <1>4 DEF Exact, Sets!NewSets

LEMMA SetInit == Sets!Init => SetInv
<1> SUFFICES ASSUME Sets!Init PROVE SetInv
  OBVIOUS
<1>1. DOMAIN wanted = {} /\ wanted \in [{} -> LabelMaps] /\ DOMAIN index = {} /\ index = [ns \in {} |-> index[ns]]
  BY DEF Sets!Init, Sets!EmptyMap
<1>2. \A ns : Sets!SetsOf(ns) = Exact(CanonicalOf(LabelsIn(wanted, ns)))
  <2> TAKE ns
  <2>1. DOMAIN LabelsIn(wanted, ns) = {}
    BY <1>1 DEF LabelsIn
  <2>2. Sets!SetsOf(ns) = Sets!NewSets
    BY <1>1 DEF Sets!SetsOf
  <2> QED
    BY <2>1, <2>2, EmptyExact
<1>3. writer \in [Writers -> {<<>>} \cup {<<o>> : o \in SetOp}] /\ panicked = FALSE
  BY DEF Sets!Init
<1>4. reader = [r \in Readers |-> reader[r]] /\ \A r \in Readers : reader[r] = <<>>
  BY DEF Sets!Init
<1>5. answer = [r \in Readers |-> answer[r]] /\ \A r \in Readers : answer[r].got = answer[r].due
  BY DEF Sets!Init, Sets!NoAnswer
<1>6. IsFiniteSet(DOMAIN wanted)
  BY <1>1, FS_EmptySet
<1> QED
  BY <1>1, <1>2, <1>3, <1>4, <1>5, <1>6 DEF SetInv

LEMMA SetLabelled == ASSUME SetInv, NEW ns PROVE Labelled(LabelsIn(wanted, ns))
<1>1. PICK D, T, f : /\ D = {n \in Pods : <<ns, n>> \in DOMAIN wanted} /\ T = {x \in DOMAIN wanted : x[1] = ns}
                     /\ f = [x \in T |-> x[2]]
  OBVIOUS
<1>2. \A x \in T : x[1] = ns /\ x[2] \in Pods /\ x = <<ns, x[2]>> /\ x \in DOMAIN wanted
  BY <1>1 DEF SetInv
<1>3. f \in Surjection(T, D)
  <2>1. f \in [T -> D]
    BY <1>1, <1>2
  <2>2. \A n \in D : <<ns, n>> \in T /\ f[<<ns, n>>] = n
    BY <1>1
  <2> QED
    BY <2>1, <2>2 DEF Surjection
<1>4. IsFiniteSet(T)
  BY <1>1, FS_Subset DEF SetInv
<1>5. IsFiniteSet(D)
  BY <1>3, <1>4, FS_Surjection
<1>6. DOMAIN LabelsIn(wanted, ns) = D /\ \A n \in D : LabelsIn(wanted, ns)[n] \in LabelMaps
  BY <1>1 DEF LabelsIn, SetInv
<1> QED
  BY <1>5, <1>6, LabelsAssumption DEF Labelled

(* Tracking and untracking, in the namespace of the operation and in the others. *)
LEMMA LabelsWith ==
    ASSUME NEW w, NEW ns, NEW n \in Pods, NEW m, NEW v, v = Sets!With(w, <<ns, n>>, m)
    PROVE  /\ CanonicalOf(LabelsIn(v, ns)) = Sets!With(CanonicalOf(LabelsIn(w, ns)), n, Sets!CreateSet(m))
           /\ \A o : o # ns => LabelsIn(v, o) = LabelsIn(w, o)
<1>1. DOMAIN v = DOMAIN w \cup {<<ns, n>>} /\ v[<<ns, n>>] = m /\ \A x \in DOMAIN w : x # <<ns, n>> => v[x] = w[x]
  BY DEF Sets!With
<1>2. PICK D : D = {x \in Pods : <<ns, x>> \in DOMAIN w}
  OBVIOUS
<1>3. {x \in Pods : <<ns, x>> \in DOMAIN v} = D \cup {n}
  BY <1>1, <1>2
<1>4. LabelsIn(v, ns) = [x \in D \cup {n} |-> IF x = n THEN m ELSE w[<<ns, x>>]]
  BY <1>1, <1>2, <1>3 DEF LabelsIn
<1>5. LabelsIn(w, ns) = [x \in D |-> w[<<ns, x>>]]
  BY <1>2 DEF LabelsIn
<1>6. CanonicalOf(LabelsIn(v, ns)) = Sets!With(CanonicalOf(LabelsIn(w, ns)), n, Sets!CreateSet(m))
  BY <1>4, <1>5 DEF CanonicalOf, Sets!With
<1>7. ASSUME NEW o, o # ns PROVE LabelsIn(v, o) = LabelsIn(w, o)
  <2>1. \A x : <<o, x>> # <<ns, n>> /\ (<<o, x>> \in DOMAIN v <=> <<o, x>> \in DOMAIN w)
    BY <1>1, <1>7
  <2>2. {x \in Pods : <<o, x>> \in DOMAIN v} = {x \in Pods : <<o, x>> \in DOMAIN w}
    BY <2>1
  <2> QED
    BY <2>1, <2>2, <1>1 DEF LabelsIn
<1> QED
  BY <1>6, <1>7

LEMMA LabelsWithout ==
    ASSUME NEW w, NEW ns, NEW n \in Pods, NEW v, v = Sets!Without(w, <<ns, n>>)
    PROVE  /\ CanonicalOf(LabelsIn(v, ns)) = Sets!Without(CanonicalOf(LabelsIn(w, ns)), n)
           /\ \A o : o # ns => LabelsIn(v, o) = LabelsIn(w, o)
<1>1. DOMAIN v = DOMAIN w \ {<<ns, n>>} /\ \A x \in DOMAIN v : v[x] = w[x]
  BY DEF Sets!Without
<1>2. PICK D : D = {x \in Pods : <<ns, x>> \in DOMAIN w}
  OBVIOUS
<1>3. {x \in Pods : <<ns, x>> \in DOMAIN v} = D \ {n}
  BY <1>1, <1>2
<1>4. LabelsIn(v, ns) = [x \in D \ {n} |-> w[<<ns, x>>]]
  BY <1>1, <1>2, <1>3 DEF LabelsIn
<1>5. LabelsIn(w, ns) = [x \in D |-> w[<<ns, x>>]]
  BY <1>2 DEF LabelsIn
<1>6. CanonicalOf(LabelsIn(v, ns)) = Sets!Without(CanonicalOf(LabelsIn(w, ns)), n)
  BY <1>4, <1>5 DEF CanonicalOf, Sets!Without
<1>7. ASSUME NEW o, o # ns PROVE LabelsIn(v, o) = LabelsIn(w, o)
  <2>1. \A x : <<o, x>> # <<ns, n>> /\ (<<o, x>> \in DOMAIN v <=> <<o, x>> \in DOMAIN w)
    BY <1>1, <1>7
  <2>2. {x \in Pods : <<o, x>> \in DOMAIN v} = {x \in Pods : <<o, x>> \in DOMAIN w}
    BY <2>1
  <2> QED
    BY <2>1, <2>2, <1>1 DEF LabelsIn
<1> QED
  BY <1>6, <1>7

LEMMA SetTracked ==
    ASSUME SetInv, NEW o, o \in [op : {"track"}, ns : Namespaces, name : Pods, labels : LabelMaps], Sets!Track(o)
    PROVE  /\ DOMAIN wanted' \subseteq Namespaces \X Pods /\ wanted' \in [DOMAIN wanted' -> LabelMaps] /\ IsFiniteSet(DOMAIN wanted')
           /\ index' = [ns \in DOMAIN index' |-> index'[ns]] /\ \A ns, n : <<ns, n>> \in DOMAIN wanted' => ns \in DOMAIN index'
           /\ \A ns : Sets!SetsOf(ns)' = Exact(CanonicalOf(LabelsIn(wanted', ns)))
           /\ panicked' = FALSE
<1>1. PICK ns, n, m : ns = o.ns /\ n = o.name /\ m = o.labels /\ ns \in Namespaces /\ n \in Pods /\ m \in LabelMaps
  OBVIOUS
<1>2. PICK v, K : v = wanted' /\ K = CanonicalOf(LabelsIn(wanted, ns))
  OBVIOUS
<1>3. v = Sets!With(wanted, <<ns, n>>, m)
  BY <1>1, <1>2 DEF Sets!Track
<1>4. Sets!SetsOf(ns) = Exact(K)
  BY <1>2 DEF SetInv
<1>5. index' = Sets!With(index, ns, Exact(Sets!With(K, n, Sets!CreateSet(m))))
  <2>1. PICK D : K = [x \in D |-> K[x]]
    <3>1. K = [x \in DOMAIN LabelsIn(wanted, ns) |-> K[x]]
      BY <1>2 DEF CanonicalOf
    <3> QED
      BY <3>1
  <2>2. Sets!DoTrack(Sets!DoUntrack(Exact(K), n), n, m) = Exact(Sets!With(K, n, Sets!CreateSet(m)))
    BY <2>1, RetrackExact
  <2> QED
    BY <2>2, <1>1, <1>4 DEF Sets!Track
<1>6. PICK E : E = Exact(Sets!With(K, n, Sets!CreateSet(m)))
  OBVIOUS
<1>7. DOMAIN index' = DOMAIN index \cup {ns} /\ index'[ns] = E /\ \A y \in DOMAIN index : y # ns => index'[y] = index[y]
  BY <1>5, <1>6 DEF Sets!With
<1>8. DOMAIN v = DOMAIN wanted \cup {<<ns, n>>} /\ \A x \in DOMAIN v : v[x] = IF x = <<ns, n>> THEN m ELSE wanted[x]
  BY <1>3 DEF Sets!With
<1>9. v \in [DOMAIN v -> LabelMaps]
  <2>1. \A x \in DOMAIN v : v[x] \in LabelMaps
    BY <1>1, <1>8 DEF SetInv
  <2>2. v = [x \in DOMAIN v |-> v[x]]
    BY <1>3, <1>8 DEF Sets!With
  <2> QED
    BY <2>1, <2>2
<1>10. IsFiniteSet(DOMAIN v) /\ DOMAIN v \subseteq Namespaces \X Pods
  <2>1. IsFiniteSet(DOMAIN wanted) /\ DOMAIN wanted \subseteq Namespaces \X Pods
    BY DEF SetInv
  <2>2. IsFiniteSet(DOMAIN v)
    BY <2>1, <1>8, FS_AddElement
  <2> QED
    BY <2>1, <2>2, <1>1, <1>8
<1>11. index' = [y \in DOMAIN index' |-> index'[y]]
  BY <1>5, <1>7 DEF Sets!With
<1>12. \A y, x : <<y, x>> \in DOMAIN v => y \in DOMAIN index'
  BY <1>7, <1>8 DEF SetInv
<1>13. ASSUME NEW y PROVE Sets!SetsOf(y)' = Exact(CanonicalOf(LabelsIn(v, y)))
  <2>1. CASE y = ns
    <3>1. CanonicalOf(LabelsIn(v, ns)) = Sets!With(K, n, Sets!CreateSet(m))
      BY <1>1, <1>2, <1>3, LabelsWith
    <3>2. Sets!SetsOf(y)' = E
      BY <2>1, <1>7 DEF Sets!SetsOf
    <3> QED
      BY <3>1, <3>2, <2>1, <1>6
  <2>2. CASE y # ns
    <3>1. LabelsIn(v, y) = LabelsIn(wanted, y)
      BY <2>2, <1>1, <1>3, LabelsWith
    <3>2. Sets!SetsOf(y)' = Sets!SetsOf(y)
      BY <2>2, <1>7 DEF Sets!SetsOf
    <3>3. Sets!SetsOf(y) = Exact(CanonicalOf(LabelsIn(wanted, y)))
      BY DEF SetInv
    <3> QED
      BY <3>1, <3>2, <3>3
  <2> QED
    BY <2>1, <2>2
<1>14. panicked' = FALSE
  <2>1. Sets!Consistent(Sets!SetsOf(o.ns), o.name)
    BY <1>1, <1>4, ExactConsistent
  <2> QED
    BY <2>1 DEF Sets!Track, SetInv
<1> QED
  BY <1>2, <1>9, <1>10, <1>11, <1>12, <1>13, <1>14

LEMMA SetUntracked ==
    ASSUME SetInv, NEW o, o \in [op : {"untrack"}, ns : Namespaces, name : Pods], Sets!Untrack(o)
    PROVE  /\ DOMAIN wanted' \subseteq Namespaces \X Pods /\ wanted' \in [DOMAIN wanted' -> LabelMaps] /\ IsFiniteSet(DOMAIN wanted')
           /\ index' = [ns \in DOMAIN index' |-> index'[ns]] /\ \A ns, n : <<ns, n>> \in DOMAIN wanted' => ns \in DOMAIN index'
           /\ \A ns : Sets!SetsOf(ns)' = Exact(CanonicalOf(LabelsIn(wanted', ns)))
           /\ panicked' = FALSE
<1>1. PICK ns, n : ns = o.ns /\ n = o.name /\ ns \in Namespaces /\ n \in Pods
  OBVIOUS
<1>2. PICK v, K : v = wanted' /\ K = CanonicalOf(LabelsIn(wanted, ns))
  OBVIOUS
<1>3. v = Sets!Without(wanted, <<ns, n>>)
  BY <1>1, <1>2 DEF Sets!Untrack
<1>4. Sets!SetsOf(ns) = Exact(K)
  BY <1>2 DEF SetInv
<1>5. PICK E : E = Exact(Sets!Without(K, n))
  OBVIOUS
<1>6. Sets!DoUntrack(Exact(K), n) = E
  <2>1. PICK D : K = [x \in D |-> K[x]]
    <3>1. K = [x \in DOMAIN LabelsIn(wanted, ns) |-> K[x]]
      BY <1>2 DEF CanonicalOf
    <3> QED
      BY <3>1
  <2> QED
    BY <2>1, <1>5, UntrackExact
<1>7. /\ DOMAIN index' = DOMAIN index /\ index' = [y \in DOMAIN index |-> index'[y]]
      /\ (ns \in DOMAIN index => index'[ns] = E) /\ \A y \in DOMAIN index : y # ns => index'[y] = index[y]
  <2>1. CASE ns \in DOMAIN index
    <3>1. index[ns] = Exact(K)
      BY <2>1, <1>4 DEF Sets!SetsOf
    <3>2. index' = [index EXCEPT ![ns] = E]
      BY <3>1, <2>1, <1>1, <1>6 DEF Sets!Untrack
    <3> QED
      BY <3>2, <2>1 DEF SetInv
  <2>2. CASE ns \notin DOMAIN index
    BY <2>2, <1>1 DEF Sets!Untrack, SetInv
  <2> QED
    BY <2>1, <2>2
<1>8. DOMAIN v = DOMAIN wanted \ {<<ns, n>>} /\ \A x \in DOMAIN v : v[x] = wanted[x]
  BY <1>3 DEF Sets!Without
<1>9. v \in [DOMAIN v -> LabelMaps]
  <2>1. \A x \in DOMAIN v : v[x] \in LabelMaps
    BY <1>8 DEF SetInv
  <2>2. v = [x \in DOMAIN v |-> v[x]]
    BY <1>3, <1>8 DEF Sets!Without
  <2> QED
    BY <2>1, <2>2
<1>10. IsFiniteSet(DOMAIN v) /\ DOMAIN v \subseteq Namespaces \X Pods
  <2>1. IsFiniteSet(DOMAIN wanted) /\ DOMAIN wanted \subseteq Namespaces \X Pods
    BY DEF SetInv
  <2>2. IsFiniteSet(DOMAIN v)
    BY <2>1, <1>8, FS_RemoveElement
  <2> QED
    BY <2>1, <2>2, <1>8
<1>11. \A y, x : <<y, x>> \in DOMAIN v => y \in DOMAIN index'
  BY <1>7, <1>8 DEF SetInv
<1>12. ASSUME NEW y PROVE Sets!SetsOf(y)' = Exact(CanonicalOf(LabelsIn(v, y)))
  <2>0. Sets!SetsOf(y) = Exact(CanonicalOf(LabelsIn(wanted, y)))
    BY DEF SetInv
  <2>1. CASE y = ns /\ ns \in DOMAIN index
    <3>1. CanonicalOf(LabelsIn(v, ns)) = Sets!Without(K, n)
      BY <1>1, <1>2, <1>3, LabelsWithout
    <3>2. Sets!SetsOf(y)' = E
      BY <2>1, <1>7 DEF Sets!SetsOf
    <3> QED
      BY <3>1, <3>2, <2>1, <1>5
  <2>2. CASE y = ns /\ ns \notin DOMAIN index
    <3>1. DOMAIN LabelsIn(v, y) = {}
      BY <2>2, <1>7, <1>11 DEF LabelsIn
    <3>2. Sets!SetsOf(y)' = Sets!NewSets
      BY <2>2, <1>7 DEF Sets!SetsOf
    <3> QED
      BY <3>1, <3>2, EmptyExact
  <2>3. CASE y # ns
    <3>1. LabelsIn(v, y) = LabelsIn(wanted, y)
      BY <2>3, <1>1, <1>3, LabelsWithout
    <3>2. Sets!SetsOf(y)' = Sets!SetsOf(y)
      BY <2>3, <1>7 DEF Sets!SetsOf
    <3> QED
      BY <3>1, <3>2, <2>0
  <2> QED
    BY <2>1, <2>2, <2>3
<1>13. panicked' = FALSE
  <2>1. Sets!Consistent(Sets!SetsOf(o.ns), o.name)
    BY <1>1, <1>4, ExactConsistent
  <2> QED
    BY <2>1 DEF Sets!Untrack, SetInv
<1> QED
  BY <1>2, <1>7, <1>9, <1>10, <1>11, <1>12, <1>13

LEMMA SetWritten == ASSUME SetInv, NEW w \in Writers, Sets!Write(w) PROVE SetInv'
<1>1. PICK o \in SetOp : writer[w] = <<o>>
  BY DEF SetInv, Sets!Write
<1>2. writer' = [writer EXCEPT ![w] = <<>>] /\ reader' = reader /\ answer' = answer /\ \A r \in Readers : reader[r] = <<>>
  BY DEF Sets!Write, Sets!NotReading
<1>3. IF o.op = "track" THEN Sets!Track(o) ELSE Sets!Untrack(o)
  BY <1>1 DEF Sets!Write
<1>4. writer' \in [Writers -> {<<>>} \cup {<<x>> : x \in SetOp}]
  BY <1>2 DEF SetInv
<1>5. /\ reader' = [r \in Readers |-> reader'[r]] /\ \A r \in Readers : reader'[r] = <<>>
      /\ answer' = [r \in Readers |-> answer'[r]] /\ \A r \in Readers : answer'[r].got = answer'[r].due
  BY <1>2 DEF SetInv
<1>6. CASE o \in [op : {"track"}, ns : Namespaces, name : Pods, labels : LabelMaps]
  <2>1. Sets!Track(o)
    BY <1>3, <1>6
  <2> QED
    BY <2>1, <1>4, <1>5, <1>6, SetTracked DEF SetInv
<1>7. CASE o \in [op : {"untrack"}, ns : Namespaces, name : Pods]
  <2>1. Sets!Untrack(o)
    BY <1>3, <1>7
  <2> QED
    BY <2>1, <1>4, <1>5, <1>7, SetUntracked DEF SetInv
<1> QED
  BY <1>6, <1>7 DEF SetOp

(* While the index does not change, neither does what a query iterates over. *)
LEMMA IteratesOn == ASSUME NEW q, Iterates(q), index' = index PROVE Iterates(q)'
  BY DEF Iterates, Sets!SetsOf

LEMMA SetQueried ==
    ASSUME SetInv, NEW r \in Readers, NEW ns \in Namespaces, NEW raw \in RawSelectors, Sets!Query(r, ns, raw)
    PROVE  SetInv'
<1>0. UNCHANGED <<index, wanted, writer, answer, panicked>>
  BY DEF Sets!Query
<1>1. PICK labels : labels = LabelsIn(wanted, ns) /\ Labelled(labels)
  BY SetLabelled
<1>2. raw \in Seq(Sets!RawReqmt)
  BY LabelsAssumption
<1>3. Sets!SetsOf(ns) = Exact(CanonicalOf(labels))
  BY <1>1 DEF SetInv
<1>4. PICK known : known = CanonicalOf(labels) /\ known = Sets!SetsOf(ns).known /\ DOMAIN known = DOMAIN labels
                   /\ \A n \in DOMAIN labels : known[n] = Sets!CreateSet(labels[n])
  BY <1>3 DEF Exact, CanonicalOf
<1>5. PICK D : D = Sets!Due(ns, raw)
  OBVIOUS
<1>6. D = {n \in DOMAIN labels : Sets!Selects(raw, labels[n])}
  <2>1. DOMAIN labels = {n \in Pods : <<ns, n>> \in DOMAIN wanted} /\ \A n \in DOMAIN labels : labels[n] = wanted[<<ns, n>>]
    BY <1>1 DEF LabelsIn
  <2> QED
    BY <2>1, <1>5 DEF Sets!Due
<1>7. PICK L : L = IF ns \in DOMAIN index THEN Sets!BestIndex(index[ns], Sets!CreateSelector(raw)).names ELSE {}
  OBVIOUS
<1>8. PICK q : q = [ns |-> ns, selector |-> Sets!CreateSelector(raw), due |-> D, got |-> {}, left |-> L]
  OBVIOUS
<1>9. q.ns = ns /\ q.selector = Sets!CreateSelector(raw) /\ q.due = D /\ q.got = {} /\ q.left = L
  BY <1>8
<1>10. CASE ns \in DOMAIN index /\ ~Sets!IsValid(raw)
  <2>1. reader' = reader
    BY <1>10 DEF Sets!Query
  <2> QED
    BY <2>1, <1>0, IteratesOn DEF SetInv, Sets!SetsOf
<1>11. CASE ~(ns \in DOMAIN index /\ ~Sets!IsValid(raw))
  <2>1. reader' = [reader EXCEPT ![r] = <<q>>]
    BY <1>5, <1>7, <1>8, <1>11 DEF Sets!Query
  <2>2. Iterates(q)
    <3>1. CASE ns \notin DOMAIN index
      <4>1. DOMAIN labels = {}
        BY <3>1, <1>1 DEF SetInv, LabelsIn
      <4>2. D = {} /\ L = {}
        BY <4>1, <3>1, <1>6, <1>7
      <4> QED
        BY <4>2, <1>8, <1>9 DEF Iterates
    <3>2. CASE ns \in DOMAIN index /\ Sets!IsValid(raw)
      <4>1. index[ns] = Exact(CanonicalOf(labels))
        BY <3>2, <1>3 DEF Sets!SetsOf
      <4>2. Useful(Sets!BestIndex(index[ns], Sets!CreateSelector(raw)), raw, labels)
        BY <4>1, <1>1, <1>2, BestUseful
      <4>3. L \subseteq DOMAIN labels /\ \A n \in DOMAIN labels : Sets!Selects(raw, labels[n]) => n \in L
        BY <4>2, <3>2, <1>7 DEF Useful
      <4>4. ASSUME NEW n \in L PROVE Sets!Matches(Sets!CreateSelector(raw), known[n]) <=> n \in D
        <5>1. n \in DOMAIN labels /\ Sets!RawLabels(labels[n]) /\ known[n] = Sets!CreateSet(labels[n])
          BY <4>3, <1>1, <1>4 DEF Labelled
        <5> QED
          BY <5>1, <3>2, <1>2, <1>6, MatchesSelects
      <4>5. D \subseteq L
        BY <4>3, <1>6
      <4> QED
        BY <4>3, <4>4, <4>5, <3>2, <1>4, <1>8, <1>9 DEF Iterates
    <3> QED
      BY <3>1, <3>2, <1>11
  <2>3. reader' = [x \in Readers |-> reader'[x]] /\ reader'[r] = <<q>> /\ \A x \in Readers : x # r => reader'[x] = reader[x]
    BY <2>1 DEF SetInv
  <2>4. \A x \in Readers : reader'[x] = <<>> \/ \E p : reader'[x] = <<p>> /\ Iterates(p)'
    <3> TAKE x \in Readers
    <3>1. CASE x = r
      BY <3>1, <2>2, <2>3, <1>0, IteratesOn
    <3>2. CASE x # r
      <4>1. reader'[x] = <<>> \/ \E p : reader'[x] = <<p>> /\ Iterates(p)
        BY <3>2, <2>3 DEF SetInv
      <4> QED
        BY <4>1, <1>0, IteratesOn
    <3> QED
      BY <3>1, <3>2
  <2> QED
    BY <2>3, <2>4, <1>0 DEF SetInv, Sets!SetsOf
<1> QED
  BY <1>10, <1>11

LEMMA SetYielded == ASSUME SetInv, NEW r \in Readers, Sets!Yield(r) PROVE SetInv'
<1>0. UNCHANGED <<index, wanted, writer, answer>>
  BY DEF Sets!Yield
<1>1. PICK q : reader[r] = <<q>> /\ Iterates(q)
  BY DEF Sets!Yield, SetInv
<1>2. reader[r][1] = q
  BY <1>1
<1>3. PICK n \in q.left :
         /\ panicked' = (panicked \/ n \notin DOMAIN index[q.ns].known)
         /\ reader' = [reader EXCEPT ![r] =
               <<[q EXCEPT !.left = q.left \ {n},
                           !.got = IF n \in DOMAIN index[q.ns].known /\ Sets!Matches(q.selector, index[q.ns].known[n])
                                   THEN q.got \cup {n} ELSE q.got]>>]
  BY <1>2 DEF Sets!Yield
<1>4. PICK known : known = Sets!SetsOf(q.ns).known
  OBVIOUS
<1>5. index[q.ns].known = known /\ n \in DOMAIN known /\ (Sets!Matches(q.selector, known[n]) <=> n \in q.due)
  BY <1>1, <1>3, <1>4 DEF Iterates, Sets!SetsOf
<1>6. PICK G : G = IF n \in q.due THEN q.got \cup {n} ELSE q.got
  OBVIOUS
<1>7. PICK p : p = [ns |-> q.ns, selector |-> q.selector, due |-> q.due, got |-> G, left |-> q.left \ {n}]
  OBVIOUS
<1>8. reader' = [reader EXCEPT ![r] = <<p>>]
  <2>1. q = [ns |-> q.ns, selector |-> q.selector, due |-> q.due, got |-> q.got, left |-> q.left]
    BY <1>1 DEF Iterates
  <2>2. G = IF n \in DOMAIN index[q.ns].known /\ Sets!Matches(q.selector, index[q.ns].known[n]) THEN q.got \cup {n} ELSE q.got
    BY <1>5, <1>6
  <2>3. [q EXCEPT !.left = q.left \ {n}, !.got = G] = p
    <3>1. PICK a, b, c, d, e : q = [ns |-> a, selector |-> b, due |-> c, got |-> d, left |-> e]
      BY <2>1
    <3>2. a = q.ns /\ b = q.selector /\ c = q.due
      BY <3>1
    <3>3. PICK L : L = q.left \ {n}
      OBVIOUS
    <3>4. [q EXCEPT !.left = L, !.got = G] = [ns |-> a, selector |-> b, due |-> c, got |-> G, left |-> L]
      <4>1. q \in [ns : {a}, selector : {b}, due : {c}, got : {d}, left : {e}]
        BY <3>1
      <4>2. [q EXCEPT !.left = L, !.got = G] \in [ns : {a}, selector : {b}, due : {c}, got : {G}, left : {L}]
        BY <4>1
      <4>3. \A y \in [ns : {a}, selector : {b}, due : {c}, got : {G}, left : {L}] :
               y = [ns |-> a, selector |-> b, due |-> c, got |-> G, left |-> L]
        OBVIOUS
      <4> QED
        BY <4>2, <4>3, Zenon
    <3> QED
      BY <3>2, <3>3, <3>4, <1>7
  <2> QED
    BY <2>2, <2>3, <1>3
<1>9. p.ns = q.ns /\ p.selector = q.selector /\ p.due = q.due /\ p.got = G /\ p.left = q.left \ {n}
  BY <1>7
<1>10. Iterates(p)
  <2>1. /\ q.left # {} => q.ns \in DOMAIN index
        /\ q.left \subseteq DOMAIN known /\ q.got \subseteq q.due /\ q.due \subseteq q.got \cup q.left
        /\ \A x \in q.left : Sets!Matches(q.selector, known[x]) <=> x \in q.due
    BY <1>1, <1>4 DEF Iterates
  <2>2. G \subseteq q.due /\ q.due \subseteq G \cup (q.left \ {n})
    BY <2>1, <1>6
  <2> QED
    BY <2>1, <2>2, <1>3, <1>4, <1>7, <1>9 DEF Iterates
<1>11. reader' = [x \in Readers |-> reader'[x]] /\ reader'[r] = <<p>> /\ \A x \in Readers : x # r => reader'[x] = reader[x]
  BY <1>8 DEF SetInv
<1>12. \A x \in Readers : reader'[x] = <<>> \/ \E y : reader'[x] = <<y>> /\ Iterates(y)'
  <2> TAKE x \in Readers
  <2>1. CASE x = r
    BY <2>1, <1>0, <1>10, <1>11, IteratesOn
  <2>2. CASE x # r
    <3>1. reader'[x] = <<>> \/ \E y : reader'[x] = <<y>> /\ Iterates(y)
      BY <2>2, <1>11 DEF SetInv
    <3> QED
      BY <3>1, <1>0, IteratesOn
  <2> QED
    BY <2>1, <2>2
<1>13. panicked' = FALSE
  BY <1>3, <1>5 DEF SetInv
<1> QED
  BY <1>0, <1>11, <1>12, <1>13 DEF SetInv, Sets!SetsOf

LEMMA SetUnlocked == ASSUME SetInv, NEW r \in Readers, Sets!RUnlock(r) PROVE SetInv'
<1>0. UNCHANGED <<index, wanted, writer, panicked>>
  BY DEF Sets!RUnlock
<1>1. PICK q : reader[r] = <<q>> /\ Iterates(q)
  BY DEF Sets!RUnlock, SetInv
<1>2. /\ q.left = {} /\ answer' = [answer EXCEPT ![r] = [got |-> q.got, due |-> q.due]]
      /\ reader' = [reader EXCEPT ![r] = <<>>]
  BY <1>1 DEF Sets!RUnlock
<1>3. q.got = q.due
  BY <1>1, <1>2 DEF Iterates
<1>4. answer' = [x \in Readers |-> answer'[x]] /\ \A x \in Readers : answer'[x].got = answer'[x].due
  BY <1>2, <1>3 DEF SetInv
<1>5. reader' = [x \in Readers |-> reader'[x]] /\ reader'[r] = <<>> /\ \A x \in Readers : x # r => reader'[x] = reader[x]
  BY <1>2 DEF SetInv
<1>6. \A x \in Readers : reader'[x] = <<>> \/ \E y : reader'[x] = <<y>> /\ Iterates(y)'
  BY <1>0, <1>5, IteratesOn DEF SetInv
<1> QED
  BY <1>0, <1>4, <1>5, <1>6 DEF SetInv, Sets!SetsOf

LEMMA SetRequested == ASSUME SetInv, NEW w \in Writers, Sets!Request(w) PROVE SetInv'
<1>1. UNCHANGED <<index, wanted, reader, answer, panicked>>
  BY DEF Sets!Request
<1>2. PICK o \in SetOp : writer' = [writer EXCEPT ![w] = <<o>>]
  <2>1. \A ns \in Namespaces, n \in Pods : [op |-> "untrack", ns |-> ns, name |-> n] \in SetOp
    BY DEF SetOp
  <2>2. \A ns \in Namespaces, n \in Pods, m \in LabelMaps : [op |-> "track", ns |-> ns, name |-> n, labels |-> m] \in SetOp
    BY DEF SetOp
  <2> QED
    BY <2>1, <2>2 DEF Sets!Request
<1>3. writer' \in [Writers -> {<<>>} \cup {<<x>> : x \in SetOp}]
  BY <1>2 DEF SetInv
<1>4. \A x \in Readers : reader'[x] = <<>> \/ \E y : reader'[x] = <<y>> /\ Iterates(y)'
  BY <1>1, IteratesOn DEF SetInv
<1> QED
  BY <1>1, <1>3, <1>4 DEF SetInv, Sets!SetsOf

LEMMA SetStep == SetInv /\ [Sets!Next]_Sets!vars => SetInv'
<1> SUFFICES ASSUME SetInv, [Sets!Next]_Sets!vars PROVE SetInv'
  OBVIOUS
<1>1. CASE UNCHANGED Sets!vars
  <2>1. UNCHANGED <<index, wanted, writer, reader, answer, panicked>>
    BY <1>1 DEF Sets!vars
  <2>2. \A x \in Readers : reader'[x] = <<>> \/ \E y : reader'[x] = <<y>> /\ Iterates(y)'
    BY <2>1, IteratesOn DEF SetInv
  <2> QED
    BY <2>1, <2>2 DEF SetInv, Sets!SetsOf
<1> QED
  BY <1>1, SetRequested, SetWritten, SetYielded, SetUnlocked, SetQueried DEF Sets!Next

PairsIn(s) == UNION {Sets!Range(s.known[n]) : n \in DOMAIN s.known}

LEMMA ExactAgrees ==
    ASSUME NEW K, NEW s, s = Exact(K)
    PROVE  /\ DOMAIN s.kv = PairsIn(s)
           /\ \A p \in PairsIn(s) : s.kv[p] = {n \in DOMAIN s.known : p \in Sets!Range(s.known[n])}
           /\ DOMAIN s.key = {p.key : p \in PairsIn(s)}
<1>1. s.known = K /\ s.kv = Inverted(PairsOf(K)) /\ s.key = Inverted(KeysIn(K))
  BY DEF Exact
<1>2. DOMAIN PairsOf(K) = DOMAIN K /\ \A n \in DOMAIN K : PairsOf(K)[n] = Sets!Range(K[n])
  BY DEF PairsOf
<1>3. DOMAIN KeysIn(K) = DOMAIN K /\ \A n \in DOMAIN K : KeysIn(K)[n] = {p.key : p \in Sets!Range(K[n])}
  BY DEF KeysIn, Sets!KeysOf
<1>4. /\ DOMAIN s.kv = UNION {PairsOf(K)[n] : n \in DOMAIN PairsOf(K)}
      /\ \A p \in DOMAIN s.kv : s.kv[p] = {n \in DOMAIN PairsOf(K) : p \in PairsOf(K)[n]}
  BY <1>1 DEF Inverted
<1>5. PICK pairs : pairs = PairsIn(s)
  OBVIOUS
<1>6. \A p : p \in pairs <=> \E n \in DOMAIN K : p \in Sets!Range(K[n])
  <2>1. pairs = UNION {Sets!Range(s.known[n]) : n \in DOMAIN s.known}
    BY <1>5 DEF PairsIn
  <2> QED
    BY <2>1, <1>1
<1>7. DOMAIN s.kv = pairs
  BY <1>6, <1>2, <1>4
<1>8. \A p \in pairs : s.kv[p] = {n \in DOMAIN s.known : p \in Sets!Range(s.known[n])}
  BY <1>1, <1>2, <1>4, <1>7
<1>9. DOMAIN s.key = UNION {KeysIn(K)[n] : n \in DOMAIN KeysIn(K)}
  BY <1>1 DEF Inverted
<1>10. DOMAIN s.key = {p.key : p \in pairs}
  BY <1>6, <1>3, <1>9
<1> QED
  BY <1>5, <1>7, <1>8, <1>10

LEMMA SetHolds == ASSUME SetInv PROVE Sets!AnswersAreSnapshots /\ Sets!IndicesAgree /\ Sets!NoPanic
<1>1. Sets!AnswersAreSnapshots /\ Sets!NoPanic
  BY DEF SetInv, Sets!AnswersAreSnapshots, Sets!NoPanic
<1>2. \A ns \in DOMAIN index : index[ns] = Exact(CanonicalOf(LabelsIn(wanted, ns)))
  BY DEF SetInv, Sets!SetsOf
<1>3. \A ns \in DOMAIN index :
         /\ DOMAIN index[ns].kv = PairsIn(index[ns])
         /\ \A p \in PairsIn(index[ns]) : index[ns].kv[p] = {n \in DOMAIN index[ns].known : p \in Sets!Range(index[ns].known[n])}
         /\ DOMAIN index[ns].key = {p.key : p \in PairsIn(index[ns])}
  BY <1>2, ExactAgrees
<1>4. Sets!IndicesAgree
  BY <1>3 DEF Sets!IndicesAgree, PairsIn
<1> QED
  BY <1>1, <1>4

LEMMA SetsChosen ==
    /\ PartsInit /\ part = "sets" => Sets!Init
    /\ [PartsNext]_partsVars /\ part = "sets" => [Sets!Next]_Sets!vars
<1>1. PartsInit /\ part = "sets" => Sets!Init
  BY DEF PartsInit
<1>2. [PartsNext]_partsVars /\ part = "sets" => [Sets!Next]_Sets!vars
  BY DEF PartsNext, partsVars, setsVars, group3, Sets!vars
<1> QED
  BY <1>1, <1>2

(***************************************************************************)
(* labelindex/sets.go, locked.go: for any names, namespaces, label sets    *)
(* and selectors and any number of goroutines, a query returns exactly the *)
(* sets that its selector selects of those tracked when it took the lock,  *)
(* whichever index it chose; the two indices hold exactly what is known,   *)
(* and no assertion fails.                                                 *)
(***************************************************************************)
THEOREM QueriesAreSnapshots == PartsSpec => []AnswersAreSnapshots
<1>1. PartsInit /\ part = "sets" => SetInv
  BY SetsChosen, SetInit
<1>2. [PartsNext]_partsVars /\ part = "sets" /\ SetInv => SetInv'
  BY SetsChosen, SetStep
<1>3. [PartsNext]_partsVars => (part = "sets" <=> (part = "sets")')
  BY PartKept
<1>4. SetInv => Sets!AnswersAreSnapshots /\ Sets!IndicesAgree /\ Sets!NoPanic
  BY SetHolds
<1> QED
  BY <1>1, <1>2, <1>3, <1>4, PTL DEF PartsSpec, AnswersAreSnapshots
=============================================================================
