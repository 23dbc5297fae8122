---------------------------- MODULE DataInduction ----------------------------
(***************************************************************************)
(* Induction over numbers and over finite sets, stated for sets instead of *)
(* for predicates, so that the provers can instantiate it: what is to be   *)
(* proved is the set of the numbers, or of the sets, that have it.  It     *)
(* rests on the theorem of the library that strict inclusion of finite     *)
(* sets is well-founded.                                                   *)
(***************************************************************************)
EXTENDS Integers, FiniteSetTheorems, TLAPS

(* A nonempty set of finite sets has a member with no other inside it.     *)
LEMMA SmallestSubset ==
  ASSUME NEW S, NEW T \in SUBSET FiniteSubsetsOf(S), T # {}
  PROVE  \E x \in T : \A y \in T : y \subseteq x => y = x
<1>1. IsWellFoundedOn(StrictSubsetOrdering(S), FiniteSubsetsOf(S))
  BY FS_StrictSubsetOrderingWellFounded
<1>2. \E x \in T : \A y \in T : ~(<<y, x>> \in StrictSubsetOrdering(S))
  BY <1>1, WFMin, Zenon
<1>. QED BY <1>2 DEF StrictSubsetOrdering, FiniteSubsetsOf

(* A nonempty set of numbers has a least one.                              *)
LEMMA LeastElement ==
  ASSUME NEW T \in SUBSET Nat, T # {}
  PROVE  \E m \in T : \A n \in T : m <= n
<1>. DEFINE D == {0 .. n : n \in T}
<1>1. \A n \in Nat : 0 .. n \in FiniteSubsetsOf(Nat)
  BY FS_Interval DEF FiniteSubsetsOf
<1>2. D \in SUBSET FiniteSubsetsOf(Nat) /\ D # {}
  BY <1>1
<1>3. PICK x \in D : \A y \in D : y \subseteq x => y = x
  <2>. HIDE DEF D
  <2>. QED BY <1>2, SmallestSubset
<1>4. PICK m \in T : x = 0 .. m
  OBVIOUS
<1>5. \A n \in T : 0 .. n \in D
  OBVIOUS
<1>6. ASSUME NEW n \in T, n < m
      PROVE  FALSE
  <2>1. 0 .. n \subseteq 0 .. m /\ m \notin 0 .. n /\ m \in 0 .. m
    BY <1>6
  <2>. HIDE DEF D
  <2>. QED BY <1>3, <1>4, <1>5, <2>1
<1>. QED BY <1>6

(* A nonempty set of numbers with a bound has a greatest one.              *)
LEMMA GreatestElement ==
  ASSUME NEW T \in SUBSET Nat, T # {}, NEW b \in Nat, \A n \in T : n <= b
  PROVE  \E m \in T : \A n \in T : n <= m
<1>. DEFINE U == {u \in Nat : \A n \in T : n <= u}
<1>1. PICK u \in U : \A v \in U : u <= v
  <2>1. U \in SUBSET Nat /\ b \in U
    OBVIOUS
  <2>. HIDE DEF U
  <2>. QED BY <2>1, LeastElement
<1>2. CASE u \in T
  BY <1>2
<1>3. CASE u \notin T
  <2>1. \A n \in T : n \in Nat /\ n <= u /\ n # u
    BY <1>3
  <2>2. u - 1 \in Nat /\ \A n \in T : n <= u - 1
    <3>1. PICK n \in T : TRUE
      OBVIOUS
    <3>2. n \in Nat /\ n < u
      BY <2>1
    <3>. QED BY <2>1, <3>2
  <2>3. u - 1 \in U
    BY <2>2
  <2>4. ~(u <= u - 1)
    OBVIOUS
  <2>. HIDE DEF U
  <2>. QED BY <1>1, <2>3, <2>4
<1>. QED BY <1>2, <1>3

(* Induction on numbers.                                                   *)
LEMMA NumberInduction ==
  ASSUME NEW T, 0 \in T, \A n \in Nat : n \in T => n + 1 \in T
  PROVE  Nat \subseteq T
<1>1. SUFFICES ASSUME Nat \ T # {} PROVE FALSE
  OBVIOUS
<1>2. PICK m \in Nat \ T : \A n \in Nat \ T : m <= n
  BY <1>1, LeastElement
<1>3. m # 0 /\ m - 1 \in Nat /\ m - 1 \in T
  BY <1>2
<1>. QED BY <1>2, <1>3

(* Induction on the numbers of a range.                                    *)
LEMMA RangeInduction ==
  ASSUME NEW a \in Int, NEW b \in Int, NEW T,
         a <= b => a \in T, \A n \in a .. b - 1 : n \in T => n + 1 \in T
  PROVE  a .. b \subseteq T
<1>. DEFINE U == {n \in Nat : a + n <= b => a + n \in T}
<1>1. 0 \in U
  OBVIOUS
<1>2. ASSUME NEW n \in Nat, n \in U
      PROVE  n + 1 \in U
  <2>1. SUFFICES ASSUME a + (n + 1) <= b PROVE a + (n + 1) \in T
    OBVIOUS
  <2>2. a + n \in a .. b - 1 /\ a + n \in T /\ a + (n + 1) = (a + n) + 1
    BY <1>2, <2>1
  <2>. QED BY <2>2
<1>3. Nat \subseteq U
  <2>. HIDE DEF U
  <2>. QED BY <1>1, <1>2, NumberInduction
<1>4. ASSUME NEW i \in a .. b
      PROVE  i \in T
  <2>1. i - a \in Nat /\ a + (i - a) = i /\ i <= b
    OBVIOUS
  <2>2. i - a \in U
    BY <1>3, <2>1
  <2>. QED BY <2>1, <2>2
<1>. QED BY <1>4

(* Induction on a finite set, an element at a time.                        *)
LEMMA SetInduction ==
  ASSUME NEW S, IsFiniteSet(S), NEW F, {} \in F,
         \A T \in SUBSET S : T # {} /\ (\A x \in T : T \ {x} \in F) => T \in F
  PROVE  \A T \in SUBSET S : T \in F
<1>. DEFINE D == {T \in SUBSET S : T \notin F}
<1>1. SUFFICES ASSUME D # {} PROVE FALSE
  OBVIOUS
<1>2. D \in SUBSET FiniteSubsetsOf(S)
  BY FS_Subset DEF FiniteSubsetsOf
<1>3. PICK x \in D : \A y \in D : y \subseteq x => y = x
  <2>. HIDE DEF D
  <2>. QED BY <1>1, <1>2, SmallestSubset
<1>4. ASSUME NEW e \in x
      PROVE  x \ {e} \notin D
  <2>1. x \ {e} \subseteq x /\ x \ {e} # x
    OBVIOUS
  <2>. HIDE DEF D
  <2>. QED BY <1>3, <2>1
<1>5. \A e \in x : x \ {e} \in F
  BY <1>4
<1>. QED BY <1>5

(* A function that is defined on a range from its first value, each value  *)
(* from the one before, exists.                                            *)
Recursion(f, a, b, c, step) ==
  \A i \in a .. b : f[i] = IF i = a THEN c ELSE step[<<f[i - 1], i>>]

LEMMA RangeRecursion ==
  ASSUME NEW a \in Int, NEW b \in Int, NEW V, NEW c \in V, NEW step \in [V \X Int -> V]
  PROVE  \E f \in [a .. b -> V] : Recursion(f, a, b, c, step)
<1>. DEFINE Rec(f, n) == \A i \in a .. n : f[i] = IF i = a THEN c ELSE step[<<f[i - 1], i>>]
            U == {n \in Nat : \E f \in [a .. a + n -> V] : Rec(f, a + n)}
<1>1. 0 \in U
  <2>1. [i \in a .. a + 0 |-> c] \in [a .. a + 0 -> V] /\ Rec([i \in a .. a + 0 |-> c], a + 0)
    OBVIOUS
  <2>. QED BY <2>1
<1>2. ASSUME NEW n \in Nat, n \in U
      PROVE  n + 1 \in U
  <2>1. PICK f \in [a .. a + n -> V] : Rec(f, a + n)
    BY <1>2
  <2>. DEFINE v == step[<<f[a + n], a + n + 1>>]
              g == [i \in a .. a + (n + 1) |-> IF i = a + n + 1 THEN v ELSE f[i]]
  <2>2. v \in V
    OBVIOUS
  <2>3. g \in [a .. a + (n + 1) -> V]
    <3>1. \A i \in a .. a + (n + 1) : i # a + n + 1 => i \in a .. a + n
      OBVIOUS
    <3>. QED BY <2>2, <3>1
  <2>4. ASSUME NEW i \in a .. a + (n + 1)
        PROVE  g[i] = IF i = a THEN c ELSE step[<<g[i - 1], i>>]
    <3>1. CASE i = a + n + 1
      <4>1. /\ a + n \in a .. a + (n + 1) /\ a + n # a + n + 1 /\ i # a
            /\ i - 1 = a + n
        BY <3>1
      <4>2. g[i] = v /\ g[i - 1] = f[a + n]
        BY <3>1, <4>1
      <4>. QED BY <3>1, <4>1, <4>2
    <3>2. CASE i # a + n + 1
      <4>1. i \in a .. a + n /\ g[i] = f[i] /\ (i # a => g[i - 1] = f[i - 1])
        BY <3>2
      <4>. QED BY <2>1, <4>1
    <3>. QED BY <3>1, <3>2
  <2>5. \E h \in [a .. a + (n + 1) -> V] : Rec(h, a + (n + 1))
    <3>. HIDE DEF g, v
    <3>. QED BY <2>3, <2>4
  <2>. QED BY <2>5
<1>3. Nat \subseteq U
  <2>. HIDE DEF U
  <2>. QED BY <1>1, <1>2, NumberInduction
<1>4. CASE a <= b
  <2>1. b - a \in Nat /\ a + (b - a) = b
    BY <1>4
  <2>2. b - a \in U
    BY <1>3, <2>1
  <2>. QED BY <2>1, <2>2 DEF Recursion
<1>5. CASE b < a
  <2>1. a .. b = {}
    BY <1>5
  <2>2. [i \in a .. b |-> c] \in [a .. b -> V]
    OBVIOUS
  <2>. QED BY <2>1, <2>2 DEF Recursion
<1>. QED BY <1>4, <1>5
(* So does one that is defined from its last value down, each value from   *)
(* those behind it.                                                        *)
LooksBehind(G, a, b, V) ==
  \A i \in a .. b : \A f, g \in [a .. b -> V] :
    (\A j \in i + 1 .. b : f[j] = g[j]) => G[<<f, i>>] = G[<<g, i>>]

Countdown(f, a, b, G) == \A i \in a .. b : f[i] = G[<<f, i>>]

LEMMA CountdownRecursion ==
  ASSUME NEW a \in Int, NEW b \in Int, NEW V, NEW d \in V,
         NEW G \in [[a .. b -> V] \X (a .. b) -> V], LooksBehind(G, a, b, V)
  PROVE  \E f \in [a .. b -> V] : Countdown(f, a, b, G)
<1>. USE DEF LooksBehind, Countdown
<1>. DEFINE W == [a .. b -> V]
            At(k) == b + 1 - k
            Put(f, k) == [f EXCEPT ![At(k)] = G[<<f, At(k)>>]]
            step == [x \in W \X Int |-> IF At(x[2]) \in a .. b THEN Put(x[1], x[2]) ELSE x[1]]
            n == b + 1 - a
            f0 == [i \in a .. b |-> d]
<1>1. CASE b < a
  <2>1. f0 \in W /\ \A i \in a .. b : FALSE
    BY <1>1
  <2>. QED BY <2>1
<1>2. CASE a <= b
  <2>1. step \in [W \X Int -> W]
    <3>1. \A f \in W, k \in Int : At(k) \in a .. b => Put(f, k) \in W
      OBVIOUS
    <3>. HIDE DEF Put, At, W
    <3>. QED BY <3>1
  <2>2. n \in Nat /\ f0 \in W
    BY <1>2
  <2>3. PICK F \in [0 .. n -> W] : Recursion(F, 0, n, f0, step)
    <3>1. 0 \in Int /\ n \in Int
      BY <2>2
    <3>. HIDE DEF step, n, f0, W
    <3>. QED BY <2>1, <2>2, <3>1, RangeRecursion
  <2>4. ASSUME NEW k \in 1 .. n
        PROVE  At(k) \in a .. b /\ k - 1 \in 0 .. n /\ F[k] = Put(F[k - 1], k)
    <3>1. At(k) \in a .. b /\ k \in 0 .. n /\ k - 1 \in 0 .. n /\ k # 0 /\ k \in Int
      BY <2>2
    <3>2. F[k] = step[<<F[k - 1], k>>]
      <4>. HIDE DEF step, n
      <4>. QED BY <2>3, <3>1 DEF Recursion
    <3>3. <<F[k - 1], k>> \in W \X Int
      <4>. HIDE DEF W, n
      <4>. QED BY <2>3, <3>1
    <3>. HIDE DEF W, n, Put, At
    <3>. QED BY <3>1, <3>2, <3>3
  <2>5. ASSUME NEW k \in 0 .. n, NEW j \in a .. b, At(k) <= j
        PROVE  F[k][j] = F[n][j]
    <3>. DEFINE T == {m \in Int : m \in k .. n => F[m][j] = F[k][j]}
    <3>1. k \in T
      BY <2>2
    <3>2. \A m \in k .. n - 1 : m \in T => m + 1 \in T
      <4>1. SUFFICES ASSUME NEW m \in k .. n - 1, F[m][j] = F[k][j]
                     PROVE  F[m + 1][j] = F[k][j]
        BY <2>2
      <4>2. m + 1 \in 1 .. n /\ (m + 1) - 1 = m /\ At(m + 1) # j /\ m \in 0 .. n
        BY <2>2, <2>5
      <4>3. F[m + 1] = Put(F[m], m + 1)
        <5>. HIDE DEF Put, At, n
        <5>. QED BY <2>4, <4>2
      <4>4. F[m] \in W
        BY <2>3, <4>2
      <4>5. Put(F[m], m + 1)[j] = F[m][j]
        <5>. HIDE DEF At
        <5>. QED BY <4>2, <4>4
      <4>. HIDE DEF Put
      <4>. QED BY <4>1, <4>3, <4>5
    <3>3. k .. n \subseteq T
      <4>1. k \in Int /\ n \in Int
        BY <2>2
      <4>. HIDE DEF T, n
      <4>. QED BY <3>1, <3>2, <4>1, RangeInduction
    <3>. QED BY <2>2, <3>3
  <2>6. ASSUME NEW i \in a .. b
        PROVE  F[n][i] = G[<<F[n], i>>]
    <3>. DEFINE k == b + 1 - i
    <3>1. k \in 1 .. n /\ At(k) = i /\ k \in 0 .. n /\ n \in 0 .. n /\ At(k - 1) = i + 1
      OBVIOUS
    <3>2. k - 1 \in 0 .. n /\ F[k] = Put(F[k - 1], k)
      <4>. HIDE DEF k, n, Put, At
      <4>. QED BY <2>4, <3>1
    <3>3. F[k - 1] \in W /\ F[n] \in W
      <4>. HIDE DEF k, n, W
      <4>. QED BY <2>3, <3>1, <3>2
    <3>4. F[k][i] = G[<<F[k - 1], i>>]
      <4>. HIDE DEF k, At
      <4>. QED BY <3>1, <3>2, <3>3
    <3>5. \A j \in i + 1 .. b : F[k - 1][j] = F[n][j]
      <4>1. \A j \in i + 1 .. b : j \in a .. b /\ At(k - 1) <= j
        OBVIOUS
      <4>. HIDE DEF k, n, At
      <4>. QED BY <2>5, <3>2, <4>1
    <3>6. G[<<F[k - 1], i>>] = G[<<F[n], i>>]
      <4>. HIDE DEF k, n
      <4>. QED BY <3>3, <3>5
    <3>7. F[k][i] = F[n][i]
      <4>1. At(k) <= i
        OBVIOUS
      <4>. HIDE DEF k, n, At
      <4>. QED BY <2>5, <3>1, <4>1
    <3>. QED BY <3>4, <3>6, <3>7
  <2>7. F[n] \in [a .. b -> V]
    BY <2>2, <2>3
  <2>. HIDE DEF n
  <2>. QED BY <2>6, <2>7
<1>3. a <= b \/ b < a
  OBVIOUS
<1>. QED
  <2>. HIDE DEF W, At, Put, step, n, f0
  <2>. QED BY <1>1, <1>2, <1>3

=============================================================================
