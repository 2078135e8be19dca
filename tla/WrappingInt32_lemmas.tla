------------------------ MODULE WrappingInt32_lemmas ------------------------
(***************************************************************************)
(* unwrap() is the nearest preimage of wrap(), for every even modulus and  *)
(* every checkpoint.                                                       *)
(***************************************************************************)
EXTENDS WrappingInt32, TLAPS

\* Euclidean division as the SMT solver knows it.
LEMMA DivMod ==
  ASSUME NEW a \in Int, NEW b \in Nat, b > 0
  PROVE  /\ a \div b \in Int
         /\ a % b \in 0 .. b - 1
         /\ a = b * (a \div b) + (a % b)
  BY SMT

\* The remainder is determined by any decomposition with a small rest.
LEMMA ModUnique ==
  ASSUME NEW b \in Nat, b > 0, NEW q \in Int, NEW r \in 0 .. b - 1
  PROVE  (b * q + r) % b = r
  BY SMT

\* Two different multiples of b are at least b apart.
LEMMA MultiplesApart ==
  ASSUME NEW b \in Nat, NEW j \in Int, NEW k \in Int, j < k
  PROVE  b * j + b <= b * k
  <1>1. j + 1 <= k
    OBVIOUS
  <1>2. b * (j + 1) <= b * k
    BY <1>1, SMT
  <1>3. b * (j + 1) = b * j + b
    BY SMT
  <1>. QED  BY <1>2, <1>3, SMT

\* wrap() returns a sequence number.
LEMMA WrapType ==
  ASSUME NEW m \in Int, NEW i \in Int
  PROVE  wrap(m, i) \in SeqNos
  BY SeqModAssumption, DivMod, SMT DEF wrap, Plus, SeqNos

\* A number wraps to n exactly when it is congruent to n - isn.
LEMMA WrapCongruence ==
  ASSUME NEW m \in Nat, NEW x \in SeqNos, NEW i \in SeqNos
  PROVE  wrap(m, i) = x <=> m % SeqMod = (x - i) % SeqMod
  <1> DEFINE r == m % SeqMod
             d == (x - i) % SeqMod
  <1>. SeqMod \in Nat /\ SeqMod > 0
    BY SeqModAssumption
  <1>1. r \in 0 .. SeqMod - 1
    BY DivMod, SMT
  <1>2. d \in 0 .. SeqMod - 1 /\ x \in Int /\ i \in Int
    BY DivMod, SMT DEF SeqNos
  <1>3. (i + r) % SeqMod = IF i + r < SeqMod THEN i + r ELSE i + r - SeqMod
    <2>1. CASE i + r < SeqMod
      BY <1>1, <2>1, ModUnique, SMT DEF SeqNos
    <2>2. CASE i + r >= SeqMod
      <3>1. i + r - SeqMod \in 0 .. SeqMod - 1
        BY <1>1, <2>2, SMT DEF SeqNos
      <3>2. (SeqMod * 1 + (i + r - SeqMod)) % SeqMod = i + r - SeqMod
        BY <3>1, ModUnique, SMT
      <3>3. SeqMod * 1 + (i + r - SeqMod) = i + r
        BY <1>1, <1>2, SMT
      <3>. QED  BY <3>2, <3>3, <1>1, <1>2, <2>2, SMT
    <2>. QED  BY <2>1, <2>2, <1>1, <1>2, SMT
  <1>4. d = IF x >= i THEN x - i ELSE x - i + SeqMod
    <2>1. CASE x >= i
      BY <2>1, ModUnique, SMT DEF SeqNos
    <2>2. CASE x < i
      <3>1. x - i + SeqMod \in 0 .. SeqMod - 1
        BY <2>2, SMT DEF SeqNos
      <3>2. (SeqMod * (-1) + (x - i + SeqMod)) % SeqMod = x - i + SeqMod
        BY <3>1, ModUnique, SMT
      <3>3. SeqMod * (-1) + (x - i + SeqMod) = x - i
        BY <1>2, SMT
      <3>. QED  BY <3>2, <3>3, <1>2, <2>2, SMT
    <2>. QED  BY <2>1, <2>2, <1>2, SMT
  <1>5. wrap(m, i) = (i + r) % SeqMod
    BY DEF wrap, Plus
  <1>. HIDE DEF r, d
  <1>6. (i + r) % SeqMod = x <=> r = d
    BY <1>1, <1>2, <1>3, <1>4, SMT DEF SeqNos
  <1>. QED  BY <1>5, <1>6 DEF r, d

\* unwrap() (wrapping_integers.cc:32) returns a preimage of its argument,
\* and no preimage is closer to the checkpoint.
LEMMA UnwrapNearest ==
  ASSUME NEW x \in SeqNos, NEW i \in SeqNos, NEW c \in Nat
  PROVE  /\ unwrap(x, i, c) \in Nat
         /\ wrap(unwrap(x, i, c), i) = x
         /\ \A m \in Nat :
              wrap(m, i) = x => Distance(unwrap(x, i, c), c) <= Distance(m, c)
  <1> DEFINE t == (x - i) % SeqMod
             q == (c - t) \div SeqMod
             below == t + q * SeqMod
             u == unwrap(x, i, c)
  <1>. SeqMod \in Nat /\ SeqMod > 0
    BY SeqModAssumption
  <1>1. t \in 0 .. SeqMod - 1 /\ t \in Int
    BY DivMod, SMT DEF SeqNos
  <1>2. q \in Int /\ c - t = SeqMod * q + ((c - t) % SeqMod)
                 /\ (c - t) % SeqMod \in 0 .. SeqMod - 1
    BY <1>1, DivMod, SMT
  <1>3. /\ SeqMod \div 2 \in Nat
        /\ SeqMod = 2 * (SeqMod \div 2)
    BY SeqModAssumption, SMT
  <1>4. u = IF t >= c THEN t
            ELSE IF c - below > SeqMod \div 2 THEN below + SeqMod ELSE below
    BY DEF unwrap
  <1>5. below = SeqMod * q + t
    BY <1>1, <1>2, SMT
  <1>. HIDE DEF t, q, below, u
  <1>6. below \in Int /\ below <= c /\ c < below + SeqMod
    BY <1>1, <1>2, <1>5, SMT
  <1>7. \E j \in Nat : u = SeqMod * j + t
    <2>1. CASE t >= c
      <3>1. u = SeqMod * 0 + t
        BY <2>1, <1>1, <1>4, SMT
      <3>. QED  BY <3>1
    <2>2. CASE ~(t >= c)
      <3>1. q >= 0
        <4>1. SUFFICES ASSUME q < 0 PROVE FALSE
          BY <1>2, SMT
        <4>2. SeqMod * q + SeqMod <= SeqMod * 0
          BY <4>1, <1>2, MultiplesApart
        <4>. QED  BY <4>2, <1>2, <1>1, <2>2, SMT
      <3>2. q \in Nat /\ q + 1 \in Nat
        BY <3>1, <1>2, SMT
      <3>3. below + SeqMod = SeqMod * (q + 1) + t
        BY <1>1, <1>2, <1>5, SMT
      <3>. QED  BY <3>2, <3>3, <1>4, <1>5, <2>2
    <2>. QED  BY <2>1, <2>2
  <1>8. PICK j \in Nat : u = SeqMod * j + t
    BY <1>7
  <1>9. u \in Nat
    BY <1>8, <1>1, SMT
  <1>10. wrap(u, i) = x
    <2>1. u % SeqMod = t
      BY <1>8, <1>1, ModUnique
    <2>. QED  BY <2>1, <1>9, WrapCongruence DEF t
  <1>11. ASSUME NEW m \in Nat, wrap(m, i) = x
         PROVE  Distance(u, c) <= Distance(m, c)
    <2> DEFINE k == m \div SeqMod
    <2>1. m % SeqMod = t
      BY <1>11, WrapCongruence DEF t
    <2>2. k \in Int /\ m = SeqMod * k + t
      BY <2>1, DivMod, SMT
    <2>3. k >= 0
      <3>1. SUFFICES ASSUME k < 0 PROVE FALSE
        BY <2>2, SMT
      <3>2. SeqMod * k + SeqMod <= SeqMod * 0
        BY <3>1, <2>2, MultiplesApart
      <3>. QED  BY <3>2, <2>2, <1>1, SMT
    <2>. HIDE DEF k
    <2>4. k < j => m + SeqMod <= u
      <3>1. k < j => SeqMod * k + SeqMod <= SeqMod * j
        BY <2>2, MultiplesApart
      <3>. QED  BY <3>1, <2>2, <1>8, <1>1, SMT
    <2>5. j < k => u + SeqMod <= m
      <3>1. j < k => SeqMod * j + SeqMod <= SeqMod * k
        BY <2>2, MultiplesApart
      <3>. QED  BY <3>1, <2>2, <1>8, <1>1, SMT
    <2>6. k = j => m = u
      BY <2>2, <1>8
    <2>7. m = u \/ m + SeqMod <= u \/ u + SeqMod <= m
      BY <2>4, <2>5, <2>6, <2>2, SMT
    <2>8. t <= m
      BY <2>2, <2>3, <1>1, SMT
    <2>. QED  BY <2>7, <2>8, <1>1, <1>3, <1>4, <1>6, <1>9, SMT DEF Distance
  <1>. QED  BY <1>9, <1>11, <1>10 DEF u

\* Two numbers with the same wire form that are less than a turn apart are
\* the same number.
LEMMA SameWireForm ==
  ASSUME NEW u \in Nat, NEW m \in Nat, NEW i \in SeqNos,
         wrap(u, i) = wrap(m, i), Distance(u, m) < SeqMod
  PROVE  u = m
  <1>. SeqMod \in Nat /\ SeqMod > 0
    BY SeqModAssumption
  <1>1. wrap(m, i) \in SeqNos
    <2>1. i \in Int
      BY SMT DEF SeqNos
    <2>. QED  BY <2>1, WrapType
  <1>2. u % SeqMod = m % SeqMod
    BY <1>1, WrapCongruence
  <1> DEFINE j == u \div SeqMod
             k == m \div SeqMod
             r == m % SeqMod
  <1>3. j \in Int /\ k \in Int /\ r \in Int
        /\ u = SeqMod * j + r /\ m = SeqMod * k + r
    BY <1>2, DivMod, SMT
  <1>. HIDE DEF j, k, r
  <1>4. ~(j < k)
    <2>1. j < k => SeqMod * j + SeqMod <= SeqMod * k
      BY <1>3, MultiplesApart
    <2>. QED  BY <2>1, <1>3, SMT DEF Distance
  <1>5. ~(k < j)
    <2>1. k < j => SeqMod * k + SeqMod <= SeqMod * j
      BY <1>3, MultiplesApart
    <2>. QED  BY <2>1, <1>3, SMT DEF Distance
  <1>6. j = k
    BY <1>3, <1>4, <1>5, SMT
  <1>. QED  BY <1>3, <1>6

\* A number less than half a turn from the checkpoint survives the trip
\* through the wire format.
LEMMA NearSurvives ==
  ASSUME NEW m \in Nat, NEW i \in SeqNos, NEW c \in Nat,
         Distance(m, c) < SeqMod \div 2
  PROVE  unwrap(wrap(m, i), i, c) = m
  <1> DEFINE x == wrap(m, i)
             u == unwrap(x, i, c)
  <1>1. SeqMod \in Nat /\ SeqMod > 0
    BY SeqModAssumption
  <1>2. x \in SeqNos
    <2>1. m \in Int /\ i \in Int
      BY SMT DEF SeqNos
    <2>. QED  BY <2>1, WrapType
  <1>. HIDE DEF x
  <1>3. u \in Nat /\ wrap(u, i) = x /\ Distance(u, c) <= Distance(m, c)
    BY <1>2, UnwrapNearest DEF x
  <1>. HIDE DEF u
  <1>4. Distance(u, m) < SeqMod
    BY <1>1, <1>3, SMT DEF Distance
  <1>5. u = m
    BY <1>3, <1>4, SameWireForm DEF x
  <1>. QED  BY <1>5 DEF u, x
=============================================================================
