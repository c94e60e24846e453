------------------------- MODULE RandomAccess_proofs -------------------------
(***************************************************************************)
(* The random access benchmark of random_access.c is right for every       *)
(* number of ranks and every table the code can be asked for: the ranks    *)
(* follow one sequence of collectives, updates find their targets ready,   *)
(* what the ranks do together is what one stream of updates does, and the  *)
(* verification counts the updates that were lost.                         *)
(*                                                                         *)
(* The sections follow what is built on what: induction and recursion;     *)
(* words; the distribution of the table; the constants; the places of the  *)
(* ranks (ControlInv); the updates under way (DataInv); the algebra of the *)
(* jump; the contents of the table (TableInv); and the theorems.           *)
(*                                                                         *)
(* The provers have no induction of their own that could be used with an   *)
(* operator, so properties of numbers are sets of numbers here, and        *)
(* recursive functions are shown to exist before their equations are used. *)
(***************************************************************************)
EXTENDS MCRandomAccess, FiniteSetTheorems, TLAPS

-----------------------------------------------------------------------------
(* Induction over the naturals, for the set of those with a property.  The *)
(* intervals from 0 are well-founded by inclusion: the smallest one with   *)
(* an exception at its end has none before it.                             *)
LEMMA Induction ==
  ASSUME NEW Good, 0 \in Good, \A n \in Nat : n \in Good => n + 1 \in Good
  PROVE  Nat \subseteq Good
  <1> SUFFICES ASSUME NEW bad \in Nat, bad \notin Good PROVE FALSE
    OBVIOUS
  <1> DEFINE T == {0 .. n : n \in Nat \ Good}
  <1>1. T \subseteq FiniteSubsetsOf(Nat)
    <2> SUFFICES ASSUME NEW n \in Nat PROVE 0 .. n \in FiniteSubsetsOf(Nat)
      OBVIOUS
    <2>1. IsFiniteSet(0 .. n)
      BY FS_Interval
    <2> QED
      BY <2>1 DEF FiniteSubsetsOf
  <1>2. T # {}
    OBVIOUS
  <1>3. PICK U \in T : \A V \in T : ~(<<V, U>> \in StrictSubsetOrdering(Nat))
    <2> HIDE DEF T
    <2>1. IsWellFoundedOn(StrictSubsetOrdering(Nat), FiniteSubsetsOf(Nat))
      BY FS_StrictSubsetOrderingWellFounded
    <2> QED
      BY <1>1, <1>2, <2>1, WFMin
  <1>4. PICK m \in Nat \ Good : U = 0 .. m
    OBVIOUS
  <1>5. m - 1 \in Nat \ Good
    BY m # 0, m = (m - 1) + 1
  <1>6. /\ 0 .. m - 1 \in T
        /\ 0 .. m - 1 \subseteq 0 .. m /\ 0 .. m - 1 # 0 .. m
        /\ 0 .. m - 1 \subseteq Nat /\ 0 .. m \subseteq Nat
    BY <1>5
  <1>7. <<0 .. m - 1, 0 .. m>> \in StrictSubsetOrdering(Nat)
    BY <1>6 DEF StrictSubsetOrdering
  <1> QED
    BY <1>3, <1>4, <1>6, <1>7

(* f starts with a and follows g for n steps.                              *)
Follows(f, S, a, g, n) ==
  /\ f \in [0 .. n -> S] /\ f[0] = a
  /\ \A k \in 0 .. n - 1 : f[k + 1] = g[<<k, f[k]>>]

(* A function that starts with a and follows g exists, and is the only one *)
LEMMA SomePrefix ==
  ASSUME NEW S, NEW a \in S, NEW g \in [Nat \X S -> S]
  PROVE  \A n \in Nat : \E f : Follows(f, S, a, g, n)
  <1> DEFINE Good == {n \in Nat : \E f : Follows(f, S, a, g, n)}
  <1>1. 0 \in Good
    <2>1. Follows([k \in 0 .. 0 |-> a], S, a, g, 0)
      BY DEF Follows
    <2> QED
      BY <2>1
  <1>2. ASSUME NEW n \in Nat, n \in Good
        PROVE  n + 1 \in Good
    <2>1. PICK f : Follows(f, S, a, g, n)
      BY <1>2
    <2> DEFINE h == [k \in 0 .. n + 1 |-> IF k = n + 1 THEN g[<<n, f[n]>>] ELSE f[k]]
    <2>2. f[n] \in S /\ <<n, f[n]>> \in Nat \X S
      BY <2>1 DEF Follows
    <2>3. h \in [0 .. n + 1 -> S]
      BY <2>1, <2>2 DEF Follows
    <2>4. h[0] = a
      BY <2>1 DEF Follows
    <2>5. ASSUME NEW k \in 0 .. n PROVE h[k + 1] = g[<<k, h[k]>>]
      <3>1. CASE k = n
        <4>1. h[n + 1] = g[<<n, f[n]>>] /\ h[n] = f[n]
          OBVIOUS
        <4> QED
          BY <3>1, <4>1
      <3>2. CASE k # n
        <4>1. k \in 0 .. n - 1 /\ k + 1 \in 0 .. n + 1 /\ k + 1 # n + 1 /\ k # n + 1
          BY <3>2
        <4>2. h[k + 1] = f[k + 1] /\ h[k] = f[k]
          BY <4>1
        <4> QED
          BY <2>1, <4>1, <4>2 DEF Follows
      <3> QED
        BY <3>1, <3>2
    <2>6. Follows(h, S, a, g, n + 1)
      <3> HIDE DEF h
      <3>1. \A k \in 0 .. (n + 1) - 1 : h[k + 1] = g[<<k, h[k]>>]
        BY <2>5
      <3> QED
        BY <2>3, <2>4, <3>1 DEF Follows
    <2> QED
      BY <2>6
  <1> QED
    <2> HIDE DEF Good
    <2>1. Nat \subseteq Good
      BY <1>1, <1>2, Induction
    <2> QED
      BY <2>1 DEF Good

LEMMA Uniqueness ==
  ASSUME NEW S, NEW a, NEW g, NEW m \in Nat, NEW n \in Nat, NEW f, NEW h,
         Follows(f, S, a, g, m), Follows(h, S, a, g, n)
  PROVE  \A k \in Nat : k <= m /\ k <= n => f[k] = h[k]
  <1> DEFINE Good == {k \in Nat : k <= m /\ k <= n => f[k] = h[k]}
  <1>1. 0 \in Good
    BY DEF Follows
  <1>2. ASSUME NEW k \in Nat, k \in Good PROVE k + 1 \in Good
    <2>1. ASSUME k + 1 <= m, k + 1 <= n PROVE f[k + 1] = h[k + 1]
      <3>1. f[k] = h[k] /\ k \in 0 .. m - 1 /\ k \in 0 .. n - 1
        BY <1>2, <2>1
      <3> QED
        BY <3>1 DEF Follows
    <2> QED
      BY <2>1
  <1> QED
    <2> HIDE DEF Good
    <2>1. Nat \subseteq Good
      BY <1>1, <1>2, Induction
    <2> QED
      BY <2>1 DEF Good

Recursive(f, S, a, g) ==
  /\ f \in [Nat -> S] /\ f[0] = a
  /\ \A n \in Nat : f[n + 1] = g[<<n, f[n]>>]

LEMMA Recursion ==
  ASSUME NEW S, NEW a \in S, NEW g \in [Nat \X S -> S]
  PROVE  \E f : Recursive(f, S, a, g)
  <1> DEFINE part(n) == CHOOSE f : Follows(f, S, a, g, n)
             F == [n \in Nat |-> part(n)[n]]
  <1>1. ASSUME NEW n \in Nat PROVE Follows(part(n), S, a, g, n)
    BY SomePrefix
  <1> HIDE DEF part
  <1>2. ASSUME NEW n \in Nat PROVE part(n)[n] \in S
    BY <1>1 DEF Follows
  <1>3. F[0] = a
    BY <1>1 DEF Follows
  <1>4. ASSUME NEW n \in Nat PROVE F[n + 1] = g[<<n, F[n]>>]
    <2>1. Follows(part(n + 1), S, a, g, n + 1) /\ Follows(part(n), S, a, g, n)
      BY <1>1
    <2>2. part(n + 1)[n] = part(n)[n]
      BY <2>1, Uniqueness
    <2>3. part(n + 1)[n + 1] = g[<<n, part(n + 1)[n]>>]
      BY <2>1 DEF Follows
    <2> QED
      BY <2>2, <2>3
  <1> QED
    <2>1. F \in [Nat -> S]
      BY <1>2
    <2> HIDE DEF F
    <2>2. Recursive(F, S, a, g)
      BY <1>3, <1>4, <2>1 DEF Recursive
    <2> QED
      BY <2>2

(* Powers of two, which the library knows as the number of subsets         *)
LEMMA Powers ==
  /\ 2^0 = 1
  /\ \A n \in Nat : 2^n \in Nat \ {0} /\ 2^(n + 1) = 2 * 2^n
  <1> DEFINE D(n) == SUBSET (1 .. n)
  <1>1. ASSUME NEW n \in Nat
        PROVE  IsFiniteSet(D(n)) /\ Cardinality(D(n)) = 2^n
    <2>1. IsFiniteSet(1 .. n) /\ Cardinality(1 .. n) = n
      BY FS_Interval
    <2> QED
      BY <2>1, FS_SUBSET
  <1>2. 2^0 = 1
    <2>1. D(0) = {{}}
      OBVIOUS
    <2> QED
      BY <1>1, <2>1, FS_Singleton
  <1>3. ASSUME NEW n \in Nat
        PROVE  2^n \in Nat \ {0} /\ 2^(n + 1) = 2 * 2^n
    <2> DEFINE E == {s \cup {n + 1} : s \in D(n)}
               f == [s \in D(n) |-> s \cup {n + 1}]
    <2>1. D(n + 1) = D(n) \cup E /\ D(n) \cap E = {}
      <3>1. ASSUME NEW s \in D(n + 1), s \notin D(n) PROVE s \in E
        <4>1. s \ {n + 1} \in D(n) /\ s = (s \ {n + 1}) \cup {n + 1}
          BY <3>1
        <4> QED
          BY <4>1
      <3>2. 1 .. n \subseteq 1 .. n + 1 /\ n + 1 \in 1 .. n + 1
        OBVIOUS
      <3>3. D(n) \subseteq D(n + 1) /\ E \subseteq D(n + 1)
        BY <3>2
      <3>4. D(n) \cap E = {}
        <4>1. n + 1 \notin 1 .. n
          OBVIOUS
        <4> QED
          BY <4>1
      <3> QED
        BY <3>1, <3>3, <3>4
    <2>2. f \in Bijection(D(n), E)
      <3>1. f \in [D(n) -> E] /\ \A t \in E : \E s \in D(n) : f[s] = t
        OBVIOUS
      <3>2. ASSUME NEW s \in D(n), NEW t \in D(n), f[s] = f[t] PROVE s = t
        <4>1. n + 1 \notin s /\ n + 1 \notin t /\ s \cup {n + 1} = t \cup {n + 1}
          BY <3>2
        <4> QED
          BY <4>1
      <3> HIDE DEF f
      <3> QED
        BY <3>1, <3>2 DEF Bijection, Injection, Surjection, IsInjective
    <2> HIDE DEF D, E, f
    <2>3. IsFiniteSet(D(n)) /\ IsFiniteSet(E) /\ Cardinality(E) = Cardinality(D(n))
      <3>1. ExistsBijection(D(n), E)
        BY <2>2 DEF ExistsBijection
      <3> QED
        BY <1>1, <3>1, FS_Bijection
    <2>4. Cardinality(D(n) \cap E) = 0
      BY <2>1, FS_EmptySet
    <2>5. Cardinality(D(n + 1)) = Cardinality(D(n)) + Cardinality(E) - 0
      BY <2>1, <2>3, <2>4, FS_Union
    <2>6. Cardinality(D(n)) \in Nat /\ (Cardinality(D(n)) = 0 => D(n) = {})
      BY <2>3, FS_CardinalityType, FS_EmptySet
    <2>7. D(n) # {}
      BY DEF D
    <2> QED
      BY <1>1, <2>3, <2>5, <2>6, <2>7
  <1> QED
    BY <1>2, <1>3

LEMMA PowersMonotone ==
  ASSUME NEW m \in Nat, NEW n \in Nat, m <= n
  PROVE  2^m <= 2^n
  <1> DEFINE Good == {k \in Nat : 2^m <= 2^(m + k)}
  <1>1. 0 \in Good
    <2>1. m + 0 = m /\ 2^m \in Nat
      BY Powers
    <2> QED
      BY <2>1
  <1>2. ASSUME NEW k \in Nat, k \in Good PROVE k + 1 \in Good
    <2>1. m + k \in Nat /\ m + (k + 1) = (m + k) + 1
      OBVIOUS
    <2>2. 2^(m + k) \in Nat /\ 2^((m + k) + 1) = 2 * 2^(m + k) /\ 2^m \in Nat
      BY <2>1, Powers
    <2>3. 2^m <= 2^(m + (k + 1))
      BY <1>2, <2>1, <2>2
    <2> QED
      BY <2>3
  <1> HIDE DEF Good
  <1>3. n - m \in Good
    BY <1>1, <1>2, Induction
  <1> QED
    BY <1>3 DEF Good

-----------------------------------------------------------------------------
(* Words of the random stream.                                             *)

(* The low bits of a word are a number of that many bits.                  *)
LEMMA LowBitsType ==
  ASSUME NEW x, NEW bits \in Nat
  PROVE  LowBits(x, bits) \in 0 .. 2^bits - 1
  <1> DEFINE bit(k) == IF k \in x THEN 2^k ELSE 0
             g == [p \in Nat \X Nat |-> p[2] + bit(p[1])]
             Def(low) == [b \in 0 .. bits |-> IF b = 0 THEN 0 ELSE low[b - 1] + IF b - 1 \in x THEN 2^(b - 1) ELSE 0]
             low == CHOOSE f : f = Def(f)
  <1>1. \A k \in Nat : bit(k) \in Nat /\ bit(k) <= 2^k
    BY Powers
  <1> HIDE DEF bit
  <1>2. g \in [Nat \X Nat -> Nat]
    BY <1>1
  <1> HIDE DEF g
  <1>3. PICK F : Recursive(F, Nat, 0, g)
    <2>1. 0 \in Nat
      OBVIOUS
    <2> QED
      BY <1>2, <2>1, Recursion
  <1>4. F \in [Nat -> Nat] /\ F[0] = 0 /\ \A n \in Nat : F[n + 1] = F[n] + bit(n)
    BY <1>3 DEF Recursive, g
  <1> DEFINE h == [b \in 0 .. bits |-> F[b]]
  <1>5. h = Def(h)
    <2>1. ASSUME NEW b \in 0 .. bits PROVE h[b] = Def(h)[b]
      <3>1. CASE b = 0
        BY <1>4, <3>1
      <3>2. CASE b # 0
        <4>1. b - 1 \in Nat /\ b - 1 \in 0 .. bits /\ (b - 1) + 1 = b
          BY <3>2
        <4>2. F[b] = F[b - 1] + bit(b - 1)
          BY <1>4, <4>1
        <4> QED
          BY <3>2, <4>1, <4>2 DEF bit
      <3> QED
        BY <3>1, <3>2
    <2> QED
      BY <2>1
  <1>6. low = Def(low)
    <2> HIDE DEF h, Def
    <2> QED
      BY <1>5
  <1>7. LowBits(x, bits) = low[bits]
    BY DEF LowBits
  <1> HIDE DEF low
  <1> DEFINE Good == {b \in Nat : b <= bits => low[b] \in 0 .. 2^b - 1}
  <1>8. 0 \in Good
    BY <1>6, Powers
  <1>9. ASSUME NEW b \in Nat, b \in Good PROVE b + 1 \in Good
    <2> SUFFICES ASSUME b + 1 <= bits PROVE low[b + 1] \in 0 .. 2^(b + 1) - 1
      OBVIOUS
    <2>1. low[b + 1] = low[b] + bit(b)
      BY <1>6 DEF bit
    <2>2. low[b] \in 0 .. 2^b - 1 /\ bit(b) \in Nat /\ bit(b) <= 2^b /\ 2^b \in Nat /\ 2^(b + 1) = 2 * 2^b
      BY <1>1, <1>9, Powers
    <2> QED
      BY <2>1, <2>2
  <1> QED
    <2> HIDE DEF Good
    <2>1. bits \in Good
      BY <1>8, <1>9, Induction
    <2> QED
      BY <1>7, <2>1 DEF Good

LEMMA WordOps ==
  /\ \A x, y \in Word : Xor(x, y) \in Word
  /\ \A x \in Word : Step(x) \in Word
  /\ \A n : ToWord(n) \in Word
  /\ \A x : Square(x) \in Word
  /\ {} \in Word /\ {0} \in Word
  <1>1. Width \in Nat \ {0, 1} /\ Poly \subseteq 0 .. Width - 1
    BY WidthAssumption, PolyAssumption
  <1>2. ASSUME NEW x \in Word PROVE Step(x) \in Word
    <2>1. {b + 1 : b \in x \ {Width - 1}} \subseteq 0 .. Width - 1
      BY <1>1 DEF Word
    <2> QED
      BY <1>1, <2>1 DEF Word, Xor, Step
  <1> QED
    BY <1>1, <1>2 DEF Word, Xor, ToWord, Square

(* The highest bit of a seed                                               *)
LEMMA TopBit ==
  ASSUME NEW m \in Nat, NEW seed \in Nat, seed # 0, seed < 2^(m + 1)
  PROVE  \E b \in 0 .. m : 2^b <= seed /\ seed < 2^(b + 1)
  <1> DEFINE Good == {n \in Nat : seed < 2^n => \E b \in 0 .. n - 1 : 2^b <= seed /\ seed < 2^(b + 1)}
  <1>1. 0 \in Good
    BY Powers
  <1>2. ASSUME NEW n \in Nat, n \in Good PROVE n + 1 \in Good
    <2>1. CASE seed < 2^n
      BY <1>2, <2>1
    <2>2. CASE ~(seed < 2^n)
      BY <2>2, Powers
    <2> QED
      BY <2>1, <2>2
  <1> HIDE DEF Good
  <1>3. m + 1 \in Good
    BY <1>1, <1>2, Induction
  <1> QED
    BY <1>3 DEF Good

(* The jump starts at the highest bit of the seed and squares its way down *)
JumpStep(seed, b, x) ==
  IF (seed \div 2^b) % 2 = 1 THEN Step(Square(x)) ELSE Square(x)
Jump(seed, top, ret) ==
  /\ top \in 0 .. 62 /\ 2^top <= seed /\ seed < 2^(top + 1)
  /\ ret \in [0 .. top -> Word] /\ ret[top] = {1}
  /\ \A b \in 0 .. top - 1 : ret[b] = JumpStep(seed, b, ret[b + 1])
  /\ generate_initial_xor_val(seed) = ret[0]

LEMMA JumpUnfolds ==
  ASSUME NEW seed \in Nat, seed # 0, seed < 2^63
  PROVE  \E top, ret : Jump(seed, top, ret)
  <1> DEFINE top == CHOOSE b \in 0 .. 62 : 2^b <= seed /\ seed < 2^(b + 1)
             Def(ret) == [b \in 0 .. top |->
                            IF b = top THEN {1}
                            ELSE IF (seed \div 2^b) % 2 = 1 THEN Step(Square(ret[b + 1]))
                                                            ELSE Square(ret[b + 1])]
             ret == CHOOSE f : f = Def(f)
             g == [p \in Nat \X Word |-> JumpStep(seed, top - p[1] - 1, p[2])]
  <1>1. top \in 0 .. 62 /\ 2^top <= seed /\ seed < 2^(top + 1)
    <2>1. 62 \in Nat /\ 62 + 1 = 63
      OBVIOUS
    <2>2. \E b \in 0 .. 62 : 2^b <= seed /\ seed < 2^(b + 1)
      BY <2>1, TopBit, ZenonT(30)
    <2> QED
      BY <2>2
  <1>2. seed # 0 => generate_initial_xor_val(seed) = ret[0]
    BY DEF generate_initial_xor_val
  <1> HIDE DEF top
  <1>3. {1} \in Word
    BY WidthAssumption DEF Word
  <1>4. g \in [Nat \X Word -> Word]
    BY WordOps DEF JumpStep
  <1> HIDE DEF g
  <1>5. PICK F : Recursive(F, Word, {1}, g)
    BY <1>3, <1>4, Recursion
  <1>6. /\ F \in [Nat -> Word] /\ F[0] = {1}
        /\ \A n \in Nat : F[n + 1] = JumpStep(seed, top - n - 1, F[n])
    BY <1>5 DEF Recursive, g
  <1> DEFINE h == [b \in 0 .. top |-> F[top - b]]
  <1>7. h = Def(h)
    <2>1. ASSUME NEW b \in 0 .. top PROVE h[b] = Def(h)[b]
      <3>1. CASE b = top
        <4>1. top - b = 0
          BY <1>1, <3>1
        <4> QED
          BY <1>6, <3>1, <4>1
      <3>2. CASE b # top
        <4>1. /\ top - (b + 1) \in Nat /\ b + 1 \in 0 .. top
              /\ (top - (b + 1)) + 1 = top - b /\ top - (top - (b + 1)) - 1 = b
          BY <1>1, <3>2
        <4>2. F[top - b] = JumpStep(seed, b, F[top - (b + 1)])
          BY <1>6, <4>1
        <4>3. h[b] = JumpStep(seed, b, h[b + 1])
          BY <4>1, <4>2
        <4> HIDE DEF h
        <4> QED
          BY <3>2, <4>3 DEF JumpStep
      <3> QED
        BY <3>1, <3>2
    <2> QED
      BY <2>1
  <1>8. ret = Def(ret)
    <2> HIDE DEF h, Def
    <2> QED
      BY <1>7
  <1> HIDE DEF ret
  <1>9. ASSUME NEW b \in 0 .. top - 1
        PROVE  ret[b] = JumpStep(seed, b, ret[b + 1])
    <2>1. b \in 0 .. top /\ b # top
      BY <1>1
    <2> QED
      BY <1>8, <2>1 DEF JumpStep
  <1>10. ret[top] = {1}
    BY <1>1, <1>8
  <1>11. ret \in [0 .. top -> Word]
    <2>1. ASSUME NEW b \in 0 .. top PROVE ret[b] \in Word
      <3> DEFINE Good == {n \in Nat : n <= top => ret[top - n] \in Word}
      <3>1. 0 \in Good
        <4>1. top - 0 = top
          BY <1>1
        <4> QED
          BY <1>3, <1>10, <4>1
      <3>2. ASSUME NEW n \in Nat, n \in Good PROVE n + 1 \in Good
        <4> SUFFICES ASSUME n + 1 <= top PROVE ret[top - (n + 1)] \in Word
          OBVIOUS
        <4>1. top - (n + 1) \in 0 .. top - 1 /\ (top - (n + 1)) + 1 = top - n /\ ret[top - n] \in Word
          BY <1>1, <3>2
        <4>2. ret[top - (n + 1)] = JumpStep(seed, top - (n + 1), ret[top - n])
          BY <1>9, <4>1
        <4> QED
          BY <4>1, <4>2, WordOps DEF JumpStep
      <3> HIDE DEF Good
      <3>3. top - b \in Good
        BY <1>1, <3>1, <3>2, Induction
      <3>4. top - (top - b) = b /\ top - b \in Nat /\ top - b <= top
        BY <1>1
      <3> QED
        BY <3>3, <3>4 DEF Good
    <2>2. ret = [b \in 0 .. top |-> ret[b]]
      BY <1>8
    <2> QED
      BY <2>1, <2>2
  <1>12. Jump(seed, top, ret)
    <2> HIDE DEF Def
    <2> QED
      BY <1>1, <1>2, <1>9, <1>10, <1>11 DEF Jump
  <1> QED
    BY <1>12

LEMMA JumpType ==
  ASSUME NEW seed \in Nat, seed < 2^63
  PROVE  generate_initial_xor_val(seed) \in Word
  <1>1. CASE seed = 0
    BY <1>1, WordOps DEF generate_initial_xor_val
  <1>2. CASE seed # 0
    <2>1. PICK top, ret : Jump(seed, top, ret)
      BY <1>2, JumpUnfolds
    <2> QED
      BY <2>1 DEF Jump
  <1> QED
    BY <1>1, <1>2

-----------------------------------------------------------------------------
(* The distribution of the table                                           *)

(* Integer division rounds down.                                           *)
LEMMA Division ==
  ASSUME NEW a \in Nat, NEW b \in Nat \ {0}
  PROVE  /\ a \div b \in Nat
         /\ (a \div b) * b <= a
         /\ a < ((a \div b) + 1) * b
  OBVIOUS

(* The remainder is the number of ranks with one word more.                *)
LEMMA Shares ==
  ASSUME NEW W \in Nat, NEW P \in Nat \ {0}
  PROVE  /\ min_local_table_size(W, P) \in Nat
         /\ remainder(W, P) \in 0 .. P - 1
         /\ W = min_local_table_size(W, P) * P + remainder(W, P)
  <1>1. /\ W \div P \in Nat /\ (W \div P) * P <= W /\ W < ((W \div P) + 1) * P
    BY Division
  <1>2. ((W \div P) + 1) * P = (W \div P) * P + P
    BY <1>1
  <1> QED
    BY <1>1, <1>2 DEF min_local_table_size, remainder

LEMMA Distributivity ==
  ASSUME NEW a \in Int, NEW b \in Int, NEW c \in Int
  PROVE  (a + b) * c = a * c + b * c /\ c * (a + b) = c * a + c * b
  OBVIOUS

LEMMA MulMonotone ==
  ASSUME NEW a \in Int, NEW b \in Int, NEW c \in Nat, a <= b
  PROVE  a * c <= b * c
  OBVIOUS

(* Every update of update_table reaches the word it is meant for, for any  *)
(* table size and any number of ranks, more ranks than words included (the *)
(* division by min_local_table_size is then never executed).               *)
THEOREM UpdatesCorrect ==
  \A W \in Nat, P \in Nat \ {0} : \A g \in 0 .. W - 1 : UpdateHitsWord(W, P, g)
  <1> TAKE W \in Nat, P \in Nat \ {0}
  <1> TAKE g \in 0 .. W - 1
  <1> DEFINE m == min_local_table_size(W, P)
             k == remainder(W, P)
             pe == remote_pe(W, P, g)
  <1>1. m \in Nat /\ k \in Nat /\ k < P /\ W = m * P + k /\ g \in Nat /\ g < W
    BY Shares
  <1>2. num_top_table_entries(W, P) = (m + 1) * k
    BY DEF num_top_table_entries
  <1> HIDE DEF m, k, pe
  <1>3. CASE g < (m + 1) * k
    <2>1. pe = g \div (m + 1) /\ global_start_at_pe(W, P, g) = (m + 1) * pe
      BY <1>2, <1>3 DEF remote_pe, global_start_at_pe, pe, m
    <2>2. pe \in Nat /\ pe * (m + 1) <= g /\ g < (pe + 1) * (m + 1)
      BY <1>1, <2>1, Division, SMTT(30)
    <2>3. pe < k
      <3> SUFFICES ASSUME k <= pe PROVE FALSE
        BY <1>1, <2>2
      <3>1. k * (m + 1) <= pe * (m + 1)
        BY <1>1, <2>2, MulMonotone
      <3> QED
        BY <1>1, <1>3, <2>2, <3>1
    <2>4. /\ local_table_size(W, P, pe) = m + 1
          /\ global_start_my_proc(W, P, pe) = (m + 1) * pe
      BY <2>3 DEF local_table_size, global_start_my_proc, m, k
    <2>5. index(W, P, g) = g - (m + 1) * pe
      BY <2>1 DEF index
    <2>6. index(W, P, g) \in 0 .. m
      BY <1>1, <2>2, <2>5
    <2> QED
      BY <1>1, <2>2, <2>3, <2>4, <2>5, <2>6 DEF UpdateHitsWord, pe
  <1>4. CASE ~(g < (m + 1) * k)
    <2>1. pe = (g - k) \div m /\ global_start_at_pe(W, P, g) = (m * pe) + k
      BY <1>2, <1>4 DEF remote_pe, global_start_at_pe, pe, m, k
    <2>2. g - k \in Nat /\ m * k <= g - k /\ g - k < m * P
      BY <1>1, <1>4
    <2>3. m # 0
      BY <1>1, <2>2
    <2>4. pe \in Nat /\ pe * m <= g - k /\ g - k < (pe + 1) * m
      BY <1>1, <2>1, <2>2, <2>3, Division
    <2>5. k <= pe
      <3> SUFFICES ASSUME pe + 1 <= k PROVE FALSE
        BY <1>1, <2>4
      <3>1. (pe + 1) * m <= k * m
        BY <1>1, <2>4, MulMonotone
      <3> QED
        BY <1>1, <2>2, <2>4, <3>1
    <2>6. pe < P
      <3> SUFFICES ASSUME P <= pe PROVE FALSE
        BY <1>1, <2>4
      <3>1. P * m <= pe * m
        BY <1>1, <2>4, MulMonotone
      <3> QED
        BY <1>1, <2>2, <2>4, <3>1
    <2>7. /\ local_table_size(W, P, pe) = m
          /\ global_start_my_proc(W, P, pe) = (m * pe) + k
      BY <1>1, <2>4, <2>5 DEF local_table_size, global_start_my_proc, m, k
    <2>8. index(W, P, g) = g - ((m * pe) + k)
      BY <2>1 DEF index
    <2>9. index(W, P, g) \in 0 .. m - 1
      BY <1>1, <2>4, <2>8
    <2> QED
      BY <1>1, <2>4, <2>6, <2>7, <2>8, <2>9 DEF UpdateHitsWord, pe
  <1> QED
    BY <1>3, <1>4

(* The local tables of any number of ranks tile the table and differ by at *)
(* most one word, as the header of random_access.c says.                   *)
THEOREM TablesCorrect ==
  \A W \in Nat, P \in Nat \ {0} : TablesTile(W, P) /\ Balanced(W, P)
  <1> TAKE W \in Nat, P \in Nat \ {0}
  <1> DEFINE m == min_local_table_size(W, P)
             k == remainder(W, P)
  <1>1. m \in Nat /\ k \in Nat /\ k < P /\ W = m * P + k
    BY Shares
  <1> HIDE DEF m, k
  <1>2. Balanced(W, P)
    BY <1>1 DEF Balanced, local_table_size, m, k
  <1>3. global_start_my_proc(W, P, 0) = 0
    BY <1>1 DEF global_start_my_proc, m, k
  <1>4. ASSUME NEW r \in 0 .. P - 1
        PROVE  global_start_my_proc(W, P, r) + local_table_size(W, P, r)
                 = IF r = P - 1 THEN W ELSE global_start_my_proc(W, P, r + 1)
    <2>1. (m + 1) * (r + 1) = (m + 1) * r + (m + 1) /\ m * (r + 1) = m * r + m
      BY <1>1, Distributivity
    <2>2. (m + 1) * k = m * k + k
      BY <1>1, Distributivity
    <2>3. CASE r + 1 < k
      BY <1>1, <2>1, <2>3 DEF global_start_my_proc, local_table_size, m, k
    <2>4. CASE r + 1 = k
      BY <1>1, <2>1, <2>2, <2>4 DEF global_start_my_proc, local_table_size, m, k
    <2>5. CASE r + 1 > k
      <3>1. /\ global_start_my_proc(W, P, r) = (m * r) + k
            /\ local_table_size(W, P, r) = m
            /\ global_start_my_proc(W, P, r + 1) = (m * (r + 1)) + k
        BY <1>1, <2>5 DEF global_start_my_proc, local_table_size, m, k
      <3>2. r = P - 1 => m * (r + 1) = m * P
        BY <1>1
      <3> QED
        BY <1>1, <2>1, <3>1, <3>2
    <2> QED
      BY <1>1, <2>3, <2>4, <2>5
  <1> QED
    BY <1>2, <1>3, <1>4 DEF TablesTile

-----------------------------------------------------------------------------
(* The constants of the benchmark                                          *)
LEMMA Sizes ==
  /\ num_ranks \in Nat \ {0} /\ N \in Nat \ {0} /\ N <= 2^58
  /\ Ranks = 0 .. num_ranks - 1 /\ LogTableSize \in Nat
  /\ \A r \in Ranks : /\ local_table_size(N, num_ranks, r) \in Nat
                      /\ iterations(r) \in Nat
                      /\ Start(r) \in Nat /\ Start(r) <= N
                      /\ Local(r) = 0 .. local_table_size(N, num_ranks, r) - 1
                      /\ Cardinality(Local(r)) = local_table_size(N, num_ranks, r)
                      /\ iterations(r) = 4 * Cardinality(Local(r))
                      /\ Start(r) + local_table_size(N, num_ranks, r)
                           = IF r = num_ranks - 1 THEN N ELSE Start(r + 1)
  /\ Start(0) = 0
  <1>1. /\ num_ranks \in Nat \ {0} /\ LogTableSize \in 0 .. Width /\ LogTableSize <= 58
        /\ Width \in Nat
    BY RanksAssumption, TableAssumption, WidthAssumption
  <1>2. LogTableSize \in Nat
    BY <1>1
  <1>3. N \in Nat \ {0}
    BY <1>2, Powers DEF N
  <1>4. N <= 2^58
    BY <1>1, <1>2, PowersMonotone DEF N
  <1>5. TablesTile(N, num_ranks)
    BY <1>1, <1>3, TablesCorrect
  <1>6. /\ min_local_table_size(N, num_ranks) \in Nat /\ remainder(N, num_ranks) \in 0 .. num_ranks - 1
        /\ N = min_local_table_size(N, num_ranks) * num_ranks + remainder(N, num_ranks)
    BY <1>1, <1>3, Shares
  <1>7. ASSUME NEW r \in Ranks
        PROVE  /\ local_table_size(N, num_ranks, r) \in Nat
               /\ Start(r) \in Nat
               /\ Start(r) + local_table_size(N, num_ranks, r)
                    = IF r = num_ranks - 1 THEN N ELSE Start(r + 1)
    <2>1. r \in 0 .. num_ranks - 1
      BY DEF Ranks
    <2>2. local_table_size(N, num_ranks, r) \in Nat
      BY <1>6, <2>1 DEF local_table_size
    <2>3. Start(r) \in Nat
      BY <1>6, <2>1 DEF Start, global_start_my_proc
    <2> QED
      BY <1>5, <2>1, <2>2, <2>3 DEF TablesTile, Start
  <1>8. ASSUME NEW r \in Ranks
        PROVE  Cardinality(Local(r)) = local_table_size(N, num_ranks, r)
    <2>1. local_table_size(N, num_ranks, r) \in Nat
      BY <1>7
    <2>2. 0 > local_table_size(N, num_ranks, r) - 1 => local_table_size(N, num_ranks, r) = 0
      BY <2>1
    <2> QED
      BY <2>1, <2>2, FS_Interval DEF Local
  <1>9. ASSUME NEW r \in Ranks PROVE Start(r) <= N
    <2> DEFINE m == min_local_table_size(N, num_ranks)
               k == remainder(N, num_ranks)
    <2>1. r \in Nat /\ r <= num_ranks /\ m \in Nat /\ k \in Nat /\ num_ranks \in Nat /\ N = m * num_ranks + k
      BY <1>1, <1>6 DEF Ranks
    <2>2. r * m <= num_ranks * m
      BY <2>1, MulMonotone
    <2>3. m * r <= m * num_ranks /\ (m + 1) * r = m * r + r
      BY <2>1, <2>2
    <2> HIDE DEF m, k
    <2> QED
      BY <2>1, <2>3 DEF Start, global_start_my_proc, m, k
  <1>10. Start(0) = 0
    BY <1>5 DEF TablesTile, Start
  <1>11. ASSUME NEW r \in Ranks
         PROVE  iterations(r) \in Nat /\ iterations(r) = 4 * Cardinality(Local(r))
    <2>1. iterations(r) = 4 * local_table_size(N, num_ranks, r)
      BY DEF iterations
    <2> QED
      BY <1>7, <1>8, <2>1
  <1>12. ASSUME NEW r \in Ranks
         PROVE  Local(r) = 0 .. local_table_size(N, num_ranks, r) - 1
    BY DEF Local
  <1>13. Ranks = 0 .. num_ranks - 1
    BY DEF Ranks
  <1> QED
    BY <1>1, <1>2, <1>3, <1>4, <1>7, <1>8, <1>9, <1>10, <1>11, <1>12, <1>13

(* The sum of a vector with one number for each rank                       *)
Sum(f, sum) ==
  /\ sum \in [0 .. num_ranks -> Nat] /\ sum[0] = 0
  /\ \A n \in Ranks : sum[n + 1] = sum[n] + f[n]
  /\ Total(f) = sum[num_ranks]

LEMMA SumUnfolds ==
  ASSUME NEW f \in [Ranks -> Nat]
  PROVE  \E sum : Sum(f, sum)
  <1> DEFINE Def(sum) == [n \in 0 .. num_ranks |-> IF n = 0 THEN 0 ELSE sum[n - 1] + f[n - 1]]
             sum == CHOOSE s : s = Def(s)
             term(n) == IF n \in Ranks THEN f[n] ELSE 0
             g == [p \in Nat \X Nat |-> p[2] + term(p[1])]
  <1>1. num_ranks \in Nat \ {0} /\ Ranks = 0 .. num_ranks - 1
    BY Sizes
  <1>2. Total(f) = sum[num_ranks]
    BY DEF Total
  <1>3. \A n : term(n) \in Nat
    OBVIOUS
  <1> HIDE DEF term
  <1>4. g \in [Nat \X Nat -> Nat]
    BY <1>3
  <1> HIDE DEF g
  <1>5. PICK F : Recursive(F, Nat, 0, g)
    <2>1. 0 \in Nat
      OBVIOUS
    <2> QED
      BY <1>4, <2>1, Recursion
  <1>6. F \in [Nat -> Nat] /\ F[0] = 0 /\ \A n \in Nat : F[n + 1] = F[n] + term(n)
    BY <1>5 DEF Recursive, g
  <1> DEFINE h == [n \in 0 .. num_ranks |-> F[n]]
  <1>7. h = Def(h)
    <2>1. ASSUME NEW n \in 0 .. num_ranks PROVE h[n] = Def(h)[n]
      <3>1. CASE n = 0
        BY <1>6, <3>1
      <3>2. CASE n # 0
        <4>1. n - 1 \in Ranks /\ n - 1 \in Nat /\ n - 1 \in 0 .. num_ranks /\ (n - 1) + 1 = n
          BY <1>1, <3>2
        <4>2. F[n] = F[n - 1] + f[n - 1]
          BY <1>6, <4>1 DEF term
        <4> QED
          BY <3>2, <4>1, <4>2
      <3> QED
        BY <3>1, <3>2
    <2> QED
      BY <2>1
  <1>8. sum = Def(sum)
    <2> HIDE DEF h, Def
    <2> QED
      BY <1>7
  <1> HIDE DEF sum
  <1>9. sum[0] = 0
    BY <1>1, <1>8
  <1>10. ASSUME NEW n \in Ranks PROVE sum[n + 1] = sum[n] + f[n]
    <2>1. n + 1 \in 0 .. num_ranks /\ n + 1 # 0 /\ (n + 1) - 1 = n
      BY <1>1
    <2> QED
      BY <1>8, <2>1
  <1>11. sum \in [0 .. num_ranks -> Nat]
    <2> DEFINE Good == {n \in Nat : n <= num_ranks => sum[n] \in Nat}
    <2>1. 0 \in Good
      BY <1>9
    <2>2. ASSUME NEW n \in Nat, n \in Good PROVE n + 1 \in Good
      <3>1. ASSUME n + 1 <= num_ranks PROVE sum[n + 1] \in Nat
        <4>1. n \in Ranks /\ sum[n] \in Nat
          BY <1>1, <2>2, <3>1
        <4> QED
          BY <1>10, <4>1
      <3> QED
        BY <3>1
    <2> HIDE DEF Good
    <2>3. Nat \subseteq Good
      BY <2>1, <2>2, Induction
    <2>4. \A n \in 0 .. num_ranks : sum[n] \in Nat
      BY <1>1, <2>3 DEF Good
    <2>5. sum = [n \in 0 .. num_ranks |-> sum[n]]
      BY <1>8
    <2> QED
      BY <2>4, <2>5
  <1>12. Sum(f, sum)
    BY <1>2, <1>9, <1>10, <1>11 DEF Sum
  <1> QED
    BY <1>12

(* The sum of the errors is bounded by the words there are.                *)
LEMMA TotalBounded ==
  ASSUME NEW f \in [Ranks -> Nat], \A r \in Ranks : f[r] <= Cardinality(Local(r))
  PROVE  Total(f) \in 0 .. N
  <1>1. PICK sum : Sum(f, sum)
    BY SumUnfolds
  <1> DEFINE first(n) == IF n = num_ranks THEN N ELSE Start(n)
             Good == {n \in Nat : n <= num_ranks => sum[n] <= first(n)}
  <1>2. num_ranks \in Nat \ {0} /\ Ranks = 0 .. num_ranks - 1 /\ N \in Nat
    BY Sizes
  <1>3. 0 \in Good
    BY <1>1, <1>2, Sizes DEF Sum
  <1>4. ASSUME NEW n \in Nat, n \in Good PROVE n + 1 \in Good
    <2> SUFFICES ASSUME n + 1 <= num_ranks PROVE sum[n + 1] <= first(n + 1)
      OBVIOUS
    <2>1. n \in Ranks /\ n # num_ranks /\ sum[n] <= Start(n)
      BY <1>2, <1>4
    <2>2. /\ sum[n + 1] = sum[n] + f[n] /\ sum[n] \in Nat /\ f[n] \in Nat
          /\ f[n] <= local_table_size(N, num_ranks, n)
      BY <1>1, <1>2, <2>1, Sizes DEF Sum
    <2>3. Start(n) \in Nat /\ local_table_size(N, num_ranks, n) \in Nat
          /\ Start(n) + local_table_size(N, num_ranks, n) = first(n + 1)
      <3>1. /\ Start(n) \in Nat /\ local_table_size(N, num_ranks, n) \in Nat
            /\ Start(n) + local_table_size(N, num_ranks, n) = IF n = num_ranks - 1 THEN N ELSE Start(n + 1)
        BY <2>1, Sizes
      <3>2. n = num_ranks - 1 <=> n + 1 = num_ranks
        BY <1>2
      <3> QED
        BY <3>1, <3>2
    <2> HIDE DEF first
    <2> QED
      BY <2>1, <2>2, <2>3
  <1> HIDE DEF Good
  <1>5. num_ranks \in Good
    BY <1>2, <1>3, <1>4, Induction
  <1> QED
    BY <1>1, <1>2, <1>5 DEF Good, Sum

-----------------------------------------------------------------------------
(* The collectives and their places                                        *)
LEMMA Scripts ==
  /\ Len(Script) = 27
  /\ Script[1] = "begin" /\ Script[2] = "alloc" /\ Script[3] = "abort"
  /\ Script[4] = "aborted" /\ Script[5] = "x_begin" /\ Script[6] = "table_key"
  /\ Script[7] = "x_1" /\ Script[8] = "lock_key" /\ Script[9] = "x_2"
  /\ Script[10] = "table_addr" /\ Script[11] = "x_3" /\ Script[12] = "x_4"
  /\ Script[13] = "lock_addr" /\ Script[14] = "x_end" /\ Script[15] = "update1"
  /\ Script[16] = "updated1" /\ Script[17] = "gups" /\ Script[18] = "score"
  /\ Script[19] = "scored" /\ Script[20] = "update2" /\ Script[21] = "updated2"
  /\ Script[22] = "verified" /\ Script[23] = "errors" /\ Script[24] = "reported"
  /\ Script[25] = "end" /\ Script[26] = "fini" /\ Script[27] = "finalize"
  BY DEF Script

LEMMA Positions ==
  /\ \A k \in 1 .. 27 : Pos[Script[k]] = k
  /\ Pos["begin"] = 1 /\ Pos["alloc"] = 2 /\ Pos["abort"] = 3
  /\ Pos["aborted"] = 4 /\ Pos["x_begin"] = 5 /\ Pos["table_key"] = 6
  /\ Pos["x_1"] = 7 /\ Pos["lock_key"] = 8 /\ Pos["x_2"] = 9
  /\ Pos["table_addr"] = 10 /\ Pos["x_3"] = 11 /\ Pos["x_4"] = 12
  /\ Pos["lock_addr"] = 13 /\ Pos["x_end"] = 14 /\ Pos["update1"] = 15
  /\ Pos["updated1"] = 16 /\ Pos["gups"] = 17 /\ Pos["score"] = 18
  /\ Pos["scored"] = 19 /\ Pos["update2"] = 20 /\ Pos["updated2"] = 21
  /\ Pos["verified"] = 22 /\ Pos["errors"] = 23 /\ Pos["reported"] = 24
  /\ Pos["end"] = 25 /\ Pos["fini"] = 26 /\ Pos["finalize"] = 27
  <1>1. ASSUME NEW k \in 1 .. 27 PROVE Pos[Script[k]] = k
    <2>1. \A j \in 1 .. 27 : Script[j] = Script[k] => j = k
      BY Scripts
    <2>2. Script[k] \in ToSet(Script)
      BY Scripts DEF ToSet
    <2>3. Pos[Script[k]] = CHOOSE j \in 1 .. 27 : Script[j] = Script[k]
      BY <2>2, Scripts DEF Pos
    <2> QED
      BY <2>1, <2>3
  <1> QED
    BY <1>1, Scripts

-----------------------------------------------------------------------------
(* The places of the ranks.  A rank's place follows from the number of     *)
(* collectives it has entered and from whether some rank has failed to     *)
(* allocate its memory.                                                    *)
Control ==
  /\ pc \in [Ranks -> {"coll", "update", "wait", "verify", "done"}]
  /\ at \in [Ranks -> 1 .. 27] /\ colls \in [Ranks -> 1 .. 27]
Memories ==
  /\ hpcc_table \in [Ranks -> {"none", "live", "freed"}]
  /\ hpcc_lock \in [Ranks -> {"none", "live", "freed"}]
  /\ recv_abort \in [Ranks -> 0 .. num_ranks]
  /\ mr \in [Ranks -> {"none", "open", "closed"}]
  /\ ep \in [Ranks -> {"open", "closed"}]

Aborting == \E q \in Ranks : send_abort(q)
PlaceAfter(n, aborting) == IF n >= 5 /\ aborting THEN n + 20 ELSE n
PlaceOf(r) ==
  /\ at[r] = PlaceAfter(colls[r], Aborting)
  /\ pc[r] \in {"update", "wait"} => colls[r] \in {15, 20}
  /\ pc[r] = "verify" => colls[r] = 21
  /\ pc[r] = "done" => at[r] = 27
Places == \A r \in Ranks : PlaceOf(r)

(* No rank is more than one collective ahead, and none is where another    *)
(* one has left a collective that it has not entered.                      *)
Abreast ==
  \A r, q \in Ranks : /\ colls[r] <= colls[q] + 1
                      /\ pc[r] # "coll" => colls[r] <= colls[q]

(* What a rank owns at its place                                           *)
Owns(r) ==
  /\ at[r] <= 4 => hpcc_table[r] \in {"none", "live"} /\ mr[r] = "none"
  /\ at[r] \in 5 .. 24 => hpcc_table[r] = "live" /\ mr[r] = "open"
  /\ at[r] >= 25 => mr[r] = IF Aborting THEN "none" ELSE "closed"
  /\ colls[r] >= 4 => (recv_abort[r] > 0 <=> Aborting)
  /\ at[r] <= 26 => ep[r] = "open"
Ownership == \A r \in Ranks : Owns(r)

ControlInv == Control /\ Memories /\ Places /\ Abreast /\ Ownership

LEMMA ControlInit ==
  ASSUME Init
  PROVE  ControlInv
  <1>1. Pos["begin"] = 1
    BY Positions
  <1>2. num_ranks \in Nat
    BY Sizes
  <1>3. Control /\ Memories
    BY <1>1, <1>2 DEF Init, Control, Memories
  <1>4. ASSUME NEW r \in Ranks
        PROVE  /\ at[r] = 1 /\ colls[r] = 1 /\ pc[r] = "coll"
               /\ hpcc_table[r] = "none" /\ mr[r] = "none" /\ ep[r] = "open"
    BY <1>1 DEF Init
  <1>5. Places /\ Abreast /\ Ownership
    BY <1>4 DEF Places, PlaceOf, PlaceAfter, Abreast, Ownership, Owns
  <1> QED
    BY <1>3, <1>5 DEF ControlInv

(* A rank enters a collective.                                             *)
LEMMA Enters ==
  ASSUME Control, Places, Abreast, NEW r \in Ranks, NEW name,
         EnterColl(r, name), \A q \in Ranks : colls[r] <= colls[q],
         Pos[name] \in 1 .. 27, Pos[name] = PlaceAfter(colls[r] + 1, Aborting'),
         \A q \in Ranks : colls[q] >= 5 => (Aborting' <=> Aborting)
  PROVE  Control' /\ Places' /\ Abreast'
  <1>1. /\ pc' \in [Ranks -> {"coll", "update", "wait", "verify", "done"}]
        /\ at' \in [Ranks -> 1 .. 27]
        /\ pc'[r] = "coll" /\ at'[r] = Pos[name] /\ colls'[r] = colls[r] + 1
        /\ \A q \in Ranks : q # r => pc'[q] = pc[q] /\ at'[q] = at[q] /\ colls'[q] = colls[q]
    BY DEF Control, EnterColl, Set
  <1>2. \A q \in Ranks : colls[q] \in 1 .. 27 /\ at[q] \in 1 .. 27
    BY DEF Control
  <1>3. colls[r] + 1 \in 1 .. 27
    BY <1>2 DEF PlaceAfter
  <1>4. colls' \in [Ranks -> 1 .. 27]
    BY <1>3 DEF Control, EnterColl
  <1>5. ASSUME NEW q \in Ranks PROVE PlaceOf(q)'
    <2>1. CASE q = r
      BY <1>1, <2>1 DEF PlaceOf
    <2>2. CASE q # r
      <3>1. PlaceOf(q) /\ (colls[q] >= 5 => (Aborting' <=> Aborting))
        BY DEF Places
      <3>2. PlaceAfter(colls[q], Aborting') = PlaceAfter(colls[q], Aborting)
        BY <3>1 DEF PlaceAfter
      <3> QED
        BY <1>1, <2>2, <3>1, <3>2 DEF PlaceOf
    <2> QED
      BY <2>1, <2>2
  <1>6. Abreast'
    <2> SUFFICES ASSUME NEW p \in Ranks, NEW q \in Ranks
                 PROVE  /\ colls'[p] <= colls'[q] + 1
                        /\ pc'[p] # "coll" => colls'[p] <= colls'[q]
      BY DEF Abreast
    <2>1. /\ colls[p] <= colls[q] + 1
          /\ pc[p] # "coll" => colls[p] <= colls[q]
          /\ colls[r] <= colls[q]
      BY DEF Abreast
    <2>2. colls[p] \in Nat /\ colls[q] \in Nat /\ colls[r] \in Nat
      BY <1>2
    <2>3. colls'[q] = colls[q] \/ (q = r /\ colls'[q] = colls[q] + 1)
      BY <1>1
    <2>4. CASE p = r
      BY <1>1, <2>1, <2>2, <2>3, <2>4
    <2>5. CASE p # r
      <3>1. colls'[p] = colls[p] /\ pc'[p] = pc[p]
        BY <1>1, <2>5
      <3>2. colls'[q] \in Nat /\ colls[q] <= colls'[q]
        BY <2>2, <2>3
      <3> QED
        BY <2>1, <2>2, <3>1, <3>2
    <2> QED
      BY <2>4, <2>5
  <1> QED
    BY <1>1, <1>4, <1>5, <1>6 DEF Control, Places

(* A rank leaves the collective it is in, or works outside of one.         *)
LEMMA Moves ==
  ASSUME Control, Places, Abreast, NEW r \in Ranks,
         NEW p \in {"update", "wait", "verify", "done"},
         pc' = Set(pc, r, p), at' = at, colls' = colls, Aborting' <=> Aborting,
         \A q \in Ranks : colls[r] <= colls[q],
         p \in {"update", "wait"} => colls[r] \in {15, 20},
         p = "verify" => colls[r] = 21, p = "done" => at[r] = 27
  PROVE  Control' /\ Places' /\ Abreast'
  <1>1. /\ pc' \in [Ranks -> {"coll", "update", "wait", "verify", "done"}]
        /\ pc'[r] = p /\ \A q \in Ranks : q # r => pc'[q] = pc[q]
    BY DEF Control, Set
  <1>2. ASSUME NEW q \in Ranks PROVE PlaceOf(q)'
    <2>1. PlaceOf(q) /\ at'[q] = at[q] /\ colls'[q] = colls[q]
      BY DEF Places
    <2>2. at'[q] = PlaceAfter(colls'[q], Aborting')
      <3>1. PlaceAfter(colls[q], Aborting') = PlaceAfter(colls[q], Aborting)
        BY DEF PlaceAfter
      <3> QED
        BY <2>1, <3>1 DEF PlaceOf
    <2>3. CASE q = r
      <3>1. pc'[q] = p /\ p \in {"update", "wait", "verify", "done"}
        BY <1>1, <2>3
      <3> QED
        BY <2>1, <2>2, <2>3, <3>1 DEF PlaceOf
    <2>4. CASE q # r
      <3>1. pc'[q] = pc[q]
        BY <1>1, <2>4
      <3> QED
        BY <2>1, <2>2, <3>1 DEF PlaceOf
    <2> QED
      BY <2>3, <2>4
  <1>3. Abreast'
    BY <1>1 DEF Abreast
  <1> QED
    BY <1>1, <1>2, <1>3 DEF Control, Places

(* A rank leaves a collective at the place that the collective has.        *)
LEMMA Leaving ==
  ASSUME Control, Places, NEW r \in Ranks, NEW name, Leaves(r, name)
  PROVE  /\ at[r] = Pos[name] /\ at[r] \in 1 .. 27 /\ pc[r] = "coll"
         /\ at[r] = PlaceAfter(colls[r], Aborting) /\ colls[r] \in 1 .. 27
         /\ \A q \in Ranks : colls[r] <= colls[q]
  <1>1. at[r] \in 1 .. 27 /\ Script[at[r]] = name /\ pc[r] = "coll" /\ colls[r] \in 1 .. 27
    BY DEF Control, Leaves
  <1>2. \A q \in Ranks : colls[r] <= colls[q]
    <2> SUFFICES ASSUME NEW q \in Ranks PROVE colls[r] <= colls[q]
      OBVIOUS
    <2>1. colls[q] \in Nat /\ colls[r] \in Nat /\ colls[q] >= colls[r]
      BY DEF Control, Leaves
    <2> QED
      BY <2>1
  <1>3. at[r] = Pos[name]
    BY <1>1, Positions
  <1> QED
    BY <1>1, <1>2, <1>3 DEF Places, PlaceOf

(* The collectives that follow without a step of their own                 *)
LEMMA PassedPlaces ==
  ASSUME NEW k \in 1 .. 27, Script[k] \in Passed
  PROVE  k \in {2, 17, 18, 22, 25} \cup 5 .. 13
  <1>1. /\ Pos["alloc"] = 2 /\ Pos["gups"] = 17 /\ Pos["score"] = 18
        /\ Pos["verified"] = 22 /\ Pos["end"] = 25 /\ Pos["x_begin"] = 5 /\ Pos["lock_addr"] = 13
        /\ Pos[Script[k]] = k
    BY Positions
  <1>2. CASE Script[k] \in {"alloc", "gups", "score", "verified", "end"}
    BY <1>1, <1>2
  <1>3. CASE Script[k] \in {Script[j] : j \in 5 .. 13}
    <2>1. PICK j \in 5 .. 13 : Script[k] = Script[j]
      BY <1>3
    <2>2. j \in 1 .. 27
      OBVIOUS
    <2>3. Pos[Script[j]] = j
      BY <2>2, Positions
    <2> QED
      BY <1>1, <2>1, <2>3
  <1> QED
    BY <1>1, <1>2, <1>3 DEF Passed

LEMMA AllocateControl ==
  ASSUME ControlInv, NEW r \in Ranks, Allocate(r)
  PROVE  ControlInv'
  <1>1. Control /\ Memories /\ Places /\ Abreast /\ Ownership
    BY DEF ControlInv
  <1>2. Leaves(r, "begin") /\ EnterColl(r, "alloc") /\ Pos["begin"] = 1 /\ Pos["alloc"] = 2
    BY Positions DEF Allocate
  <1>3. /\ at[r] = 1 /\ at[r] = PlaceAfter(colls[r], Aborting) /\ colls[r] \in 1 .. 27
        /\ \A q \in Ranks : colls[r] <= colls[q]
    BY <1>1, <1>2, Leaving
  <1>4. colls[r] = 1
    BY <1>3 DEF PlaceAfter
  <1>5. \A q \in Ranks : colls[q] \in 1 .. 2
    BY <1>1, <1>4 DEF Abreast, Control
  <1>6. Control' /\ Places' /\ Abreast'
    <2>1. Pos["alloc"] = PlaceAfter(colls[r] + 1, Aborting') /\ Pos["alloc"] \in 1 .. 27
      BY <1>2, <1>4 DEF PlaceAfter
    <2> QED
      BY <1>1, <1>2, <1>3, <1>5, <2>1, Enters
  <1>7. Memories'
    BY <1>1 DEF Memories, Allocate, Set
  <1>8. ASSUME NEW q \in Ranks PROVE Owns(q)'
    <2>1. colls'[q] \in 1 .. 3 /\ at'[q] = colls'[q] /\ at'[q] \in 1 .. 3
      <3>1. colls'[q] \in 1 .. 3 /\ at'[q] = PlaceAfter(colls'[q], Aborting')
        BY <1>1, <1>2, <1>5, <1>6 DEF EnterColl, Control, Places, PlaceOf
      <3> QED
        BY <3>1 DEF PlaceAfter
    <2>2. at[q] \in 1 .. 2
      BY <1>1, <1>5 DEF Places, PlaceOf, PlaceAfter
    <2>3. hpcc_table[q] \in {"none", "live"} /\ mr[q] = "none" /\ ep[q] = "open"
      BY <1>1, <2>2 DEF Ownership, Owns
    <2>4. hpcc_table'[q] \in {"none", "live"} /\ mr'[q] = "none" /\ ep'[q] = "open"
      BY <1>1, <2>3 DEF Allocate, Set, Memories
    <2> QED
      BY <2>1, <2>4 DEF Owns
  <1> QED
    BY <1>6, <1>7, <1>8 DEF ControlInv, Ownership

LEMMA ReduceAbortControl ==
  ASSUME ControlInv, NEW r \in Ranks, ReduceAbort(r)
  PROVE  ControlInv'
  <1>1. Control /\ Memories /\ Places /\ Abreast /\ Ownership
    BY DEF ControlInv
  <1>2. Leaves(r, "abort") /\ EnterColl(r, "aborted") /\ Pos["abort"] = 3 /\ Pos["aborted"] = 4
    BY Positions DEF ReduceAbort
  <1>3. /\ at[r] = 3 /\ at[r] = PlaceAfter(colls[r], Aborting) /\ colls[r] \in 1 .. 27
        /\ \A q \in Ranks : colls[r] <= colls[q]
    BY <1>1, <1>2, Leaving
  <1>4. colls[r] = 3
    BY <1>3 DEF PlaceAfter
  <1>5. Aborting' <=> Aborting
    BY DEF Aborting, send_abort, ReduceAbort
  <1>6. Control' /\ Places' /\ Abreast'
    <2>1. Pos["aborted"] = PlaceAfter(colls[r] + 1, Aborting') /\ Pos["aborted"] \in 1 .. 27
      BY <1>2, <1>4 DEF PlaceAfter
    <2> QED
      BY <1>1, <1>2, <1>3, <1>5, <2>1, Enters
  <1> DEFINE failed == {q \in Ranks : send_abort(q)}
  <1>7. Cardinality(failed) \in 0 .. num_ranks /\ (Cardinality(failed) > 0 <=> Aborting)
    <2>1. IsFiniteSet(Ranks) /\ Cardinality(Ranks) = num_ranks /\ num_ranks \in Nat
      BY Sizes, FS_Interval
    <2>2. failed \in SUBSET Ranks
      OBVIOUS
    <2>3. IsFiniteSet(failed) /\ Cardinality(failed) <= num_ranks
      BY <2>1, <2>2, FS_Subset
    <2>4. Cardinality(failed) \in Nat /\ (Cardinality(failed) = 0 <=> failed = {})
      BY <2>3, FS_CardinalityType, FS_EmptySet
    <2>5. failed # {} <=> Aborting
      BY DEF Aborting
    <2> QED
      BY <2>1, <2>3, <2>4, <2>5
  <1>8. recv_abort' = [recv_abort EXCEPT ![r] = Cardinality(failed)]
    BY DEF ReduceAbort, Set
  <1> HIDE DEF failed
  <1>9. Memories'
    BY <1>1, <1>7, <1>8 DEF Memories, ReduceAbort
  <1>10. ASSUME NEW q \in Ranks PROVE Owns(q)'
    <2>1. Owns(q) /\ recv_abort \in [Ranks -> 0 .. num_ranks]
      BY <1>1 DEF Ownership, Memories
    <2>2. CASE q = r
      <3>1. at'[r] = 4 /\ colls'[r] = 4 /\ recv_abort'[r] = Cardinality(failed)
        BY <1>1, <1>2, <1>4, <1>8, <2>1 DEF EnterColl, Set, Control
      <3> QED
        BY <1>3, <1>5, <1>7, <2>1, <2>2, <3>1 DEF Owns, ReduceAbort
    <2>3. CASE q # r
      <3>1. at'[q] = at[q] /\ colls'[q] = colls[q] /\ recv_abort'[q] = recv_abort[q]
        BY <1>1, <1>2, <1>8, <2>1, <2>3 DEF EnterColl, Set, Control
      <3> QED
        BY <1>5, <2>1, <3>1 DEF Owns, ReduceAbort
    <2> QED
      BY <2>2, <2>3
  <1> QED
    BY <1>6, <1>9, <1>10 DEF ControlInv, Ownership

LEMMA DecideControl ==
  ASSUME ControlInv, NEW r \in Ranks, Decide(r)
  PROVE  ControlInv'
  <1>1. Control /\ Memories /\ Places /\ Abreast /\ Ownership
    BY DEF ControlInv
  <1>2. Leaves(r, "aborted") /\ Pos["aborted"] = 4 /\ Pos["end"] = 25 /\ Pos["x_begin"] = 5
    BY Positions DEF Decide
  <1>3. /\ at[r] = 4 /\ at[r] = PlaceAfter(colls[r], Aborting) /\ colls[r] \in 1 .. 27
        /\ \A q \in Ranks : colls[r] <= colls[q]
    BY <1>1, <1>2, Leaving
  <1>4. colls[r] = 4
    BY <1>3 DEF PlaceAfter
  <1>5. recv_abort[r] > 0 <=> Aborting
    BY <1>1, <1>4 DEF Ownership, Owns
  <1>6. hpcc_table[r] \in {"none", "live"} /\ mr[r] = "none" /\ ep[r] = "open"
    BY <1>1, <1>3 DEF Ownership, Owns
  <1>7. \A q \in Ranks : q # r => hpcc_table'[q] = hpcc_table[q] /\ mr'[q] = mr[q]
    BY <1>1 DEF Decide, Set, Memories
  <1>8. UNCHANGED <<hpcc_lock, recv_abort, ep>>
    BY DEF Decide
  <1>9. CASE Aborting
    <2>1. /\ hpcc_table' = Set(hpcc_table, r, IF hpcc_table[r] = "live" THEN "freed" ELSE "none")
          /\ EnterColl(r, "end") /\ mr' = mr
      BY <1>5, <1>9 DEF Decide
    <2>2. hpcc_table'[r] = "none" <=> hpcc_table[r] = "none"
      BY <1>1, <1>6, <2>1 DEF Set, Memories
    <2>3. Aborting' <=> Aborting
      BY <1>7, <1>8, <2>2 DEF Aborting, send_abort
    <2>4. Control' /\ Places' /\ Abreast'
      <3>1. Pos["end"] = PlaceAfter(colls[r] + 1, Aborting') /\ Pos["end"] \in 1 .. 27
        BY <1>2, <1>4, <1>9, <2>3 DEF PlaceAfter
      <3> QED
        BY <1>1, <1>3, <2>1, <2>3, <3>1, Enters
    <2>5. Memories'
      BY <1>1, <1>6, <1>8, <2>1 DEF Memories, Set
    <2>6. ASSUME NEW q \in Ranks PROVE Owns(q)'
      <3>1. Owns(q)
        BY <1>1 DEF Ownership
      <3>2. CASE q = r
        <4>1. at'[r] = 25 /\ colls'[r] = 5
          BY <1>1, <1>2, <1>4, <2>1 DEF EnterColl, Set, Control
        <4> QED
          BY <1>5, <1>6, <1>8, <1>9, <2>1, <2>3, <3>2, <4>1 DEF Owns
      <3>3. CASE q # r
        <4>1. at'[q] = at[q] /\ colls'[q] = colls[q]
          BY <1>1, <2>1, <3>3 DEF EnterColl, Set, Control
        <4> QED
          BY <1>7, <1>8, <2>1, <2>3, <3>1, <3>3, <4>1 DEF Owns
      <3> QED
        BY <3>2, <3>3
    <2> QED
      BY <2>4, <2>5, <2>6 DEF ControlInv, Ownership
  <1>10. CASE ~Aborting
    <2>1. ~(recv_abort[r] > 0)
      BY <1>5, <1>10
    <2>2. mr' = Set(mr, r, "open") /\ EnterColl(r, "x_begin") /\ hpcc_table' = hpcc_table
      BY <2>1 DEF Decide
    <2>3. Aborting' <=> Aborting
      BY <1>8, <2>2 DEF Aborting, send_abort
    <2>4. Control' /\ Places' /\ Abreast'
      <3>1. Pos["x_begin"] = PlaceAfter(colls[r] + 1, Aborting') /\ Pos["x_begin"] \in 1 .. 27
        BY <1>2, <1>4, <1>10, <2>3 DEF PlaceAfter
      <3> QED
        BY <1>1, <1>3, <2>2, <2>3, <3>1, Enters
    <2>5. Memories'
      BY <1>1, <1>8, <2>2 DEF Memories, Set
    <2>6. hpcc_table[r] = "live"
      BY <1>6, <1>10 DEF Aborting, send_abort
    <2>7. ASSUME NEW q \in Ranks PROVE Owns(q)'
      <3>1. Owns(q)
        BY <1>1 DEF Ownership
      <3>2. CASE q = r
        <4>1. at'[r] = 5 /\ colls'[r] = 5 /\ mr'[r] = "open"
          BY <1>1, <1>2, <1>4, <2>2 DEF EnterColl, Set, Control, Memories
        <4> QED
          BY <1>5, <1>6, <1>8, <1>10, <2>2, <2>3, <2>6, <3>2, <4>1 DEF Owns
      <3>3. CASE q # r
        <4>1. at'[q] = at[q] /\ colls'[q] = colls[q]
          BY <1>1, <2>2, <3>3 DEF EnterColl, Set, Control
        <4> QED
          BY <1>7, <1>8, <2>2, <2>3, <3>1, <3>3, <4>1 DEF Owns
      <3> QED
        BY <3>2, <3>3
    <2> QED
      BY <2>4, <2>5, <2>7 DEF ControlInv, Ownership
  <1> QED
    BY <1>9, <1>10

(* A rank goes on to the next collective with what it owns.                *)
LEMMA Onward ==
  ASSUME ControlInv, NEW r \in Ranks, NEW name, EnterColl(r, name),
         UNCHANGED memVars, Pos[name] = at[r] + 1,
         at[r] \in {2} \cup 5 .. 23 \cup {25},
         \A q \in Ranks : colls[r] <= colls[q]
  PROVE  ControlInv'
  <1>1. Control /\ Memories /\ Places /\ Abreast /\ Ownership
    BY DEF ControlInv
  <1>2. /\ at[r] \in 1 .. 27 /\ at[r] = PlaceAfter(colls[r], Aborting)
        /\ colls[r] \in 1 .. 27
    BY <1>1 DEF Control, Places, PlaceOf
  <1>3. Aborting' <=> Aborting
    BY DEF Aborting, send_abort, memVars
  <1>4. PlaceAfter(colls[r] + 1, Aborting) = at[r] + 1
    BY <1>2 DEF PlaceAfter
  <1>5. Control' /\ Places' /\ Abreast'
    <2>1. Pos[name] = PlaceAfter(colls[r] + 1, Aborting')
      BY <1>3, <1>4 DEF PlaceAfter
    <2>2. Pos[name] \in 1 .. 27
      BY <1>2
    <2> QED
      BY <1>1, <1>3, <2>1, <2>2, Enters
  <1>6. Memories'
    BY <1>1 DEF Memories, memVars
  <1>7. ASSUME NEW q \in Ranks PROVE Owns(q)'
    <2>1. Owns(q)
      BY <1>1 DEF Ownership
    <2>2. CASE q = r
      <3>1. at'[r] = at[r] + 1 /\ colls'[r] = colls[r] + 1
        BY <1>1 DEF EnterColl, Set, Control
      <3>2. colls'[r] >= 4 => colls[r] >= 4
        BY <1>2, <3>1 DEF PlaceAfter
      <3> QED
        BY <1>2, <1>3, <2>1, <2>2, <3>1, <3>2 DEF Owns, memVars
    <2>3. CASE q # r
      <3>1. at'[q] = at[q] /\ colls'[q] = colls[q]
        BY <1>1, <2>3 DEF EnterColl, Set, Control
      <3> QED
        BY <1>3, <2>1, <3>1 DEF Owns, memVars
    <2> QED
      BY <2>2, <2>3
  <1> QED
    BY <1>5, <1>6, <1>7 DEF ControlInv, Ownership

(* A rank moves on between two collectives.                                *)
LEMMA Working ==
  ASSUME ControlInv, NEW r \in Ranks,
         NEW p \in {"update", "wait", "verify", "done"},
         pc' = Set(pc, r, p), UNCHANGED <<at, colls, memVars>>,
         \A q \in Ranks : colls[r] <= colls[q],
         p \in {"update", "wait"} => colls[r] \in {15, 20},
         p = "verify" => colls[r] = 21, p = "done" => at[r] = 27
  PROVE  ControlInv'
  <1>1. Control /\ Memories /\ Places /\ Abreast /\ Ownership
    BY DEF ControlInv
  <1>2. Aborting' <=> Aborting
    BY DEF Aborting, send_abort, memVars
  <1>3. Control' /\ Places' /\ Abreast'
    BY <1>1, <1>2, Moves
  <1>4. Memories' /\ Ownership'
    BY <1>1, <1>2 DEF Memories, Ownership, Owns, memVars
  <1> QED
    BY <1>3, <1>4 DEF ControlInv

LEMMA Still ==
  ASSUME ControlInv, UNCHANGED <<pc, at, colls, memVars>>
  PROVE  ControlInv'
  BY DEF ControlInv, Control, Memories, Places, PlaceOf, Abreast, Ownership, Owns,
         Aborting, send_abort, memVars

LEMMA ReleaseControl ==
  ASSUME ControlInv, NEW r \in Ranks, Release(r)
  PROVE  ControlInv'
  <1>1. Control /\ Memories /\ Places /\ Abreast /\ Ownership
    BY DEF ControlInv
  <1>2. Leaves(r, "reported") /\ EnterColl(r, "end") /\ Pos["reported"] = 24 /\ Pos["end"] = 25
    BY Positions DEF Release
  <1>3. /\ at[r] = 24 /\ at[r] = PlaceAfter(colls[r], Aborting) /\ colls[r] \in 1 .. 27
        /\ \A q \in Ranks : colls[r] <= colls[q]
    BY <1>1, <1>2, Leaving
  <1>4. colls[r] = 24 /\ ~Aborting
    BY <1>3 DEF PlaceAfter
  <1>5. /\ hpcc_table' = Set(hpcc_table, r, "freed") /\ hpcc_lock' = Set(hpcc_lock, r, "freed")
        /\ mr' = Set(mr, r, "closed") /\ recv_abort' = recv_abort /\ ep' = ep
    BY DEF Release
  <1>6. ~Aborting'
    <2> SUFFICES ASSUME NEW q \in Ranks PROVE ~send_abort(q)'
      BY DEF Aborting
    <2>1. hpcc_table[q] # "none" /\ hpcc_lock[q] # "none"
      BY <1>4 DEF Aborting, send_abort
    <2>2. hpcc_table'[q] # "none" /\ hpcc_lock'[q] # "none"
      BY <1>1, <1>5, <2>1 DEF Memories, Set
    <2> QED
      BY <2>2 DEF send_abort
  <1>7. Control' /\ Places' /\ Abreast'
    <2>1. Pos["end"] = PlaceAfter(colls[r] + 1, Aborting') /\ Pos["end"] \in 1 .. 27
      BY <1>2, <1>4, <1>6 DEF PlaceAfter
    <2> QED
      BY <1>1, <1>2, <1>3, <1>4, <1>6, <2>1, Enters
  <1>8. Memories'
    BY <1>1, <1>5 DEF Memories, Set
  <1>9. ASSUME NEW q \in Ranks PROVE Owns(q)'
    <2>1. Owns(q)
      BY <1>1 DEF Ownership
    <2>2. CASE q = r
      <3>1. at'[r] = 25 /\ colls'[r] = 25 /\ mr'[r] = "closed"
        BY <1>1, <1>2, <1>4, <1>5 DEF EnterColl, Set, Control, Memories
      <3> QED
        BY <1>3, <1>4, <1>5, <1>6, <2>1, <2>2, <3>1 DEF Owns
    <2>3. CASE q # r
      <3>1. at'[q] = at[q] /\ colls'[q] = colls[q]
        BY <1>1, <1>2, <2>3 DEF EnterColl, Set, Control
      <3>2. hpcc_table'[q] = hpcc_table[q] /\ mr'[q] = mr[q]
        BY <1>1, <1>5, <2>3 DEF Set, Memories
      <3> QED
        BY <1>4, <1>5, <1>6, <2>1, <3>1, <3>2 DEF Owns
    <2> QED
      BY <2>2, <2>3
  <1> QED
    BY <1>7, <1>8, <1>9 DEF ControlInv, Ownership

LEMMA FiniControl ==
  ASSUME ControlInv, NEW r \in Ranks, Fini(r)
  PROVE  ControlInv'
  <1>1. Control /\ Memories /\ Places /\ Abreast /\ Ownership
    BY DEF ControlInv
  <1>2. Leaves(r, "fini") /\ EnterColl(r, "finalize") /\ Pos["fini"] = 26 /\ Pos["finalize"] = 27
    BY Positions DEF Fini
  <1>3. /\ at[r] = 26 /\ at[r] = PlaceAfter(colls[r], Aborting) /\ colls[r] \in 1 .. 27
        /\ \A q \in Ranks : colls[r] <= colls[q]
    BY <1>1, <1>2, Leaving
  <1>4. Aborting' <=> Aborting
    BY DEF Aborting, send_abort, Fini
  <1>5. Control' /\ Places' /\ Abreast'
    <2>1. Pos["finalize"] = PlaceAfter(colls[r] + 1, Aborting') /\ Pos["finalize"] \in 1 .. 27
      BY <1>2, <1>3, <1>4 DEF PlaceAfter
    <2> QED
      BY <1>1, <1>2, <1>3, <1>4, <2>1, Enters
  <1>6. Memories'
    BY <1>1 DEF Memories, Fini, Set
  <1>7. ASSUME NEW q \in Ranks PROVE Owns(q)'
    <2>1. Owns(q)
      BY <1>1 DEF Ownership
    <2>2. CASE q = r
      <3>1. at'[r] = 27 /\ colls'[r] = colls[r] + 1
        BY <1>1, <1>2 DEF EnterColl, Set, Control
      <3>2. colls'[r] >= 4 => colls[r] >= 4
        BY <1>3, <3>1 DEF PlaceAfter
      <3> QED
        BY <1>3, <1>4, <2>1, <2>2, <3>1, <3>2 DEF Owns, Fini
    <2>3. CASE q # r
      <3>1. at'[q] = at[q] /\ colls'[q] = colls[q] /\ ep'[q] = ep[q]
        BY <1>1, <1>2, <2>3 DEF EnterColl, Set, Control, Fini, Memories
      <3> QED
        BY <1>4, <2>1, <3>1 DEF Owns, Fini
    <2> QED
      BY <2>2, <2>3
  <1> QED
    BY <1>5, <1>6, <1>7 DEF ControlInv, Ownership

LEMMA ControlStep ==
  ASSUME ControlInv, [Next]_vars
  PROVE  ControlInv'
  <1>1. Control /\ Places /\ Abreast
    BY DEF ControlInv
  <1>2. ASSUME UNCHANGED vars PROVE ControlInv'
    BY <1>2, Still DEF vars
  <1>3. ASSUME NEW r \in Ranks, Complete(r) PROVE ControlInv'
    BY <1>3, Still DEF Complete
  <1>4. ASSUME NEW r \in Ranks, RankStep(r) PROVE ControlInv'
    <2>1. CASE Allocate(r)
      BY <2>1, AllocateControl
    <2>2. CASE ReduceAbort(r)
      BY <2>2, ReduceAbortControl
    <2>3. CASE Decide(r)
      BY <2>3, DecideControl
    <2>4. CASE Pass(r)
      <3>1. /\ Script[at[r]] \in Passed /\ Leaves(r, Script[at[r]])
            /\ EnterColl(r, Script[at[r] + 1]) /\ UNCHANGED memVars
        BY <2>4 DEF Pass
      <3>2. at[r] \in 1 .. 27 /\ \A q \in Ranks : colls[r] <= colls[q]
        BY <1>1, <3>1, Leaving
      <3>3. at[r] \in {2, 17, 18, 22, 25} \cup 5 .. 13
        BY <3>1, <3>2, PassedPlaces
      <3>4. at[r] + 1 \in 1 .. 27
        BY <3>3
      <3>5. Pos[Script[at[r] + 1]] = at[r] + 1
        BY <3>4, Positions
      <3>6. at[r] \in {2} \cup 5 .. 23 \cup {25}
        BY <3>3
      <3> QED
        BY <3>1, <3>2, <3>5, <3>6, Onward
    <2>5. CASE InitTable(r)
      <3>1. Leaves(r, "x_end") /\ EnterColl(r, "update1") /\ UNCHANGED memVars
        BY <2>5 DEF InitTable
      <3>2. at[r] = 14 /\ Pos["update1"] = 15 /\ \A q \in Ranks : colls[r] <= colls[q]
        BY <1>1, <3>1, Leaving, Positions
      <3> QED
        BY <3>1, <3>2, Onward
    <2>6. CASE StartUpdates(r)
      <3>1. pc' = Set(pc, r, "update") /\ UNCHANGED <<at, colls, memVars>>
        BY <2>6 DEF StartUpdates
      <3>2. /\ at[r] \in {15, 20} /\ at[r] = PlaceAfter(colls[r], Aborting) /\ colls[r] \in 1 .. 27
            /\ \A q \in Ranks : colls[r] <= colls[q]
        BY <1>1, <2>6, Leaving, Positions DEF StartUpdates
      <3>3. colls[r] \in {15, 20}
        BY <3>2 DEF PlaceAfter
      <3> QED
        BY <3>1, <3>2, <3>3, Working
    <2>7. CASE PostXor(r)
      <3>1. pc[r] = "update" /\ pc' = Set(pc, r, "wait") /\ UNCHANGED <<at, colls, memVars>>
        BY <2>7 DEF PostXor
      <3>2. colls[r] \in {15, 20} /\ \A q \in Ranks : colls[r] <= colls[q]
        BY <1>1, <3>1 DEF Places, PlaceOf, Abreast
      <3> QED
        BY <3>1, <3>2, Working
    <2>8. CASE wait_for_comp(r)
      <3>1. pc[r] = "wait" /\ pc' = Set(pc, r, "update") /\ UNCHANGED <<at, colls, memVars>>
        BY <2>8 DEF wait_for_comp
      <3>2. colls[r] \in {15, 20} /\ \A q \in Ranks : colls[r] <= colls[q]
        BY <1>1, <3>1 DEF Places, PlaceOf, Abreast
      <3> QED
        BY <3>1, <3>2, Working
    <2>9. CASE EndUpdates(r)
      <3>1. pc[r] = "update" /\ EnterColl(r, Script[at[r] + 1]) /\ UNCHANGED memVars
        BY <2>9 DEF EndUpdates
      <3>2. /\ colls[r] \in {15, 20} /\ at[r] = PlaceAfter(colls[r], Aborting) /\ at[r] \in 1 .. 27
            /\ \A q \in Ranks : colls[r] <= colls[q]
        BY <1>1, <3>1 DEF Places, PlaceOf, Abreast, Control
      <3>3. at[r] \in {15, 20}
        BY <3>2 DEF PlaceAfter
      <3>4. at[r] + 1 \in 1 .. 27 /\ at[r] \in {2} \cup 5 .. 23 \cup {25}
        BY <3>3
      <3>5. Pos[Script[at[r] + 1]] = at[r] + 1
        BY <3>4, Positions
      <3> QED
        BY <3>1, <3>2, <3>4, <3>5, Onward
    <2>10. CASE Updated(r)
      <3>1. Leaves(r, "updated1") /\ EnterColl(r, "gups") /\ UNCHANGED memVars
        BY <2>10 DEF Updated
      <3>2. at[r] = 16 /\ Pos["gups"] = 17 /\ \A q \in Ranks : colls[r] <= colls[q]
        BY <1>1, <3>1, Leaving, Positions
      <3> QED
        BY <3>1, <3>2, Onward
    <2>11. CASE UpdateAgain(r)
      <3>1. Leaves(r, "scored") /\ EnterColl(r, "update2") /\ UNCHANGED memVars
        BY <2>11 DEF UpdateAgain
      <3>2. at[r] = 19 /\ Pos["update2"] = 20 /\ \A q \in Ranks : colls[r] <= colls[q]
        BY <1>1, <3>1, Leaving, Positions
      <3> QED
        BY <3>1, <3>2, Onward
    <2>12. CASE StartVerify(r)
      <3>1. pc' = Set(pc, r, "verify") /\ UNCHANGED <<at, colls, memVars>>
        BY <2>12 DEF StartVerify
      <3>2. /\ at[r] = 21 /\ at[r] = PlaceAfter(colls[r], Aborting) /\ colls[r] \in 1 .. 27
            /\ \A q \in Ranks : colls[r] <= colls[q]
        BY <1>1, <2>12, Leaving, Positions DEF StartVerify
      <3>3. colls[r] = 21
        BY <3>2 DEF PlaceAfter
      <3> QED
        BY <3>1, <3>2, <3>3, Working
    <2>13. CASE VerifyWord(r)
      BY <2>13, Still DEF VerifyWord
    <2>14. CASE EndVerify(r)
      <3>1. pc[r] = "verify" /\ EnterColl(r, "verified") /\ UNCHANGED memVars
        BY <2>14 DEF EndVerify
      <3>2. /\ colls[r] = 21 /\ at[r] = PlaceAfter(colls[r], Aborting) /\ at[r] \in 1 .. 27
            /\ Pos["verified"] = 22 /\ \A q \in Ranks : colls[r] <= colls[q]
        BY <1>1, <3>1, Positions DEF Places, PlaceOf, Abreast, Control
      <3>3. at[r] = 21
        BY <3>2 DEF PlaceAfter
      <3> QED
        BY <3>1, <3>2, <3>3, Onward
    <2>15. CASE ReduceErrors(r)
      <3>1. Leaves(r, "errors") /\ EnterColl(r, "reported") /\ UNCHANGED memVars
        BY <2>15 DEF ReduceErrors
      <3>2. at[r] = 23 /\ Pos["reported"] = 24 /\ \A q \in Ranks : colls[r] <= colls[q]
        BY <1>1, <3>1, Leaving, Positions
      <3> QED
        BY <3>1, <3>2, Onward
    <2>16. CASE Release(r)
      BY <2>16, ReleaseControl
    <2>17. CASE Fini(r)
      BY <2>17, FiniControl
    <2>18. CASE Exit(r)
      <3>1. pc' = Set(pc, r, "done") /\ UNCHANGED <<at, colls, memVars>>
        BY <2>18 DEF Exit
      <3>2. at[r] = 27 /\ \A q \in Ranks : colls[r] <= colls[q]
        BY <1>1, <2>18, Leaving, Positions DEF Exit
      <3> QED
        BY <3>1, <3>2, Working
    <2> QED
      BY <1>4, <2>1, <2>2, <2>3, <2>4, <2>5, <2>6, <2>7, <2>8, <2>9, <2>10, <2>11, <2>12,
         <2>13, <2>14, <2>15, <2>16, <2>17, <2>18 DEF RankStep
  <1> QED
    BY <1>2, <1>3, <1>4 DEF Next

-----------------------------------------------------------------------------
(* The data                                                                *)
Targets == {t \in [pe : Ranks, index : Nat] : t.index \in Local(t.pe)}

LEMMA TargetType == \A x : Target(x) \in Targets
  <1> TAKE x
  <1> DEFINE g == LowBits(x, LogTableSize)
  <1>1. g \in 0 .. N - 1
    BY LowBitsType, Sizes DEF N
  <1>2. UpdateHitsWord(N, num_ranks, g)
    BY <1>1, UpdatesCorrect, Sizes
  <1>3. Target(x) = [pe |-> remote_pe(N, num_ranks, g), index |-> index(N, num_ranks, g)]
    BY DEF Target
  <1> HIDE DEF g
  <1>4. /\ remote_pe(N, num_ranks, g) \in Ranks
        /\ index(N, num_ranks, g) \in Local(remote_pe(N, num_ranks, g))
    BY <1>2 DEF UpdateHitsWord, Ranks, Local
  <1>5. index(N, num_ranks, g) \in Nat
    <2>1. \A r \in Ranks : Local(r) \subseteq Nat
      <3> SUFFICES ASSUME NEW r \in Ranks PROVE Local(r) \subseteq Nat
        OBVIOUS
      <3>1. local_table_size(N, num_ranks, r) \in Nat /\ Local(r) = 0 .. local_table_size(N, num_ranks, r) - 1
        BY Sizes
      <3> QED
        BY <3>1
    <2> QED
      BY <1>4, <2>1
  <1> QED
    BY <1>3, <1>4, <1>5 DEF Targets

(* The jumps of the ranks stay below 2^63.                                 *)
LEMMA SeedBounds ==
  \A n \in 0 .. N : 4 * n \in Nat /\ 4 * n < 2^63
  <1> DEFINE p(n) == 2^n
  <1>1. \A n \in Nat : p(n) \in Nat \ {0} /\ p(n + 1) = 2 * p(n)
    BY Powers
  <1>2. N \in Nat /\ N <= p(58)
    BY Sizes
  <1> SUFFICES \A n \in 0 .. N : 4 * n \in Nat /\ 4 * n < p(63)
    OBVIOUS
  <1> HIDE DEF p
  <1>3. /\ p(58) \in Nat \ {0} /\ p(59) = 2 * p(58) /\ p(60) = 2 * p(59) /\ p(61) = 2 * p(60)
        /\ p(62) = 2 * p(61) /\ p(63) = 2 * p(62)
    <2>1. /\ p(58 + 1) = 2 * p(58) /\ p(59 + 1) = 2 * p(59) /\ p(60 + 1) = 2 * p(60)
          /\ p(61 + 1) = 2 * p(61) /\ p(62 + 1) = 2 * p(62) /\ p(58) \in Nat \ {0}
      BY <1>1
    <2>2. 58 + 1 = 59 /\ 59 + 1 = 60 /\ 60 + 1 = 61 /\ 61 + 1 = 62 /\ 62 + 1 = 63
      OBVIOUS
    <2> QED
      BY <2>1, <2>2
  <1>4. p(63) = 32 * p(58)
    BY <1>3
  <1> QED
    BY <1>2, <1>3, <1>4

LEMMA FirstRan ==
  ASSUME NEW r \in Ranks
  PROVE  /\ saved_initial_ran_val[r] = generate_initial_xor_val(4 * Start(r))
         /\ saved_initial_ran_val[r] \in Word
  <1>1. Start(r) \in 0 .. N
    BY Sizes, SMTT(30)
  <1> QED
    BY <1>1, SeedBounds, JumpType DEF saved_initial_ran_val

DataTypes ==
  /\ table = [r \in Ranks |-> table[r]]
  /\ \A r \in Ranks : table[r] \in [Local(r) -> Word]
  /\ i \in [Ranks -> Nat] /\ \A r \in Ranks : i[r] <= iterations(r)
  /\ ran \in [Ranks -> Word] /\ scratch \in [Ranks -> Word]
  /\ out \in [Ranks -> SUBSET Targets]
  /\ scq \in [Ranks -> [Ranks -> 0 .. 1]]
  /\ lost \in 0 .. MaxLost
Verified ==
  /\ v \in [Ranks -> Nat] /\ num_errors \in [Ranks -> Nat]
  /\ \A r \in Ranks : num_errors[r] <= v[r] /\ v[r] <= Cardinality(Local(r))
  /\ global_num_errors \in [Ranks -> 0 .. N]

(* A rank has at most one update under way, the one it waits for.          *)
Under(r) ==
  /\ scratch[r] = ran[r]
  /\ \/ out[r] = {Target(ran[r])} /\ \A q \in Ranks : scq[r][q] = 0
     \/ /\ out[r] = {}
        /\ \A q \in Ranks : scq[r][q] = IF q = Target(ran[r]).pe THEN 1 ELSE 0
Idle(r) == out[r] = {} /\ \A q \in Ranks : scq[r][q] = 0
Flows == \A r \in Ranks : IF pc[r] = "wait" THEN Under(r) ELSE Idle(r)

DataInv == DataTypes /\ Verified /\ Flows

LEMMA DataInit ==
  ASSUME Init
  PROVE  DataInv
  <1>1. DataTypes
    BY Sizes, WordOps, BoundAssumption DEF Init, DataTypes
  <1>2. Verified
    BY Sizes DEF Init, Verified
  <1>3. Flows
    BY DEF Init, Flows, Idle
  <1> QED
    BY <1>1, <1>2, <1>3 DEF DataInv

(* Steps that touch neither the updates nor the verification               *)
LEMMA DataStill ==
  ASSUME DataInv, UNCHANGED <<updVars, verVars>>,
         \A q \in Ranks : pc'[q] = "wait" <=> pc[q] = "wait"
  PROVE  DataInv'
  <1>1. DataTypes' /\ Verified'
    BY DEF DataInv, DataTypes, Verified, updVars, verVars
  <1>2. ASSUME NEW r \in Ranks PROVE (IF pc[r] = "wait" THEN Under(r) ELSE Idle(r))'
    <2>1. IF pc[r] = "wait" THEN Under(r) ELSE Idle(r)
      BY DEF DataInv, Flows
    <2>2. (Under(r)' <=> Under(r)) /\ (Idle(r)' <=> Idle(r))
      BY DEF Under, Idle, updVars
    <2> QED
      BY <2>1, <2>2
  <1> QED
    BY <1>1, <1>2 DEF DataInv, Flows

(* A rank that enters a collective does not wait for an update.            *)
LEMMA EntersIdle ==
  ASSUME Control, NEW r \in Ranks, NEW name, EnterColl(r, name), pc[r] # "wait"
  PROVE  \A q \in Ranks : pc'[q] = "wait" <=> pc[q] = "wait"
  BY DEF Control, EnterColl, Set

LEMMA InitTableData ==
  ASSUME Control, DataInv, NEW r \in Ranks, InitTable(r)
  PROVE  DataInv'
  <1>1. /\ table' = [table EXCEPT ![r] = [k \in Local(r) |-> InitialWord(r, k)]]
        /\ EnterColl(r, "update1") /\ UNCHANGED <<i, ran, scratch, out, scq, lost, verVars>>
        /\ pc[r] = "coll"
    BY DEF InitTable, Set, Leaves
  <1>2. [k \in Local(r) |-> InitialWord(r, k)] \in [Local(r) -> Word]
    BY WordOps DEF InitialWord
  <1>3. /\ table' = [q \in Ranks |-> table'[q]]
        /\ \A q \in Ranks : table'[q] \in [Local(q) -> Word]
    BY <1>1, <1>2 DEF DataInv, DataTypes
  <1>4. DataTypes' /\ Verified'
    BY <1>1, <1>3 DEF DataInv, DataTypes, Verified, verVars
  <1>5. Flows'
    BY <1>1, EntersIdle DEF DataInv, Flows, Under, Idle
  <1> QED
    BY <1>4, <1>5 DEF DataInv

LEMMA StartUpdatesData ==
  ASSUME Control, DataInv, NEW r \in Ranks, StartUpdates(r)
  PROVE  DataInv'
  <1>1. /\ ran' = [ran EXCEPT ![r] = saved_initial_ran_val[r]] /\ i' = [i EXCEPT ![r] = 0]
        /\ pc' = [pc EXCEPT ![r] = "update"] /\ pc[r] = "coll"
        /\ UNCHANGED <<table, scratch, out, scq, lost, verVars>>
    BY DEF StartUpdates, Set, Leaves
  <1>2. DataTypes' /\ Verified'
    <2>1. DataTypes /\ Verified
      BY DEF DataInv
    <2>2. ran' \in [Ranks -> Word]
      BY <1>1, <2>1, FirstRan DEF DataTypes
    <2>3. i' \in [Ranks -> Nat] /\ \A q \in Ranks : i'[q] <= iterations(q)
      <3>1. iterations(r) \in Nat
        BY Sizes
      <3> QED
        BY <1>1, <2>1, <3>1 DEF DataTypes
    <2> QED
      BY <1>1, <2>1, <2>2, <2>3 DEF DataTypes, Verified, verVars
  <1>3. ASSUME NEW q \in Ranks PROVE (IF pc[q] = "wait" THEN Under(q) ELSE Idle(q))'
    <2>1. IF pc[q] = "wait" THEN Under(q) ELSE Idle(q)
      BY DEF DataInv, Flows
    <2>2. CASE q = r
      BY <1>1, <2>1, <2>2 DEF Control, Idle
    <2>3. CASE q # r
      <3>1. pc'[q] = pc[q] /\ ran'[q] = ran[q]
        BY <1>1, <2>3 DEF Control, DataInv, DataTypes
      <3> QED
        BY <1>1, <2>1, <3>1 DEF Under, Idle
    <2> QED
      BY <2>2, <2>3
  <1> QED
    BY <1>2, <1>3 DEF DataInv, Flows

LEMMA PostXorData ==
  ASSUME Control, DataInv, NEW r \in Ranks, PostXor(r)
  PROVE  DataInv'
  <1> DEFINE x == Step(ran[r])
  <1>1. DataTypes /\ Verified /\ Flows
    BY DEF DataInv
  <1>2. x \in Word
    BY <1>1, WordOps DEF DataTypes
  <1>3. /\ ran' = [ran EXCEPT ![r] = x] /\ i' = [i EXCEPT ![r] = @ + 1]
        /\ pc' = [pc EXCEPT ![r] = "wait"] /\ pc[r] = "update" /\ i[r] < iterations(r)
        /\ UNCHANGED <<table, scq, lost, verVars>>
    BY DEF PostXor, Set
  <1>4. ran'[r] = x
    BY <1>1, <1>3 DEF DataTypes
  <1>5. scratch' = [scratch EXCEPT ![r] = x] /\ out' = [out EXCEPT ![r] = @ \cup {Target(x)}]
    BY <1>4 DEF PostXor, Set
  <1> HIDE DEF x
  <1>6. Idle(r)
    BY <1>1, <1>3 DEF Flows
  <1>7. out'[r] = {Target(x)}
    BY <1>1, <1>5, <1>6 DEF Idle, DataTypes
  <1>8. out' \in [Ranks -> SUBSET Targets]
    BY <1>1, <1>5, TargetType DEF DataTypes
  <1>9. i' \in [Ranks -> Nat] /\ \A q \in Ranks : i'[q] <= iterations(q)
    <2>1. i[r] \in Nat /\ i[r] + 1 <= iterations(r)
      BY <1>1, <1>3, Sizes DEF DataTypes
    <2> QED
      BY <1>1, <1>3, <2>1 DEF DataTypes
  <1>10. ran' \in [Ranks -> Word] /\ scratch' \in [Ranks -> Word]
    BY <1>1, <1>2, <1>3, <1>5 DEF DataTypes
  <1>11. DataTypes' /\ Verified'
    BY <1>1, <1>3, <1>8, <1>9, <1>10 DEF DataTypes, Verified, verVars
  <1>12. ASSUME NEW q \in Ranks PROVE (IF pc[q] = "wait" THEN Under(q) ELSE Idle(q))'
    <2>1. CASE q = r
      <3>1. scratch'[r] = x /\ pc'[r] = "wait"
        BY <1>1, <1>3, <1>5 DEF DataTypes, Control
      <3>2. \A p \in Ranks : scq'[r][p] = 0
        BY <1>3, <1>6 DEF Idle
      <3> QED
        BY <1>4, <1>7, <2>1, <3>1, <3>2 DEF Under
    <2>2. CASE q # r
      <3>1. /\ pc'[q] = pc[q] /\ ran'[q] = ran[q] /\ scratch'[q] = scratch[q] /\ out'[q] = out[q]
            /\ scq' = scq
        BY <1>1, <1>3, <1>5, <2>2 DEF Control, DataTypes
      <3>2. IF pc[q] = "wait" THEN Under(q) ELSE Idle(q)
        BY <1>1 DEF Flows
      <3> QED
        BY <3>1, <3>2 DEF Under, Idle
    <2> QED
      BY <2>1, <2>2
  <1> QED
    BY <1>11, <1>12 DEF DataInv, Flows

LEMMA WaitData ==
  ASSUME Control, DataInv, NEW r \in Ranks, wait_for_comp(r)
  PROVE  DataInv'
  <1> DEFINE p == Target(ran[r]).pe
  <1>1. DataTypes /\ Verified /\ Flows
    BY DEF DataInv
  <1>2. p \in Ranks
    BY TargetType DEF Targets
  <1>3. /\ scq' = [scq EXCEPT ![r][p] = @ - 1] /\ scq[r][p] > 0
        /\ pc' = [pc EXCEPT ![r] = "update"] /\ pc[r] = "wait"
        /\ UNCHANGED <<table, i, ran, scratch, out, lost, verVars>>
    BY DEF wait_for_comp, Set
  <1>4. Under(r)
    BY <1>1, <1>3 DEF Flows
  <1>5. out[r] = {} /\ \A q \in Ranks : scq[r][q] = IF q = p THEN 1 ELSE 0
    BY <1>2, <1>3, <1>4 DEF Under
  <1> HIDE DEF p
  <1>6. scq' \in [Ranks -> [Ranks -> 0 .. 1]]
    <2>1. scq[r] \in [Ranks -> 0 .. 1] /\ scq[r][p] - 1 \in 0 .. 1
      BY <1>1, <1>2, <1>5 DEF DataTypes
    <2> QED
      BY <1>1, <1>3, <2>1 DEF DataTypes
  <1>7. DataTypes' /\ Verified'
    BY <1>1, <1>3, <1>6 DEF DataTypes, Verified, verVars
  <1>8. ASSUME NEW q \in Ranks PROVE (IF pc[q] = "wait" THEN Under(q) ELSE Idle(q))'
    <2>1. CASE q = r
      <3>1. \A t \in Ranks : scq'[r][t] = 0
        BY <1>1, <1>2, <1>3, <1>5 DEF DataTypes
      <3> QED
        BY <1>3, <1>5, <2>1, <3>1 DEF Idle, Control
    <2>2. CASE q # r
      <3>1. pc'[q] = pc[q] /\ scq'[q] = scq[q]
        BY <1>1, <1>3, <2>2 DEF Control, DataTypes
      <3>2. IF pc[q] = "wait" THEN Under(q) ELSE Idle(q)
        BY <1>1 DEF Flows
      <3> QED
        BY <1>3, <3>1, <3>2 DEF Under, Idle
    <2> QED
      BY <2>1, <2>2
  <1> QED
    BY <1>7, <1>8 DEF DataInv, Flows

LEMMA VerifyWordData ==
  ASSUME DataInv, NEW r \in Ranks, VerifyWord(r)
  PROVE  DataInv'
  <1> DEFINE d == IF table[r][v[r]] # InitialWord(r, v[r]) THEN 1 ELSE 0
  <1>1. DataTypes /\ Verified /\ Flows
    BY DEF DataInv
  <1>2. /\ num_errors' = [num_errors EXCEPT ![r] = @ + d] /\ v' = [v EXCEPT ![r] = @ + 1]
        /\ v[r] \in Local(r) /\ UNCHANGED <<pc, updVars, global_num_errors>>
    BY DEF VerifyWord
  <1>3. d \in 0 .. 1
    OBVIOUS
  <1> HIDE DEF d
  <1>4. v[r] + 1 <= Cardinality(Local(r)) /\ num_errors[r] + d <= v[r] + 1
        /\ num_errors[r] + d \in Nat /\ v[r] + 1 \in Nat
    <2>1. /\ local_table_size(N, num_ranks, r) \in Nat
          /\ Local(r) = 0 .. local_table_size(N, num_ranks, r) - 1
          /\ Cardinality(Local(r)) = local_table_size(N, num_ranks, r)
      BY Sizes
    <2>2. v[r] \in Nat /\ num_errors[r] \in Nat /\ num_errors[r] <= v[r]
      BY <1>1 DEF Verified
    <2> QED
      BY <1>2, <1>3, <2>1, <2>2
  <1>5. Verified'
    BY <1>1, <1>2, <1>4 DEF Verified
  <1>6. DataTypes'
    BY <1>1, <1>2 DEF DataTypes, updVars
  <1>7. Flows'
    BY <1>1, <1>2 DEF Flows, Under, Idle, updVars
  <1> QED
    BY <1>5, <1>6, <1>7 DEF DataInv

LEMMA ReduceErrorsData ==
  ASSUME Control, DataInv, NEW r \in Ranks, ReduceErrors(r)
  PROVE  DataInv'
  <1>1. DataTypes /\ Verified /\ Flows
    BY DEF DataInv
  <1>2. /\ global_num_errors' = [global_num_errors EXCEPT ![r] = Total(num_errors)]
        /\ EnterColl(r, "reported") /\ pc[r] = "coll" /\ UNCHANGED <<updVars, v, num_errors>>
    BY DEF ReduceErrors, Set, Leaves
  <1>3. Total(num_errors) \in 0 .. N
    <2>1. \A q \in Ranks : num_errors[q] <= Cardinality(Local(q))
      <3> SUFFICES ASSUME NEW q \in Ranks PROVE num_errors[q] <= Cardinality(Local(q))
        OBVIOUS
      <3>1. /\ num_errors[q] \in Nat /\ v[q] \in Nat /\ Cardinality(Local(q)) \in Nat
            /\ num_errors[q] <= v[q] /\ v[q] <= Cardinality(Local(q))
        BY <1>1, Sizes DEF Verified
      <3> QED
        BY <3>1
    <2> QED
      BY <1>1, <2>1, TotalBounded DEF Verified
  <1>4. Verified'
    BY <1>1, <1>2, <1>3 DEF Verified
  <1>5. DataTypes'
    BY <1>1, <1>2 DEF DataTypes, updVars
  <1>6. Flows'
    <2>1. \A q \in Ranks : pc'[q] = "wait" <=> pc[q] = "wait"
      BY <1>2, EntersIdle
    <2> QED
      BY <1>1, <1>2, <2>1 DEF Flows, Under, Idle, updVars
  <1> QED
    BY <1>4, <1>5, <1>6 DEF DataInv

LEMMA CompleteData ==
  ASSUME Control, DataInv, NEW r \in Ranks, Complete(r)
  PROVE  DataInv'
  <1>1. DataTypes /\ Verified /\ Flows
    BY DEF DataInv
  <1>2. PICK op \in out[r] :
          /\ \/ table' = [table EXCEPT ![op.pe][op.index] = Xor(@, scratch[r])] /\ lost' = lost
             \/ lost < MaxLost /\ lost' = lost + 1 /\ table' = table
          /\ out' = [out EXCEPT ![r] = @ \ {op}]
          /\ scq' = [scq EXCEPT ![r][op.pe] = @ + 1]
          /\ UNCHANGED <<pc, i, ran, scratch, verVars>>
    BY DEF Complete
  <1>3. op \in Targets
    BY <1>1 DEF DataTypes
  <1>4. op.pe \in Ranks /\ op.index \in Local(op.pe)
    BY <1>3 DEF Targets
  <1>5. pc[r] = "wait" /\ Under(r)
    BY <1>1, <1>2 DEF Flows, Idle
  <1>6. out[r] = {op} /\ op = Target(ran[r]) /\ \A q \in Ranks : scq[r][q] = 0
    BY <1>2, <1>5 DEF Under
  <1>7. /\ table' = [q \in Ranks |-> table'[q]]
        /\ \A q \in Ranks : table'[q] \in [Local(q) -> Word]
    <2>1. table[op.pe] \in [Local(op.pe) -> Word] /\ Xor(table[op.pe][op.index], scratch[r]) \in Word
      BY <1>1, <1>4, WordOps DEF DataTypes
    <2>2. CASE table' = table
      BY <1>1, <2>2 DEF DataTypes
    <2>3. CASE table' = [table EXCEPT ![op.pe][op.index] = Xor(@, scratch[r])]
      <3>1. table' = [table EXCEPT ![op.pe] = [@ EXCEPT ![op.index] = Xor(table[op.pe][op.index], scratch[r])]]
        BY <1>1, <1>4, <2>3 DEF DataTypes
      <3>2. [table[op.pe] EXCEPT ![op.index] = Xor(table[op.pe][op.index], scratch[r])] \in [Local(op.pe) -> Word]
        BY <2>1
      <3> QED
        BY <1>1, <3>1, <3>2 DEF DataTypes
    <2> QED
      BY <1>2, <2>2, <2>3
  <1>8. lost' \in 0 .. MaxLost
    BY <1>1, <1>2, BoundAssumption DEF DataTypes
  <1>9. scq' \in [Ranks -> [Ranks -> 0 .. 1]]
    <2>1. scq[r] \in [Ranks -> 0 .. 1] /\ scq[r][op.pe] + 1 \in 0 .. 1
      BY <1>1, <1>4, <1>6 DEF DataTypes
    <2> QED
      BY <1>1, <1>2, <2>1 DEF DataTypes
  <1>10. out' \in [Ranks -> SUBSET Targets]
    BY <1>1, <1>2 DEF DataTypes
  <1>11. DataTypes' /\ Verified'
    BY <1>1, <1>2, <1>7, <1>8, <1>9, <1>10 DEF DataTypes, Verified, verVars
  <1>12. ASSUME NEW q \in Ranks PROVE (IF pc[q] = "wait" THEN Under(q) ELSE Idle(q))'
    <2>1. CASE q = r
      <3>1. out'[r] = {}
        BY <1>1, <1>2, <1>6 DEF DataTypes
      <3>2. \A t \in Ranks : scq'[r][t] = IF t = op.pe THEN 1 ELSE 0
        BY <1>1, <1>2, <1>4, <1>6 DEF DataTypes
      <3> QED
        BY <1>2, <1>5, <1>6, <2>1, <3>1, <3>2 DEF Under
    <2>2. CASE q # r
      <3>1. out'[q] = out[q] /\ scq'[q] = scq[q]
        BY <1>1, <1>2, <2>2 DEF DataTypes
      <3>2. IF pc[q] = "wait" THEN Under(q) ELSE Idle(q)
        BY <1>1 DEF Flows
      <3> QED
        BY <1>2, <3>1, <3>2 DEF Under, Idle
    <2> QED
      BY <2>1, <2>2
  <1> QED
    BY <1>11, <1>12 DEF DataInv, Flows

LEMMA DataStep ==
  ASSUME ControlInv, DataInv, [Next]_vars
  PROVE  DataInv'
  <1>1. Control
    BY DEF ControlInv
  <1>2. ASSUME UNCHANGED vars PROVE DataInv'
    BY <1>2, DataStill DEF vars
  <1>3. ASSUME NEW r \in Ranks, Complete(r) PROVE DataInv'
    BY <1>1, <1>3, CompleteData
  <1>4. ASSUME NEW r \in Ranks, RankStep(r) PROVE DataInv'
    <2>1. CASE \/ Allocate(r) \/ ReduceAbort(r) \/ Pass(r) \/ EndUpdates(r) \/ Updated(r)
               \/ UpdateAgain(r) \/ EndVerify(r) \/ Release(r) \/ Fini(r)
      <3>1. /\ \E name : EnterColl(r, name)
            /\ pc[r] # "wait" /\ UNCHANGED <<updVars, verVars>>
        BY <2>1 DEF Allocate, ReduceAbort, Pass, EndUpdates, Updated, UpdateAgain, EndVerify,
                    Release, Fini, Leaves
      <3> QED
        BY <1>1, <3>1, EntersIdle, DataStill
    <2>2. CASE Decide(r)
      <3>1. /\ \E name : EnterColl(r, name)
            /\ pc[r] # "wait" /\ UNCHANGED <<updVars, verVars>>
        BY <2>2 DEF Decide, Leaves
      <3> QED
        BY <1>1, <3>1, EntersIdle, DataStill
    <2>3. CASE StartVerify(r) \/ Exit(r)
      <3>1. /\ pc[r] = "coll" /\ UNCHANGED <<updVars, verVars>>
            /\ pc' = Set(pc, r, "verify") \/ pc' = Set(pc, r, "done")
        BY <2>3 DEF StartVerify, Exit, Leaves
      <3>2. \A q \in Ranks : pc'[q] = "wait" <=> pc[q] = "wait"
        BY <1>1, <3>1 DEF Control, Set
      <3> QED
        BY <3>1, <3>2, DataStill
    <2> QED
      BY <1>1, <1>4, <2>1, <2>2, <2>3, InitTableData, StartUpdatesData, PostXorData, WaitData,
         VerifyWordData, ReduceErrorsData DEF RankStep
  <1> QED
    BY <1>2, <1>3, <1>4 DEF Next

-----------------------------------------------------------------------------
(* The jump.  Words are the polynomials over GF(2) below x^Width; Step     *)
(* multiplies by x, and the stream is x^0, x^1, ...  generate_initial_     *)
(* xor_val is right because squaring is additive.                          *)
Bits == 0 .. Width - 1

(* The words from x on                                                     *)
StepFcn == [p \in Nat \X Word |-> Step(p[2])]
Walk(x) == CHOOSE f : Recursive(f, Word, x, StepFcn)

(* Powers of x                                                             *)
X == Walk({0})

(* The sum of f over the bits of a word                                    *)
Lin(f, w) == {b \in Bits : Cardinality({j \in w : b \in f[j]}) % 2 = 1}

LEMMA WalkUnfolds ==
  ASSUME NEW x \in Word
  PROVE  /\ Walk(x) \in [Nat -> Word] /\ Walk(x)[0] = x
         /\ \A n \in Nat : Walk(x)[n + 1] = Step(Walk(x)[n])
  <1>1. StepFcn \in [Nat \X Word -> Word]
    BY WordOps DEF StepFcn
  <1>2. Recursive(Walk(x), Word, x, StepFcn)
    BY <1>1, Recursion DEF Walk
  <1> QED
    BY <1>2 DEF Recursive, StepFcn

LEMMA XUnfolds ==
  /\ X \in [Nat -> Word] /\ X[0] = {0}
  /\ \A n \in Nat : X[n + 1] = Step(X[n])
  BY WalkUnfolds, WordOps DEF X

LEMMA XorAlgebra ==
  /\ \A a, b : Xor(a, b) = Xor(b, a)
  /\ \A a, b, c : Xor(Xor(a, b), c) = Xor(a, Xor(b, c))
  /\ \A a : Xor(a, a) = {} /\ Xor(a, {}) = a /\ Xor({}, a) = a
  /\ \A a, b : Xor(Xor(a, b), b) = a
  BY DEF Xor

LEMMA StepXor ==
  ASSUME NEW a \in Word, NEW b \in Word
  PROVE  Step(Xor(a, b)) = Xor(Step(a), Step(b))
  <1> DEFINE up(x) == {n + 1 : n \in x \ {Width - 1}}
             poly(x) == IF Width - 1 \in x THEN Poly ELSE {}
  <1>1. up(Xor(a, b)) = Xor(up(a), up(b))
    <2>1. a \subseteq Int /\ b \subseteq Int
      BY WidthAssumption DEF Word
    <2>2. ASSUME NEW n \in Int
          PROVE  /\ n \in up(a) <=> n - 1 \in a /\ n - 1 # Width - 1
                 /\ n \in up(b) <=> n - 1 \in b /\ n - 1 # Width - 1
                 /\ n \in up(Xor(a, b)) <=> n - 1 \in Xor(a, b) /\ n - 1 # Width - 1
      <3>1. ASSUME NEW x \in SUBSET Int
            PROVE  n \in up(x) <=> n - 1 \in x /\ n - 1 # Width - 1
        <4>1. n - 1 \in Int /\ (n - 1) + 1 = n
          OBVIOUS
        <4>2. \A m \in Int : m + 1 = n => m = n - 1
          OBVIOUS
        <4> QED
          BY <4>1, <4>2
      <3>2. Xor(a, b) \in SUBSET Int
        BY <2>1 DEF Xor
      <3> HIDE DEF up
      <3> QED
        BY <2>1, <3>1, <3>2
    <2>3. up(a) \subseteq Int /\ up(b) \subseteq Int /\ up(Xor(a, b)) \subseteq Int
      BY <2>1 DEF Xor
    <2> HIDE DEF up
    <2>4. ASSUME NEW n \in Int PROVE n \in up(Xor(a, b)) <=> n \in Xor(up(a), up(b))
      BY <2>2 DEF Xor
    <2> QED
      BY <2>3, <2>4 DEF Xor
  <1>2. poly(Xor(a, b)) = Xor(poly(a), poly(b))
    BY DEF Xor
  <1>3. \A x : Step(x) = Xor(up(x), poly(x))
    BY DEF Step
  <1> HIDE DEF up, poly
  <1>4. Step(Xor(a, b)) = Xor(Xor(up(a), up(b)), Xor(poly(a), poly(b)))
    BY <1>1, <1>2, <1>3
  <1> QED
    BY <1>3, <1>4 DEF Xor

(* A property of words that holds of the empty one and survives the        *)
(* addition of a bit holds of all.                                         *)
LEMMA WordInduction ==
  ASSUME NEW Good, {} \in Good,
         \A w \in Word : \A a \in Bits \ w : w \in Good => w \cup {a} \in Good
  PROVE  Word \subseteq Good
  <1> DEFINE Below == {n \in Nat : \A w \in Word : w \subseteq 0 .. n - 1 => w \in Good}
  <1>1. 0 \in Below
    <2>1. \A w : w \subseteq 0 .. 0 - 1 => w = {}
      OBVIOUS
    <2> QED
      BY <2>1
  <1>2. ASSUME NEW n \in Nat, n \in Below PROVE n + 1 \in Below
    <2> SUFFICES ASSUME NEW w \in Word, w \subseteq 0 .. (n + 1) - 1 PROVE w \in Good
      OBVIOUS
    <2>1. w \ {n} \in Word /\ w \ {n} \subseteq 0 .. n - 1
      BY DEF Word
    <2>2. w \ {n} \in Good
      BY <1>2, <2>1
    <2>3. CASE n \in w
      <3>1. n \in Bits \ (w \ {n}) /\ w = (w \ {n}) \cup {n}
        BY <2>3 DEF Word, Bits
      <3> QED
        BY <2>1, <2>2, <3>1
    <2>4. CASE n \notin w
      <3>1. w = w \ {n}
        BY <2>4
      <3> QED
        BY <2>2, <3>1
    <2> QED
      BY <2>3, <2>4
  <1> HIDE DEF Below
  <1>3. Width \in Below
    BY <1>1, <1>2, Induction, WidthAssumption
  <1>4. \A w \in Word : w \subseteq 0 .. Width - 1
    BY DEF Word
  <1> QED
    BY <1>3, <1>4 DEF Below

LEMMA FiniteWords ==
  \A w \in SUBSET Bits : IsFiniteSet(w)
  <1>1. Width - 1 \in Int
    BY WidthAssumption
  <1>2. IsFiniteSet(0 .. Width - 1)
    BY <1>1, FS_Interval
  <1> QED
    BY <1>2, FS_Subset DEF Bits

(* One more element flips the parity.                                      *)
LEMMA Flip ==
  ASSUME NEW S, IsFiniteSet(S), NEW a, a \notin S
  PROVE  (Cardinality(S \cup {a}) % 2 = 1) <=> ~(Cardinality(S) % 2 = 1)
  <1>1. Cardinality(S) \in Nat /\ Cardinality(S \cup {a}) = Cardinality(S) + 1
    BY FS_CardinalityType, FS_AddElement
  <1> QED
    BY <1>1

LEMMA LinEmpty == \A f : Lin(f, {}) = {}
  <1>1. \A f, b : {j \in {} : b \in f[j]} = {}
    OBVIOUS
  <1>2. Cardinality({}) = 0
    BY FS_EmptySet
  <1> QED
    BY <1>1, <1>2 DEF Lin

LEMMA LinType == \A f, w : Lin(f, w) \in Word
  BY DEF Lin, Word, Bits

LEMMA LinAdd ==
  ASSUME NEW f, NEW w \in Word, NEW a \in Bits \ w, f[a] \in Word
  PROVE  Lin(f, w \cup {a}) = Xor(Lin(f, w), f[a])
  <1> DEFINE S(b) == {j \in w : b \in f[j]}
             T(b) == {j \in w \cup {a} : b \in f[j]}
  <1>1. ASSUME NEW b \in Bits PROVE IsFiniteSet(S(b))
    <2>1. S(b) \in SUBSET Bits
      BY DEF Word, Bits
    <2> QED
      BY <2>1, FiniteWords
  <1>2. ASSUME NEW b \in Bits
        PROVE  b \in Lin(f, w \cup {a}) <=> b \in Xor(Lin(f, w), f[a])
    <2>1. CASE b \in f[a]
      <3>1. T(b) = S(b) \cup {a} /\ a \notin S(b)
        BY <2>1
      <3>2. (Cardinality(T(b)) % 2 = 1) <=> ~(Cardinality(S(b)) % 2 = 1)
        BY <1>1, <3>1, Flip
      <3> QED
        BY <2>1, <3>2 DEF Lin, Xor
    <2>2. CASE b \notin f[a]
      <3>1. T(b) = S(b)
        BY <2>2
      <3> QED
        BY <2>2, <3>1 DEF Lin, Xor
    <2> QED
      BY <2>1, <2>2
  <1>3. Lin(f, w \cup {a}) \subseteq Bits /\ Xor(Lin(f, w), f[a]) \subseteq Bits
    BY DEF Lin, Xor, Word, Bits
  <1> QED
    BY <1>2, <1>3

LEMMA LinSingle ==
  ASSUME NEW f, NEW a \in Bits, f[a] \in Word
  PROVE  Lin(f, {a}) = f[a]
  <1>1. {} \in Word /\ a \in Bits \ {} /\ {} \cup {a} = {a}
    BY WordOps
  <1>2. Lin(f, {} \cup {a}) = Xor(Lin(f, {}), f[a])
    BY <1>1, LinAdd
  <1>3. Lin(f, {}) = {} /\ Xor({}, f[a]) = f[a]
    BY LinEmpty, XorAlgebra
  <1> QED
    BY <1>1, <1>2, <1>3

(* Lin is additive in the word, and in the function.                       *)
LEMMA LinToggle ==
  ASSUME NEW f, NEW w \in Word, NEW a \in Bits, f[a] \in Word
  PROVE  Lin(f, Xor(w, {a})) = Xor(Lin(f, w), f[a])
  <1>1. CASE a \notin w
    <2>1. Xor(w, {a}) = w \cup {a}
      BY <1>1 DEF Xor
    <2>2. a \in Bits \ w
      BY <1>1
    <2>3. Lin(f, w \cup {a}) = Xor(Lin(f, w), f[a])
      BY <2>2, LinAdd
    <2> QED
      BY <2>1, <2>3
  <1>2. CASE a \in w
    <2>1. Xor(w, {a}) = w \ {a} /\ w \ {a} \in Word /\ a \in Bits \ (w \ {a})
          /\ (w \ {a}) \cup {a} = w
      BY <1>2 DEF Xor, Word
    <2>2. Lin(f, (w \ {a}) \cup {a}) = Xor(Lin(f, w \ {a}), f[a])
      BY <2>1, LinAdd
    <2>3. Xor(Xor(Lin(f, w \ {a}), f[a]), f[a]) = Lin(f, w \ {a})
      BY XorAlgebra
    <2> QED
      BY <2>1, <2>2, <2>3
  <1> QED
    BY <1>1, <1>2

LEMMA LinXor ==
  ASSUME NEW f \in [Bits -> Word], NEW x \in Word, NEW y \in Word
  PROVE  Lin(f, Xor(x, y)) = Xor(Lin(f, x), Lin(f, y))
  <1> DEFINE Good == {w \in Word : Lin(f, Xor(x, w)) = Xor(Lin(f, x), Lin(f, w))}
  <1>1. {} \in Good
    BY LinEmpty, XorAlgebra, WordOps
  <1>2. ASSUME NEW w \in Word, NEW a \in Bits \ w, w \in Good PROVE w \cup {a} \in Good
    <2>1. w \cup {a} \in Word /\ w \cup {a} = Xor(w, {a}) /\ Xor(x, w) \in Word
      BY WordOps DEF Word, Bits, Xor
    <2>2. Xor(x, Xor(w, {a})) = Xor(Xor(x, w), {a})
      BY XorAlgebra
    <2>3. Lin(f, Xor(x, w \cup {a})) = Xor(Lin(f, Xor(x, w)), f[a])
      BY <2>1, <2>2, LinToggle
    <2>4. Lin(f, w \cup {a}) = Xor(Lin(f, w), f[a])
      BY LinAdd
    <2> QED
      BY <1>2, <2>1, <2>3, <2>4, XorAlgebra
  <1> HIDE DEF Good
  <1>3. y \in Good
    BY <1>1, <1>2, WordInduction
  <1> QED
    BY <1>3 DEF Good

LEMMA LinSum ==
  ASSUME NEW f \in [Bits -> Word], NEW g \in [Bits -> Word], NEW x \in Word
  PROVE  Lin([j \in Bits |-> Xor(f[j], g[j])], x) = Xor(Lin(f, x), Lin(g, x))
  <1> DEFINE h == [j \in Bits |-> Xor(f[j], g[j])]
             Good == {w \in Word : Lin(h, w) = Xor(Lin(f, w), Lin(g, w))}
  <1>1. {} \in Good
    BY LinEmpty, XorAlgebra, WordOps, ZenonT(30)
  <1>2. ASSUME NEW w \in Word, NEW a \in Bits \ w, w \in Good PROVE w \cup {a} \in Good
    <2>1. w \cup {a} \in Word /\ h[a] = Xor(f[a], g[a]) /\ h[a] \in Word
      BY WordOps DEF Word, Bits
    <2> HIDE DEF h
    <2>2. /\ Lin(h, w \cup {a}) = Xor(Lin(h, w), h[a])
          /\ Lin(f, w \cup {a}) = Xor(Lin(f, w), f[a])
          /\ Lin(g, w \cup {a}) = Xor(Lin(g, w), g[a])
      BY <2>1, LinAdd
    <2>3. Lin(h, w) = Xor(Lin(f, w), Lin(g, w))
      BY <1>2
    <2>4. Xor(Xor(Lin(f, w), Lin(g, w)), Xor(f[a], g[a]))
            = Xor(Xor(Lin(f, w), f[a]), Xor(Lin(g, w), g[a]))
      BY DEF Xor
    <2> QED
      BY <2>1, <2>2, <2>3, <2>4
  <1> HIDE DEF Good
  <1>3. x \in Good
    BY <1>1, <1>2, WordInduction
  <1> QED
    BY <1>3 DEF Good

(* Walking is additive.                                                    *)
LEMMA WalkXor ==
  ASSUME NEW u \in Word, NEW w \in Word, NEW n \in Nat
  PROVE  Walk(Xor(u, w))[n] = Xor(Walk(u)[n], Walk(w)[n])
  <1> DEFINE Good == {k \in Nat : Walk(Xor(u, w))[k] = Xor(Walk(u)[k], Walk(w)[k])}
  <1>1. Xor(u, w) \in Word
    BY WordOps
  <1>2. 0 \in Good
    BY <1>1, WalkUnfolds
  <1>3. ASSUME NEW k \in Nat, k \in Good PROVE k + 1 \in Good
    <2>1. /\ Walk(u)[k] \in Word /\ Walk(w)[k] \in Word
          /\ Walk(u)[k + 1] = Step(Walk(u)[k])
          /\ Walk(w)[k + 1] = Step(Walk(w)[k])
          /\ Walk(Xor(u, w))[k + 1] = Step(Walk(Xor(u, w))[k])
      BY <1>1, WalkUnfolds
    <2>2. Step(Xor(Walk(u)[k], Walk(w)[k])) = Xor(Step(Walk(u)[k]), Step(Walk(w)[k]))
      BY <2>1, StepXor
    <2> QED
      BY <1>3, <2>1, <2>2
  <1> HIDE DEF Good
  <1>4. n \in Good
    BY <1>2, <1>3, Induction
  <1> QED
    BY <1>4 DEF Good

(* x^(a + n) is x^n times x^a.                                             *)
LEMMA WalkShift ==
  ASSUME NEW a \in Nat, NEW n \in Nat
  PROVE  Walk(X[a])[n] = X[a + n]
  <1> DEFINE Good == {k \in Nat : Walk(X[a])[k] = X[a + k]}
  <1>1. X[a] \in Word
    BY XUnfolds
  <1>2. 0 \in Good
    <2>1. Walk(X[a])[0] = X[a]
      BY <1>1, WalkUnfolds
    <2>2. a + 0 = a
      OBVIOUS
    <2> QED
      BY <2>1, <2>2
  <1>3. ASSUME NEW k \in Nat, k \in Good PROVE k + 1 \in Good
    <2>1. a + k \in Nat /\ a + (k + 1) = (a + k) + 1
      OBVIOUS
    <2>2. X[(a + k) + 1] = Step(X[a + k])
      BY <2>1, XUnfolds
    <2>3. Walk(X[a])[k + 1] = Step(Walk(X[a])[k])
      BY <1>1, WalkUnfolds
    <2> QED
      BY <1>3, <2>1, <2>2, <2>3
  <1> HIDE DEF Good
  <1>4. n \in Good
    BY <1>2, <1>3, Induction
  <1> QED
    BY <1>4 DEF Good

(* The powers below x^Width are single bits, and x^Width is Poly.          *)
LEMMA StepSingle ==
  ASSUME NEW a \in Bits
  PROVE  Step({a}) = IF a = Width - 1 THEN Poly ELSE {a + 1}
  BY DEF Step, Xor, Bits

LEMMA LowPowers ==
  /\ \A a \in Bits : X[a] = {a}
  /\ X[Width] = Poly
  <1> DEFINE Good == {a \in Nat : a \in Bits => X[a] = {a}}
  <1>1. 0 \in Good
    BY XUnfolds
  <1>2. ASSUME NEW a \in Nat, a \in Good PROVE a + 1 \in Good
    <2> SUFFICES ASSUME a + 1 \in Bits PROVE X[a + 1] = {a + 1}
      OBVIOUS
    <2>1. a \in Bits /\ a # Width - 1
      BY WidthAssumption DEF Bits
    <2>2. X[a + 1] = Step({a})
      BY <1>2, <2>1, XUnfolds
    <2> QED
      BY <2>1, <2>2, StepSingle
  <1> HIDE DEF Good
  <1>3. \A a \in Bits : a \in Good
    BY <1>1, <1>2, Induction DEF Bits
  <1>4. \A a \in Bits : X[a] = {a}
    BY <1>3 DEF Good, Bits
  <1>5. X[Width] = Poly
    <2>1. Width - 1 \in Bits /\ Width - 1 \in Nat /\ (Width - 1) + 1 = Width
      BY WidthAssumption DEF Bits
    <2>2. X[(Width - 1) + 1] = Step({Width - 1})
      BY <1>4, <2>1, XUnfolds
    <2>3. Step({Width - 1}) = Poly
      BY <2>1, StepSingle
    <2> QED
      BY <2>1, <2>2, <2>3
  <1> QED
    BY <1>4, <1>5

(* A word times x^n is the sum of its bits, each times x^n.                *)
Shift(n) == [j \in Bits |-> X[j + n]]

LEMMA ShiftType ==
  ASSUME NEW n \in Nat
  PROVE  /\ Shift(n) \in [Bits -> Word]
         /\ \A j \in Bits : Shift(n)[j] = X[j + n]
  <1>1. ASSUME NEW j \in Bits PROVE j + n \in Nat
    BY DEF Bits
  <1>2. ASSUME NEW j \in Bits PROVE X[j + n] \in Word
    BY <1>1, XUnfolds
  <1> QED
    BY <1>2 DEF Shift

LEMMA AddBit ==
  ASSUME NEW w \in Word, NEW a \in Bits \ w
  PROVE  w \cup {a} = Xor(w, {a}) /\ w \cup {a} \in Word /\ {a} \in Word
  BY DEF Xor, Word, Bits

LEMMA WalkSums ==
  ASSUME NEW w \in Word, NEW n \in Nat
  PROVE  Walk(w)[n] = Lin(Shift(n), w)
  <1> DEFINE Good == {x \in Word : Walk(x)[n] = Lin(Shift(n), x)}
  <1>1. {} \in Good
    <2>1. {} \in Word /\ Xor({}, {}) = {}
      BY WordOps, XorAlgebra
    <2>2. Walk(Xor({}, {}))[n] = Xor(Walk({})[n], Walk({})[n])
      BY <2>1, WalkXor
    <2>3. Walk({})[n] = {}
      BY <2>1, <2>2, XorAlgebra
    <2> QED
      BY <2>1, <2>3, LinEmpty
  <1>2. ASSUME NEW x \in Word, NEW a \in Bits \ x, x \in Good PROVE x \cup {a} \in Good
    <2>1. x \cup {a} = Xor(x, {a}) /\ x \cup {a} \in Word /\ {a} \in Word
      BY AddBit
    <2>2. Walk(x \cup {a})[n] = Xor(Walk(x)[n], Walk({a})[n])
      <3>1. Walk(Xor(x, {a}))[n] = Xor(Walk(x)[n], Walk({a})[n])
        BY <2>1, WalkXor
      <3> QED
        BY <2>1, <3>1
    <2>3. Walk({a})[n] = X[a + n]
      <3>1. a \in Nat /\ X[a] = {a}
        BY LowPowers DEF Bits
      <3>2. Walk(X[a])[n] = X[a + n]
        BY <3>1, WalkShift
      <3> QED
        BY <3>1, <3>2
    <2>4. Shift(n)[a] = X[a + n] /\ Shift(n)[a] \in Word
      BY ShiftType
    <2>5. Lin(Shift(n), x \cup {a}) = Xor(Lin(Shift(n), x), Shift(n)[a])
      BY <2>4, LinAdd
    <2> QED
      BY <1>2, <2>1, <2>2, <2>3, <2>4, <2>5
  <1> HIDE DEF Good
  <1>3. w \in Good
    BY <1>1, <1>2, WordInduction
  <1> QED
    BY <1>3 DEF Good

(* Evens[j] is x^(2j): m2.                                                 *)
Evens == [j \in Bits |-> X[2 * j]]

LEMMA EvensType ==
  /\ Evens \in [Bits -> Word]
  /\ \A j \in Bits : Evens[j] = X[2 * j]
  <1>1. ASSUME NEW j \in Bits PROVE 2 * j \in Nat
    BY DEF Bits
  <1>2. ASSUME NEW j \in Bits PROVE X[2 * j] \in Word
    BY <1>1, XUnfolds
  <1> QED
    BY <1>2 DEF Evens

LEMMA TwoSteps ==
  ASSUME NEW n \in Nat
  PROVE  X[2 * (n + 1)] = Step(Step(X[2 * n]))
  <1>1. /\ 2 * n \in Nat /\ 2 * n + 1 \in Nat
        /\ 2 * (n + 1) = (2 * n + 1) + 1
    OBVIOUS
  <1>2. X[2 * n + 1] = Step(X[2 * n]) /\ X[(2 * n + 1) + 1] = Step(X[2 * n + 1])
    BY <1>1, XUnfolds
  <1> QED
    BY <1>1, <1>2

LEMMA EvensAreM2 == m2 = Evens
  <1> DEFINE Def(f) == [n \in 0 .. Width - 1 |-> IF n = 0 THEN {0} ELSE Step(Step(f[n - 1]))]
             f == CHOOSE g : g = Def(g)
  <1>1. Evens = Def(Evens)
    <2>1. ASSUME NEW n \in Bits PROVE Evens[n] = Def(Evens)[n]
      <3>1. CASE n = 0
        <4>1. Evens[0] = X[2 * 0] /\ 2 * 0 = 0 /\ X[0] = {0}
          BY <3>1, EvensType, XUnfolds
        <4>2. Def(Evens)[0] = {0}
          BY <3>1 DEF Bits
        <4> QED
          BY <3>1, <4>1, <4>2
      <3>2. CASE n # 0
        <4>1. n - 1 \in Bits /\ n - 1 \in Nat /\ (n - 1) + 1 = n
          BY <3>2, WidthAssumption DEF Bits
        <4>2. X[2 * ((n - 1) + 1)] = Step(Step(X[2 * (n - 1)]))
          BY <4>1, TwoSteps
        <4>3. Evens[n] = X[2 * n] /\ Evens[n - 1] = X[2 * (n - 1)]
          BY <4>1, EvensType
        <4>4. Def(Evens)[n] = Step(Step(Evens[n - 1]))
          BY <3>2 DEF Bits
        <4> QED
          BY <4>1, <4>2, <4>3, <4>4
      <3> QED
        BY <3>1, <3>2
    <2>2. Def(Evens) = [n \in Bits |-> Def(Evens)[n]]
      BY DEF Bits
    <2>3. Evens = [n \in Bits |-> Evens[n]]
      BY EvensType
    <2> HIDE DEF Def
    <2> QED
      BY <2>1, <2>2, <2>3
  <1>2. f = Def(f)
    <2> HIDE DEF Def
    <2> QED
      BY <1>1
  <1>3. m2 = [n \in 0 .. Width - 1 |-> f[n]]
    BY DEF m2
  <1> HIDE DEF f
  <1> DEFINE Good == {n \in Nat : n \in Bits => f[n] = Evens[n]}
  <1>4. 0 \in Good
    <2>1. 0 \in Bits
      BY WidthAssumption DEF Bits
    <2>2. f[0] = {0}
      BY <1>2, <2>1 DEF Bits
    <2>3. Evens[0] = {0}
      BY <2>1, EvensType, XUnfolds
    <2> QED
      BY <2>2, <2>3
  <1>5. ASSUME NEW n \in Nat, n \in Good PROVE n + 1 \in Good
    <2> SUFFICES ASSUME n + 1 \in Bits PROVE f[n + 1] = Evens[n + 1]
      OBVIOUS
    <2>1. n \in Bits /\ n + 1 # 0 /\ (n + 1) - 1 = n
      BY WidthAssumption DEF Bits
    <2>2. f[n + 1] = Step(Step(f[n]))
      BY <1>2, <2>1 DEF Bits
    <2>3. Evens[n + 1] = Step(Step(Evens[n]))
      BY <2>1, EvensType, TwoSteps
    <2> QED
      BY <1>5, <2>1, <2>2, <2>3
  <1> HIDE DEF Good
  <1>6. ASSUME NEW n \in Bits PROVE f[n] = Evens[n]
    <2>1. n \in Good
      BY <1>4, <1>5, Induction DEF Bits
    <2> QED
      BY <2>1 DEF Good
  <1>7. Evens = [n \in Bits |-> Evens[n]]
    BY EvensType
  <1> QED
    BY <1>3, <1>6, <1>7 DEF Bits

LEMMA SquareSums ==
  ASSUME NEW w \in Word
  PROVE  Square(w) = Lin(Evens, w)
  BY EvensAreM2 DEF Square, Lin, Bits

(* The square of a sum is the sum of the squares: the mixed products come  *)
(* in pairs.                                                               *)
Rows(Q) == [j \in Bits |-> Lin(Shift(j), Q)]

LEMMA RowsType ==
  ASSUME NEW Q \in Word
  PROVE  Rows(Q) \in [Bits -> Word] /\ \A j \in Bits : Rows(Q)[j] = Lin(Shift(j), Q)
  BY LinType DEF Rows

LEMMA SquareIsProduct ==
  ASSUME NEW Q \in Word
  PROVE  Lin(Rows(Q), Q) = Lin(Evens, Q)
  <1> DEFINE Good == {w \in Word : Lin(Rows(w), w) = Lin(Evens, w)}
  <1>1. {} \in Good
    BY LinEmpty, WordOps
  <1>2. ASSUME NEW w \in Word, NEW a \in Bits \ w, w \in Good PROVE w \cup {a} \in Good
    <2>1. w \cup {a} \in Word /\ a \in Nat
      <3>1. w \cup {a} \in Word
        BY AddBit
      <3> QED
        BY <3>1 DEF Bits
    <2> DEFINE R == Rows(w \cup {a})
    <2>2. ASSUME NEW j \in Bits PROVE R[j] = Xor(Rows(w)[j], Shift(a)[j])
      <3>1. j \in Nat /\ j + a = a + j
        BY <2>1 DEF Bits
      <3>2. Shift(j)[a] = X[a + j] /\ Shift(j)[a] \in Word /\ Shift(a)[j] = X[j + a]
        BY <2>1, <3>1, ShiftType
      <3>3. Lin(Shift(j), w \cup {a}) = Xor(Lin(Shift(j), w), Shift(j)[a])
        BY <3>2, LinAdd
      <3> QED
        BY <2>1, <3>1, <3>2, <3>3, RowsType
    <2>3. R = [j \in Bits |-> Xor(Rows(w)[j], Shift(a)[j])]
      <3>1. R = [j \in Bits |-> R[j]]
        BY <2>1, RowsType
      <3> HIDE DEF R
      <3> QED
        BY <2>2, <3>1
    <2>4. Rows(w) \in [Bits -> Word] /\ Shift(a) \in [Bits -> Word]
      BY <2>1, RowsType, ShiftType
    <2>5. Lin(R, w) = Xor(Lin(Rows(w), w), Lin(Shift(a), w))
      BY <2>3, <2>4, LinSum
    <2>6. R[a] = Xor(Lin(Shift(a), w), X[2 * a])
      <3>1. Rows(w)[a] = Lin(Shift(a), w) /\ Shift(a)[a] = X[a + a] /\ a + a = 2 * a
        BY <2>1, RowsType, ShiftType
      <3> QED
        BY <2>2, <3>1
    <2>7. R[a] \in Word
      BY <2>1, RowsType
    <2> HIDE DEF R
    <2>8. Lin(R, w \cup {a}) = Xor(Lin(R, w), R[a])
      BY <2>7, LinAdd
    <2>9. Lin(R, w \cup {a}) = Xor(Lin(Rows(w), w), X[2 * a])
      <3>1. \A p, q, s : Xor(Xor(p, q), Xor(q, s)) = Xor(p, s)
        BY DEF Xor
      <3> QED
        BY <2>5, <2>6, <2>8, <3>1
    <2>10. Lin(Evens, w \cup {a}) = Xor(Lin(Evens, w), X[2 * a])
      <3>1. Evens[a] = X[2 * a] /\ Evens[a] \in Word
        BY EvensType
      <3> QED
        BY <3>1, LinAdd
    <2>11. Lin(Rows(w), w) = Lin(Evens, w)
      BY <1>2
    <2> QED
      BY <2>1, <2>9, <2>10, <2>11 DEF R
  <1> HIDE DEF Good
  <1>3. Q \in Good
    BY <1>1, <1>2, WordInduction
  <1> QED
    BY <1>3 DEF Good

LEMMA SquarePoly == Square(Poly) = X[2 * Width]
  <1>1. Poly \in Word /\ Width \in Nat /\ X[Width] = Poly
    BY PolyAssumption, WidthAssumption, LowPowers DEF Word
  <1>2. X[Width + Width] = Lin(Shift(Width), Poly)
    <2>1. Walk(X[Width])[Width] = X[Width + Width]
      BY <1>1, WalkShift
    <2>2. Walk(Poly)[Width] = Lin(Shift(Width), Poly)
      BY <1>1, WalkSums
    <2> QED
      BY <1>1, <2>1, <2>2
  <1>3. Shift(Width) = Rows(Poly)
    <2>1. ASSUME NEW j \in Bits PROVE X[j + Width] = Lin(Shift(j), Poly)
      <3>1. j \in Nat /\ j + Width = Width + j
        BY <1>1 DEF Bits
      <3>2. Walk(X[Width])[j] = X[Width + j]
        BY <1>1, <3>1, WalkShift
      <3>3. Walk(Poly)[j] = Lin(Shift(j), Poly)
        BY <1>1, <3>1, WalkSums
      <3> QED
        BY <1>1, <3>1, <3>2, <3>3
    <2> QED
      BY <2>1 DEF Shift, Rows
  <1>4. Width + Width = 2 * Width
    BY <1>1
  <1> QED
    BY <1>1, <1>2, <1>3, <1>4, SquareIsProduct, SquareSums

(* The square of a sum is the sum of the squares.                          *)
LEMMA SquareXor ==
  ASSUME NEW x \in Word, NEW y \in Word
  PROVE  Square(Xor(x, y)) = Xor(Square(x), Square(y))
  <1>1. Xor(x, y) \in Word
    BY WordOps
  <1>2. Square(Xor(x, y)) = Lin(Evens, Xor(x, y))
    BY <1>1, SquareSums
  <1>3. Square(x) = Lin(Evens, x) /\ Square(y) = Lin(Evens, y)
    BY SquareSums
  <1>4. Evens \in [Bits -> Word]
    BY EvensType
  <1>5. Lin(Evens, Xor(x, y)) = Xor(Lin(Evens, x), Lin(Evens, y))
    BY <1>4, LinXor
  <1> QED
    BY <1>2, <1>3, <1>5

(* (x * u)^2 is x^2 * u^2.                                                 *)
LEMMA SquareStep ==
  ASSUME NEW u \in Word
  PROVE  Square(Step(u)) = Step(Step(Square(u)))
  <1> DEFINE Good == {w \in Word : Square(Step(w)) = Step(Step(Square(w)))}
  <1>1. {} \in Good
    <2>1. Step({}) = {}
      BY DEF Step, Xor
    <2>2. Square({}) = {}
      BY LinEmpty, SquareSums, WordOps
    <2> QED
      BY <2>1, <2>2, WordOps
  <1>2. ASSUME NEW a \in Bits
        PROVE  Square(Step({a})) = Step(Step(Square({a})))
    <2>1. a \in Nat /\ {a} \in Word
      BY DEF Bits, Word
    <2>2. Square({a}) = X[2 * a]
      <3>1. Evens[a] = X[2 * a] /\ Evens[a] \in Word
        BY EvensType
      <3>2. Lin(Evens, {a}) = Evens[a]
        BY <3>1, LinSingle
      <3> QED
        BY <2>1, <3>1, <3>2, SquareSums
    <2>3. Step(Step(X[2 * a])) = X[2 * (a + 1)]
      BY <2>1, TwoSteps
    <2>4. Square(Step({a})) = X[2 * (a + 1)]
      <3>1. CASE a = Width - 1
        <4>1. a + 1 = Width
          BY <3>1, WidthAssumption
        <4>2. Step({a}) = Poly
          BY <3>1, StepSingle
        <4> QED
          BY <4>1, <4>2, SquarePoly
      <3>2. CASE a # Width - 1
        <4>1. a + 1 \in Bits /\ {a + 1} \in Word
          BY <3>2, WidthAssumption DEF Bits, Word
        <4>4. Step({a}) = {a + 1}
          BY <3>2, StepSingle
        <4>2. Evens[a + 1] = X[2 * (a + 1)] /\ Evens[a + 1] \in Word
          BY <4>1, EvensType
        <4>3. Lin(Evens, {a + 1}) = Evens[a + 1]
          BY <4>1, <4>2, LinSingle
        <4>5. Square({a + 1}) = Lin(Evens, {a + 1})
          BY <4>1, SquareSums
        <4> QED
          BY <4>2, <4>3, <4>4, <4>5
      <3> QED
        BY <3>1, <3>2
    <2> QED
      BY <2>2, <2>3, <2>4
  <1>3. ASSUME NEW w \in Word, NEW a \in Bits \ w, w \in Good PROVE w \cup {a} \in Good
    <2>1. w \cup {a} = Xor(w, {a}) /\ w \cup {a} \in Word /\ {a} \in Word
      BY AddBit
    <2>2. Step(w) \in Word /\ Step({a}) \in Word /\ Square(w) \in Word /\ Square({a}) \in Word
      BY <2>1, WordOps
    <2>3. Step(Xor(w, {a})) = Xor(Step(w), Step({a}))
      BY <2>1, StepXor
    <2>4. Square(Xor(Step(w), Step({a}))) = Xor(Square(Step(w)), Square(Step({a})))
      BY <2>2, SquareXor
    <2>5. Square(Xor(w, {a})) = Xor(Square(w), Square({a}))
      BY <2>1, SquareXor
    <2>6. Step(Step(Xor(Square(w), Square({a})))) = Xor(Step(Step(Square(w))), Step(Step(Square({a}))))
      <3>1. Step(Xor(Square(w), Square({a}))) = Xor(Step(Square(w)), Step(Square({a})))
        BY <2>2, StepXor
      <3>2. Step(Square(w)) \in Word /\ Step(Square({a})) \in Word
        BY <2>2, WordOps
      <3> QED
        BY <3>1, <3>2, StepXor
    <2>7. Square(Step(w)) = Step(Step(Square(w)))
      BY <1>3
    <2>8. Square(Step({a})) = Step(Step(Square({a})))
      BY <1>2
    <2> QED
      BY <2>1, <2>3, <2>4, <2>5, <2>6, <2>7, <2>8
  <1> HIDE DEF Good
  <1>4. u \in Good
    BY <1>1, <1>3, WordInduction
  <1> QED
    BY <1>4 DEF Good

LEMMA SquarePower ==
  ASSUME NEW n \in Nat
  PROVE  Square(X[n]) = X[2 * n]
  <1> DEFINE Good == {k \in Nat : Square(X[k]) = X[2 * k]}
  <1>1. 0 \in Good
    <2>1. 0 \in Bits
      BY WidthAssumption DEF Bits
    <2>2. Lin(Evens, {0}) = Evens[0]
      BY <2>1, EvensType, LinSingle
    <2>3. 2 * 0 = 0 /\ X[0] = {0} /\ {0} \in Word
      BY XUnfolds, WordOps
    <2>4. Evens[0] = X[2 * 0]
      BY <2>1, EvensType
    <2>5. Square({0}) = Lin(Evens, {0})
      BY <2>3, SquareSums
    <2> QED
      BY <2>2, <2>3, <2>4, <2>5
  <1>2. ASSUME NEW k \in Nat, k \in Good PROVE k + 1 \in Good
    <2>1. X[k + 1] = Step(X[k]) /\ X[k] \in Word
      BY XUnfolds
    <2>2. Square(Step(X[k])) = Step(Step(Square(X[k])))
      BY <2>1, SquareStep
    <2>3. X[2 * (k + 1)] = Step(Step(X[2 * k]))
      BY TwoSteps
    <2> QED
      BY <1>2, <2>1, <2>2, <2>3
  <1> HIDE DEF Good
  <1>3. n \in Good
    BY <1>1, <1>2, Induction
  <1> QED
    BY <1>3 DEF Good

(* One bit of a quotient                                                   *)
LEMMA Halves ==
  ASSUME NEW s \in Nat, NEW p \in Nat \ {0}
  PROVE  /\ s \div p \in Nat /\ s \div (2 * p) \in Nat
         /\ s \div p = 2 * (s \div (2 * p)) + ((s \div p) % 2)
         /\ (s \div p) % 2 \in {0, 1}
  <1> DEFINE q == s \div p
             t == s \div (2 * p)
  <1>1. q \in Nat /\ p * q <= s /\ s < p * (q + 1)
    OBVIOUS
  <1>2. t \in Nat /\ (2 * p) * t <= s /\ s < (2 * p) * (t + 1)
    <2>1. 2 * p \in Nat \ {0}
      OBVIOUS
    <2> DEFINE d == 2 * p
    <2> HIDE DEF d
    <2>2. d \in Nat \ {0}
      BY <2>1 DEF d
    <2>3. s \div d \in Nat /\ d * (s \div d) <= s /\ s < d * (s \div d + 1)
      BY <2>2
    <2> QED
      BY <2>3 DEF d
  <1> HIDE DEF q, t
  <1>3. ASSUME NEW a \in Nat, NEW b \in Nat, p * a <= s, s < p * b PROVE a < b
    <2> SUFFICES ASSUME b <= a PROVE FALSE
      OBVIOUS
    <2> DEFINE A == p * a
               B == p * b
    <2>1. A \in Nat /\ B \in Nat /\ A <= s /\ s < B
      BY <1>3
    <2>2. B <= A
      OBVIOUS
    <2> HIDE DEF A, B
    <2> QED
      BY <2>1, <2>2
  <1>4. (2 * p) * t = p * (2 * t) /\ (2 * p) * (t + 1) = p * (2 * t + 2)
    BY <1>2
  <1>5. q < 2 * t + 2 /\ 2 * t < q + 1
    <2>1. q + 1 \in Nat /\ 2 * t \in Nat /\ 2 * t + 2 \in Nat
      BY <1>1, <1>2
    <2>2. p * (2 * t) <= s /\ s < p * (2 * t + 2)
      BY <1>2, <1>4
    <2> QED
      BY <1>1, <1>3, <2>1, <2>2
  <1>6. q = 2 * t + (q % 2) /\ q % 2 \in {0, 1}
    <2>1. q = 2 * t \/ q = 2 * t + 1
      BY <1>1, <1>2, <1>5
    <2>2. (2 * t) % 2 = 0 /\ (2 * t + 1) % 2 = 1
      BY <1>2
    <2>3. CASE q = 2 * t
      BY <1>2, <2>2, <2>3
    <2>4. CASE q = 2 * t + 1
      BY <1>2, <2>2, <2>4
    <2> QED
      BY <2>1, <2>3, <2>4
  <1> QED
    BY <1>1, <1>2, <1>6 DEF q, t

(* For every Width and Poly and every seed of the loop's range,            *)
(* generate_initial_xor_val is the value that seed steps of the stream     *)
(* reach: what JumpsToStream checks of 64-bit words and the code's POLY.   *)
THEOREM JumpCorrect ==
  ASSUME NEW seed \in Nat, seed < 2^63
  PROVE  generate_initial_xor_val(seed) = X[seed]
  <1>1. CASE seed = 0
    BY <1>1, XUnfolds DEF generate_initial_xor_val
  <1>2. CASE seed # 0
    <2>1. PICK top, ret : Jump(seed, top, ret)
      BY <1>2, JumpUnfolds
    <2>2. /\ top \in 0 .. 62 /\ 2^top <= seed /\ seed < 2^(top + 1)
          /\ ret[top] = {1}
          /\ \A b \in 0 .. top - 1 : ret[b] = JumpStep(seed, b, ret[b + 1])
          /\ generate_initial_xor_val(seed) = ret[0]
      BY <2>1 DEF Jump
    <2> DEFINE quot(b) == seed \div 2^b
               Good == {k \in Nat : k <= top => ret[top - k] = X[quot(top - k)]}
    <2>3. 0 \in Good
      <3>1. quot(top) = 1
        <4> DEFINE p == 2^top
        <4>1. p \in Nat \ {0} /\ p <= seed /\ seed < 2 * p
          BY <2>2, Powers
        <4> HIDE DEF p
        <4>2. seed \div p = 1
          BY <4>1
        <4> QED
          BY <4>2 DEF p
      <3>2. X[1] = {1}
        <4>1. 0 \in Bits /\ 0 # Width - 1 /\ 0 + 1 = 1
          BY WidthAssumption DEF Bits
        <4>2. X[0 + 1] = Step({0})
          BY XUnfolds
        <4>3. Step({0}) = {0 + 1}
          BY <4>1, StepSingle
        <4> QED
          BY <4>1, <4>2, <4>3
      <3>3. top - 0 = top
        BY <2>2
      <3> HIDE DEF quot
      <3> QED
        BY <2>2, <3>1, <3>2, <3>3
    <2>4. ASSUME NEW k \in Nat, k \in Good PROVE k + 1 \in Good
      <3> SUFFICES ASSUME k + 1 <= top PROVE ret[top - (k + 1)] = X[quot(top - (k + 1))]
        OBVIOUS
      <3> DEFINE b == top - (k + 1)
      <3>1. b \in 0 .. top - 1 /\ b \in Nat /\ b + 1 = top - k
        BY <2>2
      <3> HIDE DEF b
      <3>2. ret[b + 1] = X[quot(b + 1)]
        <4>1. ret[top - k] = X[quot(top - k)]
          <5> HIDE DEF quot
          <5>1. k <= top
            BY <2>2
          <5> QED
            BY <2>4, <5>1
        <4> HIDE DEF quot
        <4> QED
          BY <3>1, <4>1
      <3>3. ret[b] = JumpStep(seed, b, ret[b + 1])
        BY <2>2, <3>1
      <3>4. /\ quot(b) \in Nat /\ quot(b + 1) \in Nat
            /\ quot(b) = 2 * quot(b + 1) + (quot(b) % 2)
            /\ quot(b) % 2 \in {0, 1}
        <4>1. 2^b \in Nat \ {0} /\ 2^(b + 1) = 2 * 2^b
          BY <3>1, Powers
        <4> DEFINE p == 2^b
        <4> HIDE DEF p
        <4>2. /\ seed \div p \in Nat /\ seed \div (2 * p) \in Nat
              /\ seed \div p = 2 * (seed \div (2 * p)) + ((seed \div p) % 2)
              /\ (seed \div p) % 2 \in {0, 1}
          BY <4>1, Halves DEF p
        <4> QED
          BY <4>1, <4>2 DEF p
      <3>5. JumpStep(seed, b, ret[b + 1]) = IF quot(b) % 2 = 1 THEN Step(Square(ret[b + 1])) ELSE Square(ret[b + 1])
        BY DEF JumpStep
      <3> HIDE DEF quot
      <3>6. Square(X[quot(b + 1)]) = X[2 * quot(b + 1)]
        BY <3>4, SquarePower
      <3>7. X[2 * quot(b + 1) + 1] = Step(X[2 * quot(b + 1)])
        BY <3>4, XUnfolds
      <3>8. ret[b] = X[quot(b)]
        <4> DEFINE e == quot(b) % 2
                   y == quot(b)
                   z == quot(b + 1)
        <4>1. /\ y \in Nat /\ z \in Nat
              /\ y = 2 * z + e
              /\ e \in {0, 1}
          BY <3>4
        <4>2. /\ Square(X[z]) = X[2 * z] /\ X[2 * z + 1] = Step(X[2 * z])
              /\ ret[b] = IF e = 1 THEN Step(Square(X[z])) ELSE Square(X[z])
          BY <3>2, <3>3, <3>5, <3>6, <3>7
        <4> HIDE DEF e, y, z
        <4>3. CASE e = 1
          BY <4>1, <4>2, <4>3 DEF y
        <4>4. CASE e = 0
          <5>1. y = 2 * z
            BY <4>1, <4>4
          <5> QED
            BY <4>2, <4>4, <5>1 DEF y
        <4> QED
          BY <4>1, <4>3, <4>4
      <3> QED
        BY <3>8 DEF b
    <2> HIDE DEF Good
    <2>5. top \in Good
      BY <2>2, <2>3, <2>4, Induction
    <2>6. ret[0] = X[quot(0)]
      <3>1. top - top = 0 /\ top <= top
        BY <2>2
      <3> HIDE DEF quot
      <3> QED
        BY <2>5, <3>1 DEF Good
    <2>7. quot(0) = seed
      <3>1. seed \div 1 = seed
        OBVIOUS
      <3> QED
        BY <3>1, Powers
    <2> HIDE DEF quot
    <2> QED
      BY <2>2, <2>6, <2>7
  <1> QED
    BY <1>1, <1>2

-----------------------------------------------------------------------------
(* The contents of the table.  Update <<q, n>>, the n-th of rank q, is x^k *)
(* for the k it has in the stream of all ranks; Made is the set of those   *)
(* that the table shows when none was lost.                                *)
Updates == {u \in Ranks \X (1 .. 4 * N) : u[2] <= iterations(u[1])}
Value(u) == X[4 * Start(u[1]) + u[2]]
Odd(S) == Cardinality(S) % 2 = 1
Hits(D, r, k, b) == {u \in D : Target(Value(u)) = [pe |-> r, index |-> k] /\ b \in Value(u)}
WordOf(D, r, k) == {b \in Bits : ~(Odd(Hits(D, r, k, b)) <=> b \in InitialWord(r, k))}

Busy(r) == pc[r] \in {"update", "wait"}
Carried(r) == IF out[r] = {} THEN i[r] ELSE i[r] - 1
MadeOf(r) ==
  IF colls[r] <= 15 THEN IF Busy(r) THEN 1 .. Carried(r) ELSE {}
  ELSE IF colls[r] <= 20 THEN IF Busy(r) THEN Carried(r) + 1 .. iterations(r) ELSE 1 .. iterations(r)
  ELSE {}
Made == {u \in Updates : u[2] \in MadeOf(u[1])}

(* A rank's stream is where its loop is.                                   *)
StreamOf(r) ==
  /\ Busy(r) => ran[r] = Value(<<r, i[r]>>)
  /\ pc[r] = "wait" => i[r] >= 1
  /\ colls[r] <= 14 => lost = 0
Streams == \A r \in Ranks : StreamOf(r)

(* The table t of the ranks that have entered so many collectives c shows  *)
(* the updates of D, or those made with one that was lost (one of l).      *)
Shows(t, c, D) ==
  \A r \in Ranks : c[r] >= 15 => \A k \in Local(r) : t[r][k] = WordOf(D, r, k)
ContentsOf(t, c, l, D) ==
  \/ l = 0 /\ Shows(t, c, D)
  \/ l = 1 /\ \E u \in Updates : Shows(t, c, Xor(D, {u}))
  \/ l >= 2
Contents == ContentsOf(table, colls, lost, Made)

(* The verification has counted the words that differ.                     *)
Differ(r) == {k \in Local(r) : k < v[r] /\ table[r][k] # InitialWord(r, k)}
CountOf(r) ==
  /\ num_errors[r] = Cardinality(Differ(r))
  /\ v[r] # 0 => pc[r] = "verify" \/ colls[r] >= 22
  /\ colls[r] >= 22 => v[r] = Cardinality(Local(r))
  /\ colls[r] >= 24 /\ lost <= 1 => global_num_errors[r] = lost
Counts == \A r \in Ranks : CountOf(r)
TableInv == Streams /\ Contents /\ Counts

LEMMA PowerNonEmpty ==
  \A n \in Nat : X[n] # {}
  <1> DEFINE Good == {n \in Nat : X[n] # {}}
  <1>1. 0 \in Good
    BY XUnfolds
  <1>2. ASSUME NEW n \in Nat, n \in Good PROVE n + 1 \in Good
    <2>1. X[n + 1] = Step(X[n]) /\ X[n] \in Word /\ X[n] # {}
      BY <1>2, XUnfolds
    <2> DEFINE x == X[n]
    <2>2. x \in SUBSET (0 .. Width - 1) /\ x # {}
      BY <2>1 DEF Word
    <2> HIDE DEF x
    <2>3. Step(x) # {}
      <3>1. CASE Width - 1 \in x
        <4>1. 0 \in Poly /\ 0 \notin {b + 1 : b \in x \ {Width - 1}}
          BY <2>2, PolyAssumption
        <4> QED
          BY <3>1, <4>1 DEF Step, Xor
      <3>2. CASE Width - 1 \notin x
        <4>1. PICK b \in x \ {Width - 1} : TRUE
          BY <2>2, <3>2
        <4>2. b + 1 \in {a + 1 : a \in x \ {Width - 1}}
          BY <4>1
        <4> QED
          BY <3>2, <4>2 DEF Step, Xor
      <3> QED
        BY <3>1, <3>2
    <2> QED
      BY <2>1, <2>3 DEF x
  <1> HIDE DEF Good
  <1>3. Nat \subseteq Good
    BY <1>1, <1>2, Induction
  <1> QED
    BY <1>3 DEF Good

(* A rank's stream starts where that of the ranks before it ends.          *)
LEMMA StreamStarts ==
  ASSUME NEW r \in Ranks
  PROVE  saved_initial_ran_val[r] = Value(<<r, 0>>)
  <1>1. Start(r) \in 0 .. N /\ Start(r) \in Nat
    BY Sizes, SMTT(30)
  <1>2. 4 * Start(r) \in Nat /\ 4 * Start(r) < 2^63
    BY <1>1, SeedBounds
  <1>3. generate_initial_xor_val(4 * Start(r)) = X[4 * Start(r)]
    BY <1>2, JumpCorrect
  <1>4. 4 * Start(r) + 0 = 4 * Start(r)
    BY <1>2
  <1>5. Value(<<r, 0>>) = X[4 * Start(r) + 0]
    BY DEF Value
  <1> QED
    BY <1>3, <1>4, <1>5, FirstRan

LEMMA StreamStep ==
  ASSUME NEW r \in Ranks, NEW n \in Nat
  PROVE  /\ Value(<<r, n + 1>>) = Step(Value(<<r, n>>))
         /\ Value(<<r, n>>) \in Word /\ Value(<<r, n>>) # {}
  <1>1. 4 * Start(r) + n \in Nat /\ 4 * Start(r) + (n + 1) = (4 * Start(r) + n) + 1
    <2>1. Start(r) \in Nat
      BY Sizes
    <2> QED
      BY <2>1
  <1>2. Value(<<r, n>>) = X[4 * Start(r) + n] /\ Value(<<r, n + 1>>) = X[4 * Start(r) + (n + 1)]
    BY DEF Value
  <1> QED
    BY <1>1, <1>2, XUnfolds, PowerNonEmpty

LEMMA UpdatesFinite ==
  /\ \A D \in SUBSET Updates : IsFiniteSet(D)
  /\ \A D \in SUBSET Updates : \A r, k, b : IsFiniteSet(Hits(D, r, k, b))
  /\ \A r \in Ranks, n \in Nat : 1 <= n /\ n <= iterations(r) => <<r, n>> \in Updates
  /\ \A u \in Updates : Value(u) \in Word /\ Value(u) # {}
  <1>1. IsFiniteSet(Ranks) /\ IsFiniteSet(1 .. 4 * N)
    <2>1. num_ranks - 1 \in Int /\ 4 * N \in Int /\ Ranks = 0 .. num_ranks - 1
      BY Sizes
    <2> QED
      BY <2>1, FS_Interval
  <1>2. IsFiniteSet(Ranks \X (1 .. 4 * N))
    BY <1>1, FS_Product
  <1>3. \A D \in SUBSET Updates : IsFiniteSet(D)
    BY <1>2, FS_Subset DEF Updates
  <1>4. \A D \in SUBSET Updates : \A r, k, b : IsFiniteSet(Hits(D, r, k, b))
    <2>1. \A D \in SUBSET Updates : \A r, k, b : Hits(D, r, k, b) \in SUBSET Updates
      BY DEF Hits
    <2> QED
      BY <1>3, <2>1
  <1>5. ASSUME NEW r \in Ranks, NEW n \in Nat, 1 <= n, n <= iterations(r)
        PROVE  <<r, n>> \in Updates
    <2>1. iterations(r) <= 4 * N
      <3>1. /\ local_table_size(N, num_ranks, r) \in Nat /\ Start(r) \in Nat
            /\ iterations(r) = 4 * local_table_size(N, num_ranks, r) /\ N \in Nat
        BY Sizes
      <3>2. Start(r) + local_table_size(N, num_ranks, r) <= N
        <4>1. CASE r = num_ranks - 1
          BY <3>1, <4>1, Sizes
        <4>2. CASE r # num_ranks - 1
          <5>1. r + 1 \in Ranks
            BY <4>2, Sizes
          <5>2. Start(r + 1) <= N
            BY <5>1, Sizes
          <5> QED
            BY <4>2, <5>2, Sizes
        <4> QED
          BY <4>1, <4>2
      <3> QED
        BY <3>1, <3>2
    <2>2. n \in 1 .. 4 * N
      <3>1. iterations(r) \in Nat /\ 4 * N \in Nat
        BY Sizes, SMTT(30)
      <3> QED
        BY <1>5, <2>1, <3>1
    <2> QED
      BY <1>5, <2>2 DEF Updates
  <1>6. ASSUME NEW u \in Updates PROVE Value(u) \in Word /\ Value(u) # {}
    <2>1. u[1] \in Ranks /\ u[2] \in Nat /\ u = <<u[1], u[2]>>
      BY Sizes DEF Updates
    <2> QED
      BY <2>1, StreamStep
  <1> QED
    BY <1>3, <1>4, <1>5, <1>6

LEMMA FlipXor ==
  ASSUME NEW S, IsFiniteSet(S), NEW a
  PROVE  Odd(Xor(S, {a})) <=> ~Odd(S)
  <1>1. CASE a \notin S
    <2>1. Xor(S, {a}) = S \cup {a}
      BY <1>1 DEF Xor
    <2> QED
      BY <1>1, <2>1, Flip DEF Odd
  <1>2. CASE a \in S
    <2> DEFINE T == S \ {a}
    <2>1. Xor(S, {a}) = T /\ a \notin T /\ T \cup {a} = S /\ T \subseteq S
      BY <1>2 DEF Xor
    <2>2. IsFiniteSet(T)
      BY <2>1, FS_Subset
    <2> HIDE DEF T
    <2>3. Odd(T \cup {a}) <=> ~Odd(T)
      BY <2>1, <2>2, Flip DEF Odd
    <2> QED
      BY <2>1, <2>3
  <1> QED
    BY <1>1, <1>2

LEMMA WordNone ==
  \A r, k : WordOf({}, r, k) = InitialWord(r, k)
  <1>1. \A r, k, b : Hits({}, r, k, b) = {}
    BY DEF Hits
  <1>2. ~Odd({})
    <2>1. Cardinality({}) = 0
      BY FS_EmptySet
    <2> QED
      BY <2>1 DEF Odd
  <1>3. \A r, k : InitialWord(r, k) \subseteq Bits
    BY DEF InitialWord, ToWord, Bits
  <1> QED
    BY <1>1, <1>2, <1>3 DEF WordOf

LEMMA WordType == \A D, r, k : WordOf(D, r, k) \in Word
  BY DEF WordOf, Word, Bits

(* One update more, or one less, is one xor.                               *)
LEMMA WordToggle ==
  ASSUME NEW D \in SUBSET Updates, NEW u \in Updates, NEW r, NEW k
  PROVE  WordOf(Xor(D, {u}), r, k) =
           IF Target(Value(u)) = [pe |-> r, index |-> k] THEN Xor(WordOf(D, r, k), Value(u))
                                                         ELSE WordOf(D, r, k)
  <1> DEFINE At == Target(Value(u)) = [pe |-> r, index |-> k]
             H(b) == Hits(D, r, k, b)
             G(b) == Hits(Xor(D, {u}), r, k, b)
  <1>1. ASSUME NEW b PROVE G(b) = IF At /\ b \in Value(u) THEN Xor(H(b), {u}) ELSE H(b)
    <2>1. CASE At /\ b \in Value(u)
      BY <2>1 DEF Hits, Xor
    <2>2. CASE ~(At /\ b \in Value(u))
      BY <2>2 DEF Hits, Xor
    <2> QED
      BY <2>1, <2>2
  <1>2. ASSUME NEW b PROVE Odd(Xor(H(b), {u})) <=> ~Odd(H(b))
    BY UpdatesFinite, FlipXor
  <1>3. Value(u) \subseteq Bits
    BY UpdatesFinite DEF Word, Bits
  <1> HIDE DEF At
  <1>4. ASSUME NEW b \in Bits
        PROVE  b \in WordOf(Xor(D, {u}), r, k)
                 <=> IF At /\ b \in Value(u) THEN b \notin WordOf(D, r, k) ELSE b \in WordOf(D, r, k)
    BY <1>1, <1>2 DEF WordOf
  <1>5. WordOf(Xor(D, {u}), r, k) \subseteq Bits /\ WordOf(D, r, k) \subseteq Bits
    BY DEF WordOf
  <1>6. CASE At
    <2>1. Xor(WordOf(D, r, k), Value(u)) \subseteq Bits
      BY <1>3, <1>5 DEF Xor
    <2>2. ASSUME NEW b \in Bits
          PROVE  b \in WordOf(Xor(D, {u}), r, k) <=> b \in Xor(WordOf(D, r, k), Value(u))
      BY <1>4, <1>6 DEF Xor
    <2>3. WordOf(Xor(D, {u}), r, k) = Xor(WordOf(D, r, k), Value(u))
      BY <1>5, <2>1, <2>2
    <2> QED
      BY <1>6, <2>3 DEF At
  <1>7. CASE ~At
    <2>1. WordOf(Xor(D, {u}), r, k) = WordOf(D, r, k)
      BY <1>4, <1>5, <1>7
    <2> QED
      BY <1>7, <2>1 DEF At
  <1> QED
    BY <1>6, <1>7

(* An update that is not made shows in the one word it is for.             *)
LEMMA WordSingle ==
  ASSUME NEW u \in Updates, NEW r, NEW k
  PROVE  WordOf({u}, r, k) # InitialWord(r, k) <=> Target(Value(u)) = [pe |-> r, index |-> k]
  <1>1. Xor({}, {u}) = {u} /\ {} \in SUBSET Updates
    BY DEF Xor
  <1>2. WordOf(Xor({}, {u}), r, k) =
           IF Target(Value(u)) = [pe |-> r, index |-> k] THEN Xor(WordOf({}, r, k), Value(u))
                                                         ELSE WordOf({}, r, k)
    BY <1>1, WordToggle
  <1>3. \A a, c : c # {} => Xor(a, c) # a
    BY DEF Xor
  <1>4. Value(u) # {}
    BY UpdatesFinite
  <1> QED
    BY <1>1, <1>2, <1>3, <1>4, WordNone

-----------------------------------------------------------------------------
(* Steps and the contents of the table                                     *)
LEMMA TableInit ==
  ASSUME Init
  PROVE  TableInv
  <1>1. Pos["begin"] = 1
    BY Positions
  <1>2. ASSUME NEW r \in Ranks
        PROVE  /\ colls[r] = 1 /\ pc[r] = "coll" /\ v[r] = 0 /\ num_errors[r] = 0
    BY DEF Init
  <1>3. lost = 0
    BY DEF Init
  <1>4. Streams
    BY <1>2, <1>3 DEF Streams, StreamOf, Busy
  <1>5. Contents
    BY <1>2, <1>3 DEF Contents, ContentsOf, Shows
  <1>6. ASSUME NEW r \in Ranks PROVE CountOf(r)
    <2>1. Differ(r) = {}
      <3>1. \A k \in Local(r) : ~(k < 0)
        <4>1. Local(r) = 0 .. local_table_size(N, num_ranks, r) - 1 /\ local_table_size(N, num_ranks, r) \in Nat
          BY Sizes
        <4> QED
          BY <4>1
      <3> QED
        BY <1>2, <3>1 DEF Differ
    <2> QED
      BY <1>2, <2>1, FS_EmptySet DEF CountOf
  <1> QED
    BY <1>4, <1>5, <1>6 DEF TableInv, Counts

(* Steps that make no update                                               *)
LEMMA ContentsStill ==
  ASSUME Contents, table' = table, lost' = lost, Made' = Made,
         \A q \in Ranks : colls'[q] >= 15 => colls[q] >= 15
  PROVE  Contents'
  <1>1. \A D : Shows(table, colls, D) => Shows(table, colls', D)
    BY DEF Shows
  <1> QED
    BY <1>1 DEF Contents, ContentsOf

LEMMA MadeStill ==
  ASSUME \A q \in Ranks : MadeOf(q)' = MadeOf(q)
  PROVE  Made' = Made
  <1>1. \A u \in Updates : u[1] \in Ranks
    BY DEF Updates
  <1> QED
    BY <1>1 DEF Made

LEMMA StreamSame ==
  ASSUME NEW q \in Ranks, StreamOf(q), pc'[q] = pc[q], i'[q] = i[q], ran'[q] = ran[q],
         colls'[q] <= 14 => colls[q] <= 14, lost' = lost
  PROVE  StreamOf(q)'
  BY DEF StreamOf, Busy

LEMMA MadeSame ==
  ASSUME NEW q \in Ranks, pc'[q] = pc[q], i'[q] = i[q], out'[q] = out[q], colls'[q] = colls[q]
  PROVE  MadeOf(q)' = MadeOf(q)
  BY DEF MadeOf, Busy, Carried

LEMMA CountSame ==
  ASSUME NEW q \in Ranks, CountOf(q), pc'[q] = pc[q], colls'[q] = colls[q], table'[q] = table[q],
         v'[q] = v[q], num_errors'[q] = num_errors[q],
         global_num_errors'[q] = global_num_errors[q], lost' = lost
  PROVE  CountOf(q)'
  <1>1. Differ(q)' = Differ(q)
    BY DEF Differ
  <1> QED
    BY <1>1 DEF CountOf

(* What a step of r leaves to the other ranks                              *)
OthersSame(r) ==
  \A q \in Ranks \ {r} :
    /\ pc'[q] = pc[q] /\ colls'[q] = colls[q] /\ table'[q] = table[q]
    /\ i'[q] = i[q] /\ ran'[q] = ran[q] /\ out'[q] = out[q]
    /\ v'[q] = v[q] /\ num_errors'[q] = num_errors[q]
    /\ global_num_errors'[q] = global_num_errors[q]

LEMMA OneRank ==
  ASSUME TableInv, NEW r \in Ranks, OthersSame(r), lost' = lost, table' = table,
         MadeOf(r)' = MadeOf(r), StreamOf(r)', CountOf(r)',
         colls'[r] >= 15 => colls[r] >= 15
  PROVE  TableInv'
  <1>1. ASSUME NEW q \in Ranks PROVE StreamOf(q)' /\ MadeOf(q)' = MadeOf(q) /\ CountOf(q)'
    <2>1. CASE q = r
      BY <2>1
    <2>2. CASE q # r
      <3>1. /\ pc'[q] = pc[q] /\ colls'[q] = colls[q] /\ table'[q] = table[q]
            /\ i'[q] = i[q] /\ ran'[q] = ran[q] /\ out'[q] = out[q]
            /\ v'[q] = v[q] /\ num_errors'[q] = num_errors[q]
            /\ global_num_errors'[q] = global_num_errors[q]
        BY <2>2 DEF OthersSame
      <3>2. StreamOf(q) /\ CountOf(q)
        BY DEF TableInv, Streams, Counts
      <3>3. StreamOf(q)'
        BY <3>1, <3>2, StreamSame
      <3>4. CountOf(q)'
        BY <3>1, <3>2, CountSame
      <3>5. MadeOf(q)' = MadeOf(q)
        BY <3>1, MadeSame
      <3> QED
        BY <3>3, <3>4, <3>5
    <2> QED
      BY <2>1, <2>2
  <1>2. Made' = Made
    BY <1>1, MadeStill
  <1>3. \A q \in Ranks : colls'[q] >= 15 => colls[q] >= 15
    BY DEF OthersSame
  <1>4. Contents'
    BY <1>2, <1>3, ContentsStill DEF TableInv
  <1> QED
    BY <1>1, <1>4 DEF TableInv, Streams, Counts

(* A rank enters a collective after which its part of the set of updates   *)
(* and its counters mean the same.                                         *)
LEMMA EnterEffect ==
  ASSUME Control, NEW r \in Ranks, NEW name, EnterColl(r, name)
  PROVE  /\ pc'[r] = "coll" /\ colls'[r] = colls[r] + 1 /\ colls[r] \in 1 .. 27
         /\ \A q \in Ranks \ {r} : pc'[q] = pc[q] /\ colls'[q] = colls[q]
  BY DEF Control, EnterColl, Set

LEMMA EnterTable ==
  ASSUME Control, TableInv, NEW r \in Ranks, NEW name, EnterColl(r, name),
         pc[r] = "coll", colls[r] \notin {14, 15, 20, 21, 23}, UNCHANGED <<updVars, verVars>>
  PROVE  TableInv'
  <1>1. /\ pc'[r] = "coll" /\ colls'[r] = colls[r] + 1 /\ colls[r] \in 1 .. 27
        /\ \A q \in Ranks \ {r} : pc'[q] = pc[q] /\ colls'[q] = colls[q]
    BY EnterEffect
  <1>2. UNCHANGED <<table, i, ran, out, lost, v, num_errors, global_num_errors>>
    BY DEF updVars, verVars
  <1>3. OthersSame(r)
    BY <1>1, <1>2 DEF OthersSame
  <1>4. StreamOf(r) /\ CountOf(r)
    BY DEF TableInv, Streams, Counts
  <1>5. MadeOf(r)' = MadeOf(r)
    <2>1. ~Busy(r) /\ ~Busy(r)'
      BY <1>1 DEF Busy
    <2>2. colls[r] <= 15 <=> colls'[r] <= 15
      BY <1>1
    <2>3. colls[r] <= 20 <=> colls'[r] <= 20
      BY <1>1
    <2> QED
      BY <2>1, <2>2, <2>3 DEF MadeOf
  <1>6. StreamOf(r)'
    BY <1>1, <1>2, <1>4 DEF StreamOf, Busy
  <1>7. CountOf(r)'
    <2>1. Differ(r)' = Differ(r)
      BY <1>2 DEF Differ
    <2> QED
      BY <1>1, <1>2, <1>4, <2>1 DEF CountOf
  <1>8. colls'[r] >= 15 => colls[r] >= 15
    BY <1>1
  <1> QED
    BY <1>2, <1>3, <1>5, <1>6, <1>7, <1>8, OneRank

LEMMA PassingTable ==
  ASSUME ControlInv, TableInv, NEW r \in Ranks,
         \/ Allocate(r) \/ ReduceAbort(r) \/ Decide(r) \/ Pass(r) \/ Updated(r) \/ UpdateAgain(r)
         \/ Release(r) \/ Fini(r)
  PROVE  TableInv'
  <1>1. Control /\ Places
    BY DEF ControlInv
  <1>2. PICK name, next : Leaves(r, name) /\ EnterColl(r, next) /\ UNCHANGED <<updVars, verVars>>
                          /\ at[r] \in {1, 2, 3, 4, 16, 17, 18, 19, 22, 24, 25, 26} \cup 5 .. 13
    <2>1. CASE Allocate(r)
      BY <1>1, <2>1, Leaving, Positions DEF Allocate
    <2>2. CASE ReduceAbort(r)
      BY <1>1, <2>2, Leaving, Positions DEF ReduceAbort
    <2>3. CASE Decide(r)
      BY <1>1, <2>3, Leaving, Positions DEF Decide
    <2>4. CASE Pass(r)
      <3>1. at[r] \in 1 .. 27
        BY <1>1 DEF Control
      <3>2. at[r] \in {2, 17, 18, 22, 25} \cup 5 .. 13
        BY <2>4, <3>1, PassedPlaces DEF Pass
      <3> QED
        BY <2>4, <3>2 DEF Pass
    <2>5. CASE Updated(r)
      BY <1>1, <2>5, Leaving, Positions DEF Updated
    <2>6. CASE UpdateAgain(r)
      BY <1>1, <2>6, Leaving, Positions DEF UpdateAgain
    <2>7. CASE Release(r)
      BY <1>1, <2>7, Leaving, Positions DEF Release
    <2>8. CASE Fini(r)
      BY <1>1, <2>8, Leaving, Positions DEF Fini
    <2> QED
      BY <2>1, <2>2, <2>3, <2>4, <2>5, <2>6, <2>7, <2>8
  <1>3. pc[r] = "coll" /\ at[r] = PlaceAfter(colls[r], Aborting) /\ colls[r] \in 1 .. 27
    BY <1>1, <1>2, Leaving
  <1>4. colls[r] \notin {14, 15, 20, 21, 23}
    BY <1>2, <1>3 DEF PlaceAfter
  <1> QED
    BY <1>1, <1>2, <1>3, <1>4, EnterTable

LEMMA EndUpdatesTable ==
  ASSUME ControlInv, DataInv, TableInv, NEW r \in Ranks, EndUpdates(r)
  PROVE  TableInv'
  <1>1. Control /\ Places /\ DataTypes /\ Flows
    BY DEF ControlInv, DataInv
  <1>2. /\ pc[r] = "update" /\ i[r] = iterations(r) /\ EnterColl(r, Script[at[r] + 1])
        /\ UNCHANGED <<table, i, ran, out, lost, v, num_errors, global_num_errors>>
    BY DEF EndUpdates, updVars, verVars
  <1>3. /\ pc'[r] = "coll" /\ colls'[r] = colls[r] + 1
        /\ \A q \in Ranks \ {r} : pc'[q] = pc[q] /\ colls'[q] = colls[q]
    BY <1>1, <1>2, EnterEffect
  <1>4. colls[r] \in {15, 20} /\ out[r] = {} /\ iterations(r) \in Nat
    BY <1>1, <1>2, Sizes DEF Places, PlaceOf, Flows, Idle
  <1>5. OthersSame(r)
    BY <1>2, <1>3 DEF OthersSame
  <1>6. StreamOf(r) /\ CountOf(r)
    BY DEF TableInv, Streams, Counts
  <1>7. Busy(r) /\ ~Busy(r)' /\ Carried(r) = iterations(r)
    BY <1>2, <1>3, <1>4 DEF Busy, Carried
  <1>8. MadeOf(r)' = MadeOf(r)
    <2>1. CASE colls[r] = 15
      <3>1. colls'[r] = 16
        BY <1>3, <2>1
      <3> QED
        BY <1>7, <2>1, <3>1 DEF MadeOf
    <2>2. CASE colls[r] = 20
      <3>1. colls'[r] = 21
        BY <1>3, <2>2
      <3>2. iterations(r) + 1 .. iterations(r) = {}
        BY <1>4
      <3> QED
        BY <1>7, <2>2, <3>1, <3>2 DEF MadeOf
    <2> QED
      BY <1>4, <2>1, <2>2
  <1>9. StreamOf(r)'
    BY <1>3, <1>4, <1>7 DEF StreamOf
  <1>10. CountOf(r)'
    <2>1. Differ(r)' = Differ(r)
      BY <1>2 DEF Differ
    <2> QED
      BY <1>2, <1>3, <1>4, <1>6, <2>1 DEF CountOf
  <1> QED
    BY <1>2, <1>3, <1>4, <1>5, <1>8, <1>9, <1>10, OneRank

LEMMA StartUpdatesTable ==
  ASSUME ControlInv, DataInv, TableInv, NEW r \in Ranks, StartUpdates(r)
  PROVE  TableInv'
  <1>1. Control /\ Places /\ DataTypes /\ Flows
    BY DEF ControlInv, DataInv
  <1>2. /\ pc[r] = "coll" /\ pc' = [pc EXCEPT ![r] = "update"] /\ i' = [i EXCEPT ![r] = 0]
        /\ ran' = [ran EXCEPT ![r] = saved_initial_ran_val[r]]
        /\ UNCHANGED <<colls, table, out, lost, v, num_errors, global_num_errors>>
    BY DEF StartUpdates, Leaves, Set, verVars
  <1>3. pc'[r] = "update" /\ i'[r] = 0 /\ ran'[r] = Value(<<r, 0>>)
    BY <1>1, <1>2, StreamStarts DEF Control, DataTypes
  <1>4. colls[r] \in {15, 20} /\ colls[r] \in 1 .. 27
    <2>1. CASE Leaves(r, "update1")
      <3>1. at[r] = Pos["update1"] /\ at[r] = PlaceAfter(colls[r], Aborting) /\ colls[r] \in 1 .. 27
        BY <1>1, <2>1, Leaving
      <3>2. Pos["update1"] = 15
        BY Positions
      <3>3. 15 = PlaceAfter(colls[r], Aborting)
        BY <3>1, <3>2
      <3>4. colls[r] = 15
        BY <3>1, <3>3 DEF PlaceAfter
      <3> QED
        BY <3>1, <3>4
    <2>2. CASE Leaves(r, "update2")
      <3>1. at[r] = Pos["update2"] /\ at[r] = PlaceAfter(colls[r], Aborting) /\ colls[r] \in 1 .. 27
        BY <1>1, <2>2, Leaving
      <3>2. Pos["update2"] = 20
        BY Positions
      <3>3. 20 = PlaceAfter(colls[r], Aborting)
        BY <3>1, <3>2
      <3>4. colls[r] = 20
        BY <3>1, <3>3 DEF PlaceAfter
      <3> QED
        BY <3>1, <3>4
    <2> QED
      BY <2>1, <2>2 DEF StartUpdates
  <1>5. OthersSame(r)
    BY <1>1, <1>2 DEF OthersSame, Control, DataTypes
  <1>6. StreamOf(r) /\ CountOf(r)
    BY DEF TableInv, Streams, Counts
  <1>7. out'[r] = {}
    BY <1>1, <1>2 DEF Flows, Idle
  <1>8. ~Busy(r) /\ Busy(r)' /\ Carried(r)' = 0
    BY <1>2, <1>3, <1>7 DEF Busy, Carried
  <1>9. MadeOf(r)' = MadeOf(r)
    <2>1. CASE colls[r] = 15
      <3>1. 1 .. 0 = {}
        OBVIOUS
      <3> QED
        BY <1>2, <1>8, <2>1, <3>1 DEF MadeOf
    <2>2. CASE colls[r] = 20
      <3>1. 0 + 1 = 1
        OBVIOUS
      <3> QED
        BY <1>2, <1>8, <2>2, <3>1 DEF MadeOf
    <2> QED
      BY <1>4, <2>1, <2>2
  <1>10. StreamOf(r)'
    BY <1>2, <1>3, <1>4, <1>6 DEF StreamOf
  <1>11. CountOf(r)'
    <2>1. Differ(r)' = Differ(r)
      BY <1>2 DEF Differ
    <2> QED
      BY <1>2, <1>4, <1>6, <2>1 DEF CountOf
  <1> QED
    BY <1>2, <1>5, <1>9, <1>10, <1>11, OneRank

LEMMA PostXorTable ==
  ASSUME ControlInv, DataInv, TableInv, NEW r \in Ranks, PostXor(r)
  PROVE  TableInv'
  <1>1. Control /\ Places /\ DataTypes /\ Flows
    BY DEF ControlInv, DataInv
  <1>2. /\ pc[r] = "update" /\ pc' = [pc EXCEPT ![r] = "wait"] /\ i' = [i EXCEPT ![r] = @ + 1]
        /\ ran' = [ran EXCEPT ![r] = Step(ran[r])]
        /\ out' = [out EXCEPT ![r] = @ \cup {Target(ran'[r])}]
        /\ UNCHANGED <<colls, table, lost, v, num_errors, global_num_errors>>
    BY DEF PostXor, Set, verVars
  <1>3. i[r] \in Nat /\ out[r] = {} /\ colls[r] \in {15, 20}
    BY <1>1, <1>2 DEF DataTypes, Flows, Idle, Places, PlaceOf
  <1>4. StreamOf(r) /\ CountOf(r)
    BY DEF TableInv, Streams, Counts
  <1>5. pc'[r] = "wait" /\ i'[r] = i[r] + 1 /\ ran'[r] = Step(ran[r]) /\ out'[r] # {}
    BY <1>1, <1>2 DEF Control, DataTypes
  <1>6. ran'[r] = Value(<<r, i[r] + 1>>)
    BY <1>2, <1>3, <1>4, <1>5, StreamStep DEF StreamOf, Busy
  <1>7. OthersSame(r)
    BY <1>1, <1>2 DEF OthersSame, Control, DataTypes
  <1>8. Carried(r)' = Carried(r) /\ Busy(r) /\ Busy(r)'
    BY <1>2, <1>3, <1>5 DEF Carried, Busy
  <1>9. MadeOf(r)' = MadeOf(r)
    BY <1>2, <1>8 DEF MadeOf
  <1>10. StreamOf(r)'
    BY <1>2, <1>3, <1>4, <1>5, <1>6 DEF StreamOf
  <1>11. CountOf(r)'
    <2>1. Differ(r)' = Differ(r)
      BY <1>2 DEF Differ
    <2> QED
      BY <1>2, <1>3, <1>4, <1>5, <2>1 DEF CountOf
  <1> QED
    BY <1>2, <1>7, <1>9, <1>10, <1>11, OneRank

LEMMA WaitTable ==
  ASSUME ControlInv, DataInv, TableInv, NEW r \in Ranks, wait_for_comp(r)
  PROVE  TableInv'
  <1>1. Control /\ Places /\ DataTypes /\ Flows
    BY DEF ControlInv, DataInv
  <1>2. /\ pc[r] = "wait" /\ pc' = [pc EXCEPT ![r] = "update"]
        /\ UNCHANGED <<colls, table, i, ran, out, lost, v, num_errors, global_num_errors>>
    BY DEF wait_for_comp, Set, verVars
  <1>3. StreamOf(r) /\ CountOf(r)
    BY DEF TableInv, Streams, Counts
  <1>4. pc'[r] = "update"
    BY <1>1, <1>2 DEF Control
  <1>5. OthersSame(r)
    BY <1>1, <1>2 DEF OthersSame, Control
  <1>6. Carried(r)' = Carried(r) /\ Busy(r) /\ Busy(r)'
    BY <1>2, <1>4 DEF Carried, Busy
  <1>7. MadeOf(r)' = MadeOf(r)
    BY <1>2, <1>6 DEF MadeOf
  <1>8. StreamOf(r)'
    BY <1>2, <1>3, <1>4, <1>6 DEF StreamOf
  <1>9. CountOf(r)'
    <2>1. Differ(r)' = Differ(r)
      BY <1>2 DEF Differ
    <2>2. colls[r] \in {15, 20}
      BY <1>1, <1>2 DEF Places, PlaceOf
    <2> QED
      BY <1>2, <1>3, <1>4, <2>1, <2>2 DEF CountOf
  <1> QED
    BY <1>2, <1>5, <1>7, <1>8, <1>9, OneRank

(* A rank begins to verify, or is done.                                    *)
LEMMA MoveTable ==
  ASSUME ControlInv, TableInv, NEW r \in Ranks, StartVerify(r) \/ Exit(r)
  PROVE  TableInv'
  <1>1. Control
    BY DEF ControlInv
  <1>2. /\ pc[r] = "coll"
        /\ pc' = Set(pc, r, "verify") \/ pc' = Set(pc, r, "done")
        /\ UNCHANGED <<colls, table, i, ran, out, lost, v, num_errors, global_num_errors>>
    BY DEF StartVerify, Exit, Leaves, updVars, verVars
  <1>3. StreamOf(r) /\ CountOf(r)
    BY DEF TableInv, Streams, Counts
  <1>4. pc'[r] \in {"verify", "done"}
    BY <1>1, <1>2 DEF Control, Set
  <1>5. OthersSame(r)
    BY <1>1, <1>2 DEF OthersSame, Control, Set
  <1>6. ~Busy(r) /\ ~Busy(r)'
    BY <1>2, <1>4 DEF Busy
  <1>7. MadeOf(r)' = MadeOf(r)
    BY <1>2, <1>6 DEF MadeOf
  <1>8. StreamOf(r)'
    BY <1>2, <1>3, <1>4, <1>6 DEF StreamOf
  <1>9. CountOf(r)'
    <2>1. Differ(r)' = Differ(r)
      BY <1>2 DEF Differ
    <2> QED
      BY <1>2, <1>3, <1>4, <2>1 DEF CountOf
  <1> QED
    BY <1>2, <1>5, <1>7, <1>8, <1>9, OneRank

(* A word more is verified.                                                *)
LEMMA VerifyWordTable ==
  ASSUME ControlInv, DataInv, TableInv, NEW r \in Ranks, VerifyWord(r)
  PROVE  TableInv'
  <1>1. Control /\ Places /\ DataTypes /\ Verified
    BY DEF ControlInv, DataInv
  <1> DEFINE d == IF table[r][v[r]] # InitialWord(r, v[r]) THEN 1 ELSE 0
  <1>2. /\ pc[r] = "verify" /\ v[r] \in Local(r) /\ v' = [v EXCEPT ![r] = @ + 1]
        /\ num_errors' = [num_errors EXCEPT ![r] = @ + d]
        /\ UNCHANGED <<pc, colls, table, i, ran, out, lost, global_num_errors>>
    BY DEF VerifyWord, updVars
  <1>3. v'[r] = v[r] + 1 /\ num_errors'[r] = num_errors[r] + d /\ v[r] \in Nat
    BY <1>1, <1>2 DEF Verified
  <1>4. StreamOf(r) /\ CountOf(r)
    BY DEF TableInv, Streams, Counts
  <1>5. OthersSame(r)
    BY <1>1, <1>2 DEF OthersSame, Verified
  <1>6. MadeOf(r)' = MadeOf(r) /\ StreamOf(r)'
    BY <1>2, <1>4 DEF MadeOf, StreamOf, Busy, Carried
  <1>7. colls[r] = 21
    BY <1>1, <1>2 DEF Places, PlaceOf
  <1>8. Local(r) = 0 .. local_table_size(N, num_ranks, r) - 1 /\ local_table_size(N, num_ranks, r) \in Nat
    BY Sizes
  <1>9. IsFiniteSet(Differ(r)) /\ v[r] \notin Differ(r)
    <2>1. IsFiniteSet(0 .. local_table_size(N, num_ranks, r) - 1)
      BY <1>8, FS_Interval
    <2>2. Differ(r) \subseteq Local(r)
      BY DEF Differ
    <2>3. IsFiniteSet(Differ(r))
      BY <1>8, <2>1, <2>2, FS_Subset
    <2> QED
      BY <1>3, <2>3 DEF Differ
  <1>10. \A k \in Local(r) : k < v[r] + 1 <=> k < v[r] \/ k = v[r]
    BY <1>3, <1>8
  <1>11. num_errors'[r] = Cardinality(Differ(r)')
    <2>1. CASE d = 1
      <3>1. Differ(r)' = Differ(r) \cup {v[r]}
        BY <1>2, <1>3, <1>10, <2>1 DEF Differ
      <3>2. Cardinality(Differ(r) \cup {v[r]}) = Cardinality(Differ(r)) + 1
        BY <1>9, FS_AddElement
      <3> HIDE DEF d
      <3> QED
        BY <1>3, <1>4, <2>1, <3>1, <3>2 DEF CountOf
    <2>2. CASE d = 0
      <3>1. Differ(r)' = Differ(r)
        BY <1>2, <1>3, <1>10, <2>2 DEF Differ
      <3> HIDE DEF d
      <3>2. num_errors[r] \in Nat
        BY <1>1 DEF Verified
      <3> QED
        BY <1>3, <1>4, <2>2, <3>1, <3>2 DEF CountOf
    <2> QED
      BY <2>1, <2>2
  <1>12. CountOf(r)'
    BY <1>2, <1>7, <1>11 DEF CountOf
  <1> QED
    BY <1>2, <1>5, <1>6, <1>12, OneRank

LEMMA EndVerifyTable ==
  ASSUME ControlInv, DataInv, TableInv, NEW r \in Ranks, EndVerify(r)
  PROVE  TableInv'
  <1>1. Control /\ Places /\ Verified
    BY DEF ControlInv, DataInv
  <1>2. /\ pc[r] = "verify" /\ v[r] \notin Local(r) /\ EnterColl(r, "verified")
        /\ UNCHANGED <<table, i, ran, out, lost, v, num_errors, global_num_errors>>
    BY DEF EndVerify, updVars, verVars
  <1>3. /\ pc'[r] = "coll" /\ colls'[r] = colls[r] + 1
        /\ \A q \in Ranks \ {r} : pc'[q] = pc[q] /\ colls'[q] = colls[q]
    BY <1>1, <1>2, EnterEffect
  <1>4. colls[r] = 21 /\ colls'[r] = 22
    BY <1>1, <1>2, <1>3 DEF Places, PlaceOf
  <1>5. OthersSame(r)
    BY <1>2, <1>3 DEF OthersSame
  <1>6. StreamOf(r) /\ CountOf(r)
    BY DEF TableInv, Streams, Counts
  <1>7. MadeOf(r)' = MadeOf(r) /\ StreamOf(r)'
    BY <1>2, <1>3, <1>4, <1>6 DEF MadeOf, StreamOf, Busy
  <1>8. v[r] = Cardinality(Local(r))
    <2>1. /\ Local(r) = 0 .. local_table_size(N, num_ranks, r) - 1
          /\ local_table_size(N, num_ranks, r) \in Nat
          /\ Cardinality(Local(r)) = local_table_size(N, num_ranks, r)
      BY Sizes
    <2>2. v[r] \in Nat /\ v[r] <= Cardinality(Local(r))
      BY <1>1 DEF Verified
    <2> QED
      BY <1>2, <2>1, <2>2
  <1>9. CountOf(r)'
    <2>1. Differ(r)' = Differ(r)
      BY <1>2 DEF Differ
    <2> QED
      BY <1>2, <1>3, <1>4, <1>6, <1>8, <2>1 DEF CountOf
  <1> QED
    BY <1>2, <1>4, <1>5, <1>7, <1>9, OneRank

(* All the words are initialised before the first update, and none is lost *)
(* before.                                                                 *)
LEMMA InitTableTable ==
  ASSUME ControlInv, DataInv, TableInv, NEW r \in Ranks, InitTable(r)
  PROVE  TableInv'
  <1>1. Control /\ Places /\ Abreast /\ DataTypes /\ Verified
    BY DEF ControlInv, DataInv
  <1>2. /\ table' = [table EXCEPT ![r] = [k \in Local(r) |-> InitialWord(r, k)]]
        /\ EnterColl(r, "update1") /\ Leaves(r, "x_end") /\ pc[r] = "coll"
        /\ UNCHANGED <<i, ran, out, lost, v, num_errors, global_num_errors>>
    BY DEF InitTable, Set, Leaves, verVars
  <1>3. /\ pc'[r] = "coll" /\ colls'[r] = colls[r] + 1
        /\ \A q \in Ranks \ {r} : pc'[q] = pc[q] /\ colls'[q] = colls[q]
    BY <1>1, <1>2, EnterEffect
  <1>4. colls[r] = 14
    <2>1. at[r] = Pos["x_end"] /\ at[r] = PlaceAfter(colls[r], Aborting) /\ colls[r] \in 1 .. 27
      BY <1>1, <1>2, Leaving
    <2>2. Pos["x_end"] = 14
      BY Positions
    <2>3. 14 = PlaceAfter(colls[r], Aborting)
      BY <2>1, <2>2
    <2> QED
      BY <2>1, <2>3 DEF PlaceAfter
  <1>5. ASSUME NEW q \in Ranks PROVE colls[q] <= 15 /\ ~Busy(q) /\ MadeOf(q) = {}
    <2>1. colls[q] \in 1 .. 27 /\ colls[q] <= colls[r] + 1 /\ (pc[q] # "coll" => colls[q] <= colls[r])
      BY <1>1 DEF Control, Abreast
    <2>2. ~Busy(q)
      BY <1>1, <1>4, <2>1 DEF Busy, Places, PlaceOf
    <2> QED
      BY <1>4, <2>1, <2>2 DEF MadeOf
  <1>6. /\ table'[r] = [k \in Local(r) |-> InitialWord(r, k)]
        /\ \A q \in Ranks \ {r} : table'[q] = table[q]
    BY <1>1, <1>2 DEF DataTypes
  <1>7. OthersSame(r)
    BY <1>2, <1>3, <1>6 DEF OthersSame
  <1>8. StreamOf(r) /\ CountOf(r) /\ lost = 0 /\ Shows(table, colls, Made)
    BY <1>4 DEF TableInv, Streams, StreamOf, Counts, Contents, ContentsOf
  <1>9. ASSUME NEW q \in Ranks PROVE StreamOf(q)' /\ MadeOf(q)' = MadeOf(q) /\ CountOf(q)'
    <2>1. CASE q = r
      <3>1. StreamOf(r)' /\ MadeOf(r)' = MadeOf(r)
        BY <1>2, <1>3, <1>4, <1>5 DEF StreamOf, MadeOf, Busy
      <3>2. CountOf(r)'
        <4>1. v[r] = 0 /\ num_errors[r] = 0
          BY <1>1, <1>2, <1>4, <1>8 DEF CountOf, Verified
        <4>2. Differ(r)' = {}
          <5>1. /\ Local(r) = 0 .. local_table_size(N, num_ranks, r) - 1
                /\ local_table_size(N, num_ranks, r) \in Nat
            BY Sizes
          <5>2. \A k \in Local(r) : ~(k < 0)
            BY <5>1
          <5> QED
            BY <1>2, <4>1, <5>2 DEF Differ
        <4> QED
          BY <1>2, <1>3, <1>4, <4>1, <4>2, FS_EmptySet DEF CountOf
      <3> QED
        BY <2>1, <3>1, <3>2
    <2>2. CASE q # r
      <3>1. /\ pc'[q] = pc[q] /\ colls'[q] = colls[q] /\ table'[q] = table[q]
            /\ i'[q] = i[q] /\ ran'[q] = ran[q] /\ out'[q] = out[q]
            /\ v'[q] = v[q] /\ num_errors'[q] = num_errors[q]
            /\ global_num_errors'[q] = global_num_errors[q]
        BY <1>7, <2>2 DEF OthersSame
      <3>2. StreamOf(q) /\ CountOf(q) /\ lost' = lost
        BY <1>2 DEF TableInv, Streams, Counts
      <3> QED
        BY <3>1, <3>2, StreamSame, CountSame, MadeSame
    <2> QED
      BY <2>1, <2>2
  <1>10. Made = {} /\ Made' = {}
    <2>1. Made = {}
      BY <1>5 DEF Made, Updates
    <2>2. Made' = Made
      BY <1>9, MadeStill
    <2> QED
      BY <2>1, <2>2
  <1>11. Shows(table', colls', {})
    <2> SUFFICES ASSUME NEW q \in Ranks, colls'[q] >= 15, NEW k \in Local(q)
                 PROVE  table'[q][k] = WordOf({}, q, k)
      BY DEF Shows
    <2>1. CASE q = r
      BY <1>6, <2>1, WordNone
    <2>2. CASE q # r
      <3>1. colls[q] >= 15 /\ table'[q][k] = table[q][k]
        BY <1>3, <1>6, <2>2
      <3> QED
        BY <1>8, <1>10, <3>1 DEF Shows
    <2> QED
      BY <2>1, <2>2
  <1>12. Contents'
    BY <1>2, <1>8, <1>10, <1>11 DEF Contents, ContentsOf
  <1> QED
    BY <1>9, <1>12 DEF TableInv, Streams, Counts

(* An update is carried out, or lost.                                      *)
LEMMA ToggleShows ==
  ASSUME NEW D \in SUBSET Updates, NEW u \in Updates, Shows(table, colls, D), DataTypes,
         NEW op \in Targets, op = Target(Value(u)), \A q \in Ranks : colls[q] >= 15,
         table' = [table EXCEPT ![op.pe][op.index] = Xor(@, Value(u))]
  PROVE  Shows(table', colls, Xor(D, {u}))
  <1> SUFFICES ASSUME NEW r \in Ranks, NEW k \in Local(r)
               PROVE  table'[r][k] = WordOf(Xor(D, {u}), r, k)
    BY DEF Shows
  <1>1. table[r][k] = WordOf(D, r, k)
    BY DEF Shows
  <1>2. WordOf(Xor(D, {u}), r, k) =
           IF op = [pe |-> r, index |-> k] THEN Xor(WordOf(D, r, k), Value(u)) ELSE WordOf(D, r, k)
    BY WordToggle
  <1>3. op.pe \in Ranks /\ op.index \in Local(op.pe) /\ op = [pe |-> op.pe, index |-> op.index]
    BY DEF Targets
  <1>4. table[op.pe] \in [Local(op.pe) -> Word] /\ table[r] \in [Local(r) -> Word]
    BY <1>3 DEF DataTypes
  <1>5. table'[r][k] = IF op.pe = r /\ op.index = k THEN Xor(table[r][k], Value(u)) ELSE table[r][k]
    BY <1>3, <1>4 DEF DataTypes
  <1>6. op = [pe |-> r, index |-> k] <=> op.pe = r /\ op.index = k
    BY <1>3
  <1> QED
    BY <1>1, <1>2, <1>5, <1>6

LEMMA CompleteMade ==
  ASSUME ControlInv, DataInv, TableInv, NEW r \in Ranks, pc[r] = "wait",
         out[r] # {}, out'[r] = {}, \A q \in Ranks \ {r} : out'[q] = out[q],
         UNCHANGED <<pc, i, colls>>
  PROVE  /\ <<r, i[r]>> \in Updates
         /\ Made' = Xor(Made, {<<r, i[r]>>})
         /\ \A q \in Ranks : colls[q] >= 15 /\ colls[q] <= 21 /\ (pc[q] = "verify" => FALSE)
  <1>1. Control /\ Places /\ Abreast /\ DataTypes
    BY DEF ControlInv, DataInv
  <1>2. colls[r] \in {15, 20} /\ Busy(r) /\ Busy(r)' /\ colls' = colls /\ i' = i
    BY <1>1 DEF Places, PlaceOf, Busy
  <1>3. i[r] \in Nat /\ i[r] >= 1 /\ i[r] <= iterations(r) /\ iterations(r) \in Nat
    BY <1>1, Sizes DEF TableInv, Streams, StreamOf, DataTypes
  <1>4. <<r, i[r]>> \in Updates
    BY <1>3, UpdatesFinite
  <1>5. Carried(r) = i[r] - 1 /\ Carried(r)' = i[r]
    BY <1>2 DEF Carried
  <1>6. MadeOf(r)' = Xor(MadeOf(r), {i[r]})
    <2>1. CASE colls[r] = 15
      <3>1. MadeOf(r) = 1 .. i[r] - 1 /\ MadeOf(r)' = 1 .. i[r]
        BY <1>2, <1>5, <2>1 DEF MadeOf
      <3>2. 1 .. i[r] = Xor(1 .. i[r] - 1, {i[r]})
        BY <1>3 DEF Xor
      <3> QED
        BY <3>1, <3>2
    <2>2. CASE colls[r] = 20
      <3>1. MadeOf(r) = (i[r] - 1) + 1 .. iterations(r) /\ MadeOf(r)' = i[r] + 1 .. iterations(r)
        BY <1>2, <1>5, <2>2 DEF MadeOf
      <3>2. (i[r] - 1) + 1 = i[r]
        BY <1>3
      <3>3. i[r] + 1 .. iterations(r) = Xor(i[r] .. iterations(r), {i[r]})
        BY <1>3 DEF Xor
      <3> QED
        BY <3>1, <3>2, <3>3
    <2> QED
      BY <1>2, <2>1, <2>2
  <1>7. \A q \in Ranks \ {r} : MadeOf(q)' = MadeOf(q)
    BY <1>2 DEF MadeOf, Busy, Carried
  <1>8. Made' = Xor(Made, {<<r, i[r]>>})
    <2>1. Made' = {u \in Updates : u[2] \in MadeOf(u[1])'}
      BY DEF Made
    <2>2. ASSUME NEW u \in Updates
          PROVE  u[2] \in MadeOf(u[1])' <=> u \in Xor(Made, {<<r, i[r]>>})
      <3>1. u[1] \in Ranks /\ u = <<u[1], u[2]>>
        BY DEF Updates
      <3>2. u \in Made <=> u[2] \in MadeOf(u[1])
        BY DEF Made
      <3>3. CASE u[1] = r
        <4>1. u = <<r, i[r]>> <=> u[2] = i[r]
          BY <3>1, <3>3
        <4> QED
          BY <1>6, <3>2, <3>3, <4>1 DEF Xor
      <3>4. CASE u[1] # r
        <4>1. u # <<r, i[r]>>
          BY <3>1, <3>4
        <4> QED
          BY <1>7, <3>1, <3>2, <3>4, <4>1 DEF Xor
      <3> QED
        BY <3>3, <3>4
    <2>3. Xor(Made, {<<r, i[r]>>}) \subseteq Updates
      BY <1>4 DEF Xor, Made
    <2> QED
      BY <2>1, <2>2, <2>3
  <1>9. ASSUME NEW q \in Ranks
        PROVE  colls[q] >= 15 /\ colls[q] <= 21 /\ (pc[q] = "verify" => FALSE)
    <2>1. /\ colls[q] \in 1 .. 27 /\ colls[q] <= colls[r] + 1
          /\ colls[r] <= colls[q]
          /\ pc[q] # "coll" => colls[q] <= colls[r]
      BY <1>1 DEF Control, Abreast
    <2>2. pc[q] = "verify" => colls[q] = 21
      BY <1>1 DEF Places, PlaceOf
    <2> QED
      BY <1>2, <2>1, <2>2
  <1> QED
    BY <1>4, <1>8, <1>9

LEMMA CompleteTable ==
  ASSUME ControlInv, DataInv, TableInv, NEW r \in Ranks, Complete(r)
  PROVE  TableInv'
  <1>1. Control /\ DataTypes /\ Verified /\ Flows
    BY DEF ControlInv, DataInv
  <1>2. PICK op \in out[r] :
          /\ \/ table' = [table EXCEPT ![op.pe][op.index] = Xor(@, scratch[r])] /\ lost' = lost
             \/ lost < MaxLost /\ lost' = lost + 1 /\ table' = table
          /\ out' = [out EXCEPT ![r] = @ \ {op}]
          /\ UNCHANGED <<pc, colls, i, ran, v, num_errors, global_num_errors>>
    BY DEF Complete, verVars
  <1> DEFINE u == <<r, i[r]>>
  <1>3. pc[r] = "wait" /\ Under(r)
    BY <1>1, <1>2 DEF Flows, Idle
  <1>4. /\ out[r] = {op} /\ op = Target(ran[r]) /\ scratch[r] = ran[r] /\ op \in Targets
    BY <1>1, <1>2, <1>3 DEF Under, DataTypes
  <1>5. out'[r] = {} /\ \A q \in Ranks \ {r} : out'[q] = out[q]
    BY <1>1, <1>2, <1>4 DEF DataTypes
  <1>6. ran[r] = Value(u)
    BY <1>3 DEF TableInv, Streams, StreamOf, Busy
  <1>7. /\ u \in Updates /\ Made' = Xor(Made, {u})
        /\ \A q \in Ranks : colls[q] >= 15 /\ colls[q] <= 21 /\ (pc[q] = "verify" => FALSE)
    BY <1>1, <1>2, <1>3, <1>4, <1>5, CompleteMade
  <1>8. Streams'
    <2>1. \A q \in Ranks : ~(colls[q] <= 14)
      BY <1>1, <1>7 DEF Control
    <2> QED
      BY <1>2, <2>1 DEF TableInv, Streams, StreamOf, Busy
  <1>9. ASSUME NEW q \in Ranks PROVE CountOf(q)'
    <2>1. CountOf(q) /\ colls[q] \in 1 .. 27
      BY <1>1 DEF TableInv, Counts, Control
    <2>2. colls[q] <= 21 /\ ~(colls[q] >= 22) /\ ~(colls[q] >= 24)
      BY <1>7, <2>1
    <2>3. v[q] = 0
      BY <1>7, <2>1, <2>2 DEF CountOf
    <2>4. Differ(q) = {} /\ Differ(q)' = {}
      <3>1. Local(q) = 0 .. local_table_size(N, num_ranks, q) - 1 /\ local_table_size(N, num_ranks, q) \in Nat
        BY Sizes
      <3>2. \A k \in Local(q) : ~(k < 0)
        BY <3>1
      <3> QED
        BY <1>2, <2>3, <3>2 DEF Differ
    <2> QED
      BY <1>2, <2>1, <2>2, <2>3, <2>4 DEF CountOf
  <1> HIDE DEF u
  <1>10. Made \in SUBSET Updates /\ \A w \in Updates : Xor(Made, {w}) \in SUBSET Updates
    BY DEF Made, Xor
  <1>11. Contents'
    <2>1. CASE table' = [table EXCEPT ![op.pe][op.index] = Xor(@, scratch[r])] /\ lost' = lost
      <3>1. ASSUME NEW D \in SUBSET Updates, Shows(table, colls, D)
            PROVE  Shows(table', colls', Xor(D, {u}))
        <4>1. table' = [table EXCEPT ![op.pe][op.index] = Xor(@, Value(u))]
          BY <1>4, <1>6, <2>1
        <4>2. op = Target(Value(u))
          BY <1>4, <1>6
        <4>3. Shows(table', colls, Xor(D, {u}))
          BY <1>1, <1>4, <1>7, <3>1, <4>1, <4>2, ToggleShows
        <4> QED
          BY <1>2, <4>3
      <3>2. CASE lost = 0
        <4>1. Shows(table', colls', Made')
          BY <1>7, <1>10, <3>1, <3>2 DEF TableInv, Contents, ContentsOf
        <4> QED
          BY <2>1, <3>2, <4>1 DEF Contents, ContentsOf
      <3>3. CASE lost = 1
        <4>1. PICK w \in Updates : Shows(table, colls, Xor(Made, {w}))
          BY <3>3, SMTT(30) DEF TableInv, Contents, ContentsOf
        <4>2. Shows(table', colls', Xor(Xor(Made, {w}), {u}))
          BY <1>10, <3>1, <4>1
        <4>3. Xor(Xor(Made, {w}), {u}) = Xor(Xor(Made, {u}), {w})
          BY DEF Xor
        <4> QED
          BY <1>7, <2>1, <3>3, <4>2, <4>3 DEF Contents, ContentsOf
      <3>4. CASE lost >= 2
        BY <2>1, <3>4 DEF Contents, ContentsOf
      <3> QED
        BY <3>2, <3>3, <3>4 DEF TableInv, Contents, ContentsOf
    <2>2. CASE lost' = lost + 1 /\ table' = table
      <3>1. lost \in Nat
        BY <1>1, BoundAssumption DEF DataTypes
      <3>2. CASE lost = 0
        <4>1. Shows(table', colls', Made)
          BY <1>2, <2>2, <3>2 DEF TableInv, Contents, ContentsOf
        <4>2. Xor(Made', {u}) = Made
          BY <1>7, XorAlgebra
        <4> QED
          BY <1>7, <2>2, <3>2, <4>1, <4>2 DEF Contents, ContentsOf
      <3>3. CASE lost # 0
        <4>1. lost' >= 2
          BY <2>2, <3>1, <3>3
        <4> QED
          BY <4>1 DEF Contents, ContentsOf
      <3> QED
        BY <3>2, <3>3
    <2> QED
      BY <1>2, <2>1, <2>2
  <1> QED
    BY <1>8, <1>9, <1>11 DEF TableInv, Counts

(* The sums of no errors and of one                                        *)
LEMMA SumOfOne ==
  ASSUME NEW f \in [Ranks -> Nat], NEW p, \A r \in Ranks : f[r] = IF r = p THEN 1 ELSE 0
  PROVE  /\ p \in Ranks => Total(f) = 1
         /\ p \notin Ranks => Total(f) = 0
  <1>1. PICK sum : Sum(f, sum)
    BY SumUnfolds
  <1> DEFINE Counted(n) == \E r \in Ranks : r = p /\ r < n
             Good == {n \in Nat : n <= num_ranks => sum[n] = IF Counted(n) THEN 1 ELSE 0}
  <1>2. num_ranks \in Nat \ {0} /\ Ranks = 0 .. num_ranks - 1
    BY Sizes
  <1>3. 0 \in Good
    <2>1. ~Counted(0)
      BY <1>2
    <2> QED
      BY <1>1, <2>1 DEF Sum
  <1>4. ASSUME NEW n \in Nat, n \in Good PROVE n + 1 \in Good
    <2> SUFFICES ASSUME n + 1 <= num_ranks PROVE sum[n + 1] = IF Counted(n + 1) THEN 1 ELSE 0
      OBVIOUS
    <2>1. n \in Ranks /\ sum[n] = IF Counted(n) THEN 1 ELSE 0
      BY <1>2, <1>4
    <2>2. sum[n + 1] = sum[n] + f[n] /\ f[n] = IF n = p THEN 1 ELSE 0
      BY <1>1, <2>1 DEF Sum
    <2>3. Counted(n + 1) <=> Counted(n) \/ n = p
      BY <1>2, <2>1
    <2>4. n = p => ~Counted(n)
      BY <1>2, <2>1
    <2> HIDE DEF Counted
    <2> QED
      BY <2>1, <2>2, <2>3, <2>4
  <1>5. num_ranks \in Good
    <2> HIDE DEF Good
    <2> QED
      BY <1>2, <1>3, <1>4, Induction
  <1>6. Total(f) = IF Counted(num_ranks) THEN 1 ELSE 0
    BY <1>1, <1>2, <1>5 DEF Sum
  <1>7. Counted(num_ranks) <=> p \in Ranks
    BY <1>2
  <1> HIDE DEF Counted
  <1> QED
    BY <1>6, <1>7

(* When all words are verified, a lost update is one error.                *)
LEMMA ErrorsCounted ==
  ASSUME ControlInv, DataInv, TableInv, \A q \in Ranks : colls[q] >= 22, lost <= 1
  PROVE  Total(num_errors) = lost
  <1>1. Control /\ Places /\ DataTypes /\ Verified
    BY DEF ControlInv, DataInv
  <1>2. lost \in Nat
    BY <1>1, BoundAssumption DEF DataTypes
  <1>3. ASSUME NEW q \in Ranks
        PROVE  /\ colls[q] >= 15 /\ MadeOf(q) = {}
               /\ num_errors[q] = Cardinality(Differ(q))
               /\ Differ(q) = {k \in Local(q) : table[q][k] # InitialWord(q, k)}
    <2>1. colls[q] \in 1 .. 27 /\ colls[q] >= 22
      BY <1>1 DEF Control
    <2>2. MadeOf(q) = {}
      BY <2>1 DEF MadeOf
    <2>3. v[q] = Cardinality(Local(q)) /\ num_errors[q] = Cardinality(Differ(q))
      BY <2>1 DEF TableInv, Counts, CountOf
    <2>4. \A k \in Local(q) : k < Cardinality(Local(q))
      <3>1. /\ Local(q) = 0 .. local_table_size(N, num_ranks, q) - 1
            /\ local_table_size(N, num_ranks, q) \in Nat
            /\ Cardinality(Local(q)) = local_table_size(N, num_ranks, q)
        BY Sizes
      <3> QED
        BY <3>1
    <2> QED
      BY <2>1, <2>2, <2>3, <2>4 DEF Differ
  <1>4. Made = {}
    BY <1>3 DEF Made, Updates
  <1>5. num_errors \in [Ranks -> Nat]
    BY <1>1 DEF Verified
  <1>6. CASE lost = 0
    <2>1. Shows(table, colls, {})
      BY <1>4, <1>6 DEF TableInv, Contents, ContentsOf
    <2>2. ASSUME NEW q \in Ranks PROVE num_errors[q] = 0
      <3>1. \A k \in Local(q) : table[q][k] = InitialWord(q, k)
        BY <1>3, <2>1, WordNone DEF Shows
      <3>2. Differ(q) = {}
        BY <1>3, <3>1
      <3> QED
        BY <1>3, <3>2, FS_EmptySet
    <2> DEFINE p == -1
    <2>3. p \notin Ranks
      BY Sizes
    <2>4. \A q \in Ranks : num_errors[q] = IF q = p THEN 1 ELSE 0
      BY <2>2, <2>3
    <2> HIDE DEF p
    <2>5. Total(num_errors) = 0
      BY <1>5, <2>3, <2>4, SumOfOne
    <2> QED
      BY <1>6, <2>5
  <1>7. CASE lost = 1
    <2>1. PICK u \in Updates : Shows(table, colls, Xor({}, {u}))
      BY <1>4, <1>7 DEF TableInv, Contents, ContentsOf
    <2>2. Xor({}, {u}) = {u}
      BY XorAlgebra
    <2> DEFINE t == Target(Value(u))
    <2>3. t \in Targets
      BY TargetType
    <2>4. t.pe \in Ranks /\ t.index \in Local(t.pe) /\ t = [pe |-> t.pe, index |-> t.index]
      BY <2>3 DEF Targets
    <2>5. ASSUME NEW q \in Ranks PROVE num_errors[q] = IF q = t.pe THEN 1 ELSE 0
      <3>1. ASSUME NEW k \in Local(q)
            PROVE  table[q][k] # InitialWord(q, k) <=> t = [pe |-> q, index |-> k]
        <4>1. table[q][k] = WordOf({u}, q, k)
          BY <1>3, <2>1, <2>2 DEF Shows
        <4> QED
          BY <4>1, WordSingle
      <3> HIDE DEF t
      <3>2. Differ(q) = {k \in Local(q) : t = [pe |-> q, index |-> k]}
        BY <1>3, <3>1
      <3>3. CASE q = t.pe
        <4>1. Differ(q) = {t.index}
          BY <2>4, <3>2, <3>3
        <4>2. Cardinality({t.index}) = 1
          BY FS_Singleton
        <4> QED
          BY <1>3, <3>3, <4>1, <4>2
      <3>4. CASE q # t.pe
        <4>1. Differ(q) = {}
          BY <3>2, <3>4
        <4>2. Cardinality({}) = 0
          BY FS_EmptySet
        <4> QED
          BY <1>3, <3>4, <4>1, <4>2
      <3> QED
        BY <3>3, <3>4
    <2> HIDE DEF t
    <2>6. Total(num_errors) = 1
      <3> DEFINE p == t.pe
      <3>1. p \in Ranks /\ \A q \in Ranks : num_errors[q] = IF q = p THEN 1 ELSE 0
        BY <2>4, <2>5
      <3> HIDE DEF p
      <3> QED
        BY <1>5, <3>1, SumOfOne
    <2> QED
      BY <1>7, <2>6
  <1> QED
    BY <1>2, <1>6, <1>7

LEMMA ReduceErrorsTable ==
  ASSUME ControlInv, DataInv, TableInv, NEW r \in Ranks, ReduceErrors(r)
  PROVE  TableInv'
  <1>1. Control /\ Places /\ DataTypes /\ Verified
    BY DEF ControlInv, DataInv
  <1>2. /\ Leaves(r, "errors") /\ pc[r] = "coll" /\ EnterColl(r, "reported")
        /\ global_num_errors' = [global_num_errors EXCEPT ![r] = Total(num_errors)]
        /\ UNCHANGED <<table, i, ran, out, lost, v, num_errors>>
    BY DEF ReduceErrors, Leaves, Set, updVars
  <1>3. /\ pc'[r] = "coll" /\ colls'[r] = colls[r] + 1
        /\ \A q \in Ranks \ {r} : pc'[q] = pc[q] /\ colls'[q] = colls[q]
    BY <1>1, <1>2, EnterEffect
  <1>4. colls[r] = 23 /\ colls'[r] = 24 /\ \A q \in Ranks : colls[q] >= 22
    <2>1. /\ at[r] = Pos["errors"] /\ at[r] = PlaceAfter(colls[r], Aborting) /\ colls[r] \in 1 .. 27
          /\ \A q \in Ranks : colls[r] <= colls[q]
      BY <1>1, <1>2, Leaving
    <2>2. Pos["errors"] = 23
      BY Positions
    <2>3. 23 = PlaceAfter(colls[r], Aborting)
      BY <2>1, <2>2
    <2>4. colls[r] = 23
      BY <2>1, <2>3 DEF PlaceAfter
    <2>5. \A q \in Ranks : colls[q] \in 1 .. 27
      BY <1>1 DEF Control
    <2> QED
      BY <1>3, <2>1, <2>4, <2>5
  <1>5. OthersSame(r)
    BY <1>1, <1>2, <1>3 DEF OthersSame, Verified
  <1>6. StreamOf(r) /\ CountOf(r)
    BY DEF TableInv, Streams, Counts
  <1>7. MadeOf(r)' = MadeOf(r) /\ StreamOf(r)'
    BY <1>2, <1>3, <1>4, <1>6 DEF MadeOf, StreamOf, Busy
  <1>8. CountOf(r)'
    <2>1. Differ(r)' = Differ(r)
      BY <1>2 DEF Differ
    <2>2. lost <= 1 => global_num_errors'[r] = lost
      BY <1>1, <1>2, <1>4, ErrorsCounted DEF Verified
    <2> QED
      BY <1>2, <1>3, <1>4, <1>6, <2>1, <2>2 DEF CountOf
  <1> QED
    BY <1>2, <1>4, <1>5, <1>7, <1>8, OneRank

LEMMA TableStep ==
  ASSUME ControlInv, DataInv, TableInv, [Next]_vars
  PROVE  TableInv'
  <1>1. ASSUME UNCHANGED vars PROVE TableInv'
    <2>1. UNCHANGED <<pc, colls, table, i, ran, out, lost, v, num_errors, global_num_errors>>
      BY <1>1 DEF vars, updVars, verVars
    <2>2. \A q \in Ranks : MadeOf(q)' = MadeOf(q)
      BY <2>1, MadeSame
    <2>3. Contents'
      BY <2>1, <2>2, MadeStill, ContentsStill DEF TableInv
    <2>4. Streams' /\ Counts'
      BY <2>1, StreamSame, CountSame DEF TableInv, Streams, Counts
    <2> QED
      BY <2>3, <2>4 DEF TableInv
  <1>2. ASSUME NEW r \in Ranks, Complete(r) PROVE TableInv'
    BY <1>2, CompleteTable
  <1>3. ASSUME NEW r \in Ranks, RankStep(r) PROVE TableInv'
    <2>1. CASE \/ Allocate(r) \/ ReduceAbort(r) \/ Decide(r) \/ Pass(r) \/ Updated(r)
               \/ UpdateAgain(r) \/ Release(r) \/ Fini(r)
      BY <2>1, PassingTable
    <2>2. CASE InitTable(r) \/ StartUpdates(r) \/ PostXor(r) \/ wait_for_comp(r) \/ EndUpdates(r)
      BY <2>2, InitTableTable, StartUpdatesTable, PostXorTable, WaitTable, EndUpdatesTable
    <2>3. CASE \/ StartVerify(r) \/ VerifyWord(r) \/ EndVerify(r) \/ ReduceErrors(r) \/ Exit(r)
      BY <2>3, MoveTable, VerifyWordTable, EndVerifyTable, ReduceErrorsTable
    <2> QED
      BY <1>3, <2>1, <2>2, <2>3 DEF RankStep
  <1> QED
    BY <1>1, <1>2, <1>3 DEF Next

-----------------------------------------------------------------------------
(* The ranks follow one sequence of collectives, or all give up after the  *)
(* allocations: which of the two follows from the allocations alone, on    *)
(* every rank, so that ranks in the same collective are at the same place. *)
THEOREM ControlHolds == Spec => []ControlInv
  <1>1. Init => ControlInv
    BY ControlInit
  <1>2. ControlInv /\ [Next]_vars => ControlInv'
    BY ControlStep
  <1> QED
    BY <1>1, <1>2, PTL DEF Spec

(* On top of that, a rank has one update under way at most, the one that   *)
(* update_table waits for, and the streams, indices and counters stay      *)
(* within the bounds that the tables set.                                  *)
THEOREM InvHolds == Spec => [](ControlInv /\ DataInv)
  <1>1. Init => ControlInv /\ DataInv
    BY ControlInit, DataInit
  <1>2. ControlInv /\ DataInv /\ [Next]_vars => ControlInv' /\ DataInv'
    BY ControlStep, DataStep
  <1> QED
    BY <1>1, <1>2, PTL DEF Spec

(* What RanksInStep says of a state follows from the two invariants.       *)
LEMMA InStep ==
  ASSUME ControlInv, DataInv
  PROVE  RanksInStep
  <1>1. Control /\ Memories /\ Places /\ Ownership /\ DataTypes /\ Verified
    BY DEF ControlInv, DataInv
  <1>2. ASSUME NEW r \in Ranks
        PROVE  /\ table[r] \in [Local(r) -> Word]
               /\ i[r] \in 0 .. 4 * Cardinality(Local(r))
               /\ \A q \in Ranks : scq[r][q] \in 0 .. 1
               /\ num_errors[r] \in 0 .. v[r]
               /\ v[r] \in 0 .. Cardinality(Local(r))
    <2>1. i[r] \in Nat /\ i[r] <= iterations(r) /\ iterations(r) = 4 * Cardinality(Local(r))
      BY <1>1, Sizes DEF DataTypes
    <2>2. /\ num_errors[r] \in Nat /\ v[r] \in Nat /\ num_errors[r] <= v[r]
          /\ v[r] <= Cardinality(Local(r))
      BY <1>1 DEF Verified
    <2>3. Cardinality(Local(r)) \in Nat
      BY Sizes
    <2>4. table[r] \in [Local(r) -> Word] /\ \A q \in Ranks : scq[r][q] \in 0 .. 1
      BY <1>1 DEF DataTypes
    <2>5. i[r] \in 0 .. 4 * Cardinality(Local(r))
      BY <2>1, <2>3
    <2> QED
      BY <2>2, <2>3, <2>4, <2>5
  <1>3. TypeOK
    BY <1>1, <1>2, Scripts DEF TypeOK, Control, Memories, DataTypes, Verified
  <1>4. AbortAgreed
    <2> SUFFICES ASSUME NEW r \in Ranks, NEW q \in Ranks,
                        at[r] > 4, at[q] > 4, mr[r] = "none"
                 PROVE  mr[q] = "none"
      BY Positions DEF AbortAgreed
    <2>1. at[r] \in 1 .. 27 /\ at[q] \in 1 .. 27 /\ colls[q] \in 1 .. 27
      BY <1>1 DEF Control
    <2>2. at[r] >= 25 /\ Aborting
      BY <1>1, <2>1 DEF Ownership, Owns
    <2>3. at[q] >= 25
      BY <1>1, <2>1, <2>2 DEF Places, PlaceOf, PlaceAfter
    <2> QED
      BY <1>1, <2>2, <2>3 DEF Ownership, Owns
  <1>5. CollectivesMatch
    BY <1>1 DEF CollectivesMatch, Places, PlaceOf
  <1> QED
    BY <1>3, <1>4, <1>5 DEF RanksInStep

(* No rank is ever in a collective of which another has taken the other    *)
(* branch of the test of recv_abort: no rank waits for one that never      *)
(* comes, through failed_table or through the updates.                     *)
THEOREM RanksInStepHolds == Spec => []RanksInStep
  <1>1. ControlInv /\ DataInv => RanksInStep
    BY InStep
  <1> QED
    BY <1>1, InvHolds, PTL

(* An update is under way only between the barriers of update_table, and   *)
(* all ranks are between them or in one of them.                           *)
THEOREM TargetsReadyHolds == Spec => []TargetsReady
  <1>1. ASSUME ControlInv, DataInv PROVE TargetsReady
    <2> SUFFICES ASSUME NEW r \in Ranks, NEW op \in out[r]
                 PROVE  /\ hpcc_table[op.pe] = "live" /\ mr[op.pe] = "open"
                        /\ at[op.pe] >= 15
                        /\ ep[r] = "open" /\ ep[op.pe] = "open"
      BY Positions DEF TargetsReady
    <2>1. Control /\ Places /\ Abreast /\ Ownership /\ DataTypes /\ Flows
      BY <1>1 DEF ControlInv, DataInv
    <2>2. op.pe \in Ranks
      BY <2>1 DEF DataTypes, Targets
    <2>3. pc[r] = "wait"
      BY <2>1 DEF Flows, Idle
    <2>4. colls[r] \in {15, 20} /\ at[r] = PlaceAfter(colls[r], Aborting) /\ at[r] \in 1 .. 27
      BY <2>1, <2>3 DEF Places, PlaceOf, Control
    <2>5. ~Aborting
      BY <2>4 DEF PlaceAfter
    <2>6. ASSUME NEW q \in Ranks PROVE at[q] \in {15, 16, 20, 21}
      <3>1. colls[q] \in 1 .. 27 /\ colls[r] <= colls[q] /\ colls[q] <= colls[r] + 1
        BY <2>1, <2>3 DEF Abreast, Control
      <3>2. at[q] = colls[q]
        BY <2>1, <2>5 DEF Places, PlaceOf, PlaceAfter
      <3> QED
        BY <2>4, <3>1, <3>2
    <2>7. ASSUME NEW q \in Ranks
          PROVE  hpcc_table[q] = "live" /\ mr[q] = "open" /\ ep[q] = "open" /\ at[q] >= 15
      BY <2>1, <2>6 DEF Ownership, Owns
    <2> QED
      BY <2>2, <2>7
  <1> QED
    BY <1>1, InvHolds, PTL

-----------------------------------------------------------------------------
(* The tables hold exactly the updates that have been made and not lost,   *)
(* in whatever order the atomic xors of the ranks were carried out, and    *)
(* the second update_table takes out what the first has put in.            *)
THEOREM TableHolds == Spec => [](ControlInv /\ DataInv /\ TableInv)
  <1>1. Init => ControlInv /\ DataInv /\ TableInv
    BY ControlInit, DataInit, TableInit
  <1>2. ControlInv /\ DataInv /\ TableInv /\ [Next]_vars => ControlInv' /\ DataInv' /\ TableInv'
    BY ControlStep, DataStep, TableStep
  <1> QED
    BY <1>1, <1>2, PTL DEF Spec

(* global_num_errors is 0 when no update was lost and 1 when one was, on    *)
(* every rank: the verification of main neither misses nor invents one.    *)
THEOREM ErrorsExactHolds == Spec => []ErrorsExact
  <1>1. ASSUME ControlInv, DataInv, TableInv PROVE ErrorsExact
    <2> SUFFICES ASSUME NEW r \in Ranks, at[r] >= 24, recv_abort[r] = 0, lost <= 1
                 PROVE  global_num_errors[r] = lost
      BY Positions DEF ErrorsExact
    <2>1. Control /\ Memories /\ Places /\ Ownership
      BY <1>1 DEF ControlInv
    <2>2. at[r] = PlaceAfter(colls[r], Aborting) /\ colls[r] \in 1 .. 27 /\ recv_abort[r] \in Nat
      BY <2>1, Sizes DEF Places, PlaceOf, Control, Memories
    <2>3. colls[r] >= 4
      BY <2>2 DEF PlaceAfter
    <2>4. ~Aborting
      BY <2>1, <2>2, <2>3 DEF Ownership, Owns
    <2>5. colls[r] >= 24
      BY <2>2, <2>4 DEF PlaceAfter
    <2> QED
      BY <1>1, <2>5 DEF TableInv, Counts, CountOf
  <1> QED
    BY <1>1, TableHolds, PTL

-----------------------------------------------------------------------------
(* The updates of all ranks together are those of a single stream.         *)
LEMMA StreamIsX ==
  Stream = [k \in 1 .. 4 * N |-> X[k]]
  <1> DEFINE Def(x) == [k \in 0 .. 4 * N |-> IF k = 0 THEN {0} ELSE Step(x[k - 1])]
             x == CHOOSE f : f = Def(f)
             h == [k \in 0 .. 4 * N |-> X[k]]
  <1>1. 4 * N \in Nat
    BY Sizes
  <1>2. h = Def(h)
    <2>1. ASSUME NEW k \in 0 .. 4 * N PROVE h[k] = Def(h)[k]
      <3>1. CASE k = 0
        <4>1. h[0] = X[0] /\ Def(h)[0] = {0}
          BY <1>1, <3>1
        <4> QED
          BY <3>1, <4>1, XUnfolds
      <3>2. CASE k # 0
        <4>1. k - 1 \in 0 .. 4 * N /\ k - 1 \in Nat /\ (k - 1) + 1 = k
          BY <1>1, <3>2
        <4>2. X[(k - 1) + 1] = Step(X[k - 1])
          BY <4>1, XUnfolds
        <4>3. h[k] = X[k] /\ h[k - 1] = X[k - 1] /\ Def(h)[k] = Step(h[k - 1])
          BY <3>2, <4>1
        <4> QED
          BY <4>1, <4>2, <4>3
      <3> QED
        BY <3>1, <3>2
    <2> QED
      BY <2>1
  <1>3. x = Def(x)
    <2> HIDE DEF h, Def
    <2> QED
      BY <1>2
  <1>4. Stream = [k \in 1 .. 4 * N |-> x[k]]
    BY DEF Stream
  <1> HIDE DEF x
  <1> DEFINE Good == {k \in Nat : k <= 4 * N => x[k] = X[k]}
  <1>5. 0 \in Good
    <2>1. x[0] = {0}
      BY <1>1, <1>3
    <2> QED
      BY <2>1, XUnfolds
  <1>6. ASSUME NEW k \in Nat, k \in Good PROVE k + 1 \in Good
    <2> SUFFICES ASSUME k + 1 <= 4 * N PROVE x[k + 1] = X[k + 1]
      OBVIOUS
    <2>1. k + 1 \in 0 .. 4 * N /\ k + 1 # 0 /\ (k + 1) - 1 = k /\ x[k] = X[k]
      BY <1>1, <1>6
    <2>2. x[k + 1] = Step(x[k])
      BY <1>3, <2>1
    <2> QED
      BY <2>1, <2>2, XUnfolds
  <1>7. ASSUME NEW k \in 1 .. 4 * N PROVE x[k] = X[k]
    <2>1. k \in Nat /\ k <= 4 * N
      BY <1>1
    <2> HIDE DEF Good
    <2>2. k \in Good
      BY <1>5, <1>6, <2>1, Induction
    <2> QED
      BY <2>1, <2>2 DEF Good
  <1> QED
    BY <1>4, <1>7

(* The local tables follow one another.                                    *)
Size(r) == local_table_size(N, num_ranks, r)

LEMMA StartsMonotone ==
  ASSUME NEW p \in Ranks, NEW q \in Ranks, p < q
  PROVE  Start(p) + Size(p) <= Start(q)
  <1> DEFINE Good == {n \in Nat : p + (n + 1) \in Ranks => Start(p) + Size(p) <= Start(p + (n + 1))}
  <1>1. \A r \in Ranks : /\ Start(r) \in Nat /\ Size(r) \in Nat /\ r \in Nat
                         /\ r + 1 \in Ranks => Start(r) + Size(r) = Start(r + 1)
    <2> SUFFICES ASSUME NEW r \in Ranks
                 PROVE  /\ Start(r) \in Nat /\ Size(r) \in Nat /\ r \in Nat
                        /\ r + 1 \in Ranks => Start(r) + Size(r) = Start(r + 1)
      OBVIOUS
    <2>1. Start(r) \in Nat /\ Size(r) \in Nat
      BY Sizes DEF Size
    <2>2. r \in Nat /\ (r + 1 \in Ranks => r # num_ranks - 1)
      <3>1. num_ranks \in Nat /\ r \in 0 .. num_ranks - 1 /\ Ranks = 0 .. num_ranks - 1
        BY Sizes
      <3> QED
        BY <3>1
    <2>3. r # num_ranks - 1 => Start(r) + Size(r) = Start(r + 1)
      BY Sizes DEF Size
    <2> QED
      BY <2>1, <2>2, <2>3
  <1>2. 0 \in Good
    <2>1. 0 + 1 = 1
      OBVIOUS
    <2>2. p + 1 \in Ranks => Start(p) + Size(p) <= Start(p + 1)
      BY <1>1
    <2> QED
      BY <2>1, <2>2
  <1>3. ASSUME NEW n \in Nat, n \in Good PROVE n + 1 \in Good
    <2> SUFFICES ASSUME p + ((n + 1) + 1) \in Ranks
                 PROVE  Start(p) + Size(p) <= Start(p + ((n + 1) + 1))
      OBVIOUS
    <2> DEFINE r == p + (n + 1)
    <2>1. r \in Ranks /\ r + 1 = p + ((n + 1) + 1) /\ r + 1 \in Ranks
      BY <1>1, Sizes
    <2>2. Start(p) + Size(p) <= Start(r)
      BY <1>3, <2>1
    <2> HIDE DEF r
    <2>3. Start(r) + Size(r) = Start(r + 1) /\ Start(r) \in Nat /\ Size(r) \in Nat
      BY <1>1, <2>1
    <2>4. Start(p) \in Nat /\ Size(p) \in Nat
      BY <1>1
    <2> QED
      BY <2>1, <2>2, <2>3, <2>4
  <1> HIDE DEF Good
  <1>4. q - p - 1 \in Nat /\ p + ((q - p - 1) + 1) = q
    BY <1>1
  <1>5. q - p - 1 \in Good
    BY <1>2, <1>3, <1>4, Induction
  <1> QED
    BY <1>4, <1>5 DEF Good

(* A word is in the table of one rank.                                     *)
LEMMA OneOwner ==
  ASSUME NEW p \in Ranks, NEW j \in Local(p), NEW q \in Ranks, NEW k \in Local(q),
         Start(p) + j = Start(q) + k
  PROVE  p = q /\ j = k
  <1>1. /\ Start(p) \in Nat /\ Size(p) \in Nat /\ Start(q) \in Nat /\ Size(q) \in Nat
        /\ p \in Nat /\ q \in Nat
        /\ Local(p) = 0 .. Size(p) - 1 /\ Local(q) = 0 .. Size(q) - 1
    BY Sizes DEF Size
  <1>2. j \in Nat /\ j < Size(p) /\ k \in Nat /\ k < Size(q)
    BY <1>1
  <1>3. ~(p < q)
    <2>1. CASE p < q
      <3>1. Start(p) + Size(p) <= Start(q)
        BY <2>1, StartsMonotone
      <3> QED
        BY <1>1, <1>2, <3>1
    <2> QED
      BY <2>1
  <1>4. ~(q < p)
    <2>1. CASE q < p
      <3>1. Start(q) + Size(q) <= Start(p)
        BY <2>1, StartsMonotone
      <3> QED
        BY <1>1, <1>2, <3>1
    <2> QED
      BY <2>1
  <1>5. p = q
    BY <1>1, <1>3, <1>4
  <1> QED
    BY <1>1, <1>2, <1>5

LEMMA TargetIs ==
  ASSUME NEW x, NEW r \in Ranks, NEW k \in Local(r)
  PROVE  Target(x) = [pe |-> r, index |-> k] <=> LowBits(x, LogTableSize) = k + Start(r)
  <1> DEFINE g == LowBits(x, LogTableSize)
             p == remote_pe(N, num_ranks, g)
             j == index(N, num_ranks, g)
  <1>1. g \in 0 .. N - 1 /\ N \in Nat
    BY LowBitsType, Sizes DEF N
  <1>2. UpdateHitsWord(N, num_ranks, g)
    BY <1>1, UpdatesCorrect, Sizes
  <1>3. Target(x) = [pe |-> p, index |-> j]
    BY DEF Target
  <1> HIDE DEF g
  <1>4. p \in Ranks /\ j \in Local(p) /\ Start(p) + j = g
    BY <1>2 DEF UpdateHitsWord, Ranks, Local, Start
  <1> HIDE DEF p, j
  <1>5. Target(x) = [pe |-> r, index |-> k] <=> p = r /\ j = k
    BY <1>3
  <1>6. Start(r) + k = k + Start(r)
    <2>1. Start(r) \in Nat /\ Local(r) = 0 .. Size(r) - 1 /\ Size(r) \in Nat
      BY Sizes DEF Size
    <2> QED
      BY <2>1
  <1>7. p = r /\ j = k => g = k + Start(r)
    BY <1>4, <1>6
  <1>8. g = k + Start(r) => p = r /\ j = k
    BY <1>4, <1>6, OneOwner
  <1> QED
    BY <1>5, <1>7, <1>8 DEF g

(* The updates and their positions in the single stream                    *)
At(u) == 4 * Start(u[1]) + u[2]

LEMMA Update ==
  ASSUME NEW u \in Updates
  PROVE  /\ u[1] \in Ranks /\ u[2] \in Nat /\ u = <<u[1], u[2]>>
         /\ 1 <= u[2] /\ u[2] <= 4 * Size(u[1])
         /\ Start(u[1]) \in Nat /\ Size(u[1]) \in Nat
         /\ At(u) \in 1 .. 4 * N /\ Value(u) = X[At(u)]
  <1>1. u[1] \in Ranks /\ u[2] \in 1 .. 4 * N /\ u = <<u[1], u[2]>> /\ u[2] <= iterations(u[1])
    BY DEF Updates
  <1> DEFINE q == u[1]
  <1>2. q \in Ranks
    BY <1>1
  <1> HIDE DEF q
  <1>3. /\ Start(q) \in Nat /\ Size(q) \in Nat /\ iterations(q) = 4 * Size(q) /\ N \in Nat
    BY <1>2, Sizes DEF Size
  <1>4. Start(q) + Size(q) <= N
    <2>1. CASE q = num_ranks - 1
      BY <1>2, <2>1, <1>3, Sizes DEF Size
    <2>2. CASE q # num_ranks - 1
      <3>1. q + 1 \in Ranks /\ Start(q) + Size(q) = Start(q + 1)
        BY <1>2, <2>2, Sizes DEF Size
      <3>2. Start(q + 1) <= N
        BY <3>1, Sizes
      <3> QED
        BY <3>1, <3>2
    <2> QED
      BY <2>1, <2>2
  <1>5. u[2] \in Nat /\ 1 <= u[2] /\ u[2] <= 4 * Size(q)
    BY <1>1, <1>3 DEF q
  <1>6. At(u) \in 1 .. 4 * N
    <2>1. At(u) = 4 * Start(q) + u[2]
      BY DEF At, q
    <2> QED
      BY <1>3, <1>4, <1>5, <2>1
  <1> QED
    BY <1>1, <1>3, <1>5, <1>6 DEF q, At, Value

LEMMA AtInjective ==
  ASSUME NEW u \in Updates, NEW w \in Updates, At(u) = At(w)
  PROVE  u = w
  <1> DEFINE p == u[1]
             q == w[1]
  <1>1. /\ p \in Ranks /\ u[2] \in Nat /\ u = <<p, u[2]>> /\ 1 <= u[2] /\ u[2] <= 4 * Size(p)
        /\ Start(p) \in Nat /\ Size(p) \in Nat /\ p \in Nat
    BY Update, Sizes
  <1>2. /\ q \in Ranks /\ w[2] \in Nat /\ w = <<q, w[2]>> /\ 1 <= w[2] /\ w[2] <= 4 * Size(q)
        /\ Start(q) \in Nat /\ Size(q) \in Nat /\ q \in Nat
    BY Update, Sizes
  <1>3. 4 * Start(p) + u[2] = 4 * Start(q) + w[2]
    BY DEF At
  <1> HIDE DEF p, q
  <1>4. ~(p < q)
    <2>1. CASE p < q
      <3>1. Start(p) + Size(p) <= Start(q)
        BY <1>1, <1>2, <2>1, StartsMonotone
      <3> QED
        BY <1>1, <1>2, <1>3, <3>1
    <2> QED
      BY <2>1
  <1>5. ~(q < p)
    <2>1. CASE q < p
      <3>1. Start(q) + Size(q) <= Start(p)
        BY <1>1, <1>2, <2>1, StartsMonotone
      <3> QED
        BY <1>1, <1>2, <1>3, <3>1
    <2> QED
      BY <2>1
  <1>6. p = q
    BY <1>1, <1>2, <1>4, <1>5
  <1>7. u[2] = w[2]
    BY <1>1, <1>2, <1>3, <1>6
  <1> QED
    BY <1>1, <1>2, <1>6, <1>7

LEMMA AtSurjective ==
  ASSUME NEW m \in 1 .. 4 * N
  PROVE  \E u \in Updates : At(u) = m
  <1> DEFINE g == (m - 1) \div 4
             p == remote_pe(N, num_ranks, g)
             j == index(N, num_ranks, g)
  <1>1. N \in Nat /\ m \in Nat
    BY Sizes
  <1>2. g \in 0 .. N - 1 /\ m - 4 * g \in 1 .. 4
    BY <1>1
  <1>3. UpdateHitsWord(N, num_ranks, g)
    BY <1>2, UpdatesCorrect, Sizes
  <1> HIDE DEF g
  <1>4. p \in Ranks /\ j \in Local(p) /\ Start(p) + j = g
    BY <1>3 DEF UpdateHitsWord, Ranks, Local, Start
  <1> HIDE DEF p, j
  <1>5. /\ Start(p) \in Nat /\ Size(p) \in Nat /\ iterations(p) = 4 * Size(p)
        /\ Local(p) = 0 .. Size(p) - 1
    BY <1>4, Sizes DEF Size
  <1>6. j \in Nat /\ j < Size(p)
    BY <1>4, <1>5
  <1> DEFINE n == m - 4 * Start(p)
  <1>7. n \in Nat /\ 1 <= n /\ n <= iterations(p)
    BY <1>1, <1>2, <1>4, <1>5, <1>6
  <1>8. <<p, n>> \in Updates
    BY <1>4, <1>7, UpdatesFinite
  <1>9. At(<<p, n>>) = m
    <2>1. At(<<p, n>>) = 4 * Start(p) + n
      BY DEF At
    <2> QED
      BY <1>1, <1>5, <2>1
  <1> QED
    BY <1>8, <1>9

LEMMA ReferenceWord ==
  ASSUME NEW r \in Ranks, NEW k \in Local(r)
  PROVE  WordOf(Updates, r, k) = Reference[k + Start(r)]
  <1> DEFINE g == k + Start(r)
             T(b) == {m \in DOMAIN Stream : LowBits(Stream[m], LogTableSize) = g /\ b \in Stream[m]}
             H(b) == Hits(Updates, r, k, b)
  <1>1. g \in 0 .. N - 1
    <2>1. /\ Start(r) \in Nat /\ Size(r) \in Nat /\ Local(r) = 0 .. Size(r) - 1 /\ N \in Nat
      BY Sizes DEF Size
    <2>2. Start(r) + Size(r) <= N
      <3>1. CASE r = num_ranks - 1
        BY <2>1, <3>1, Sizes DEF Size
      <3>2. CASE r # num_ranks - 1
        <4>1. r + 1 \in Ranks /\ Start(r) + Size(r) = Start(r + 1)
          BY <3>2, Sizes DEF Size
        <4>2. Start(r + 1) <= N
          BY <4>1, Sizes
        <4> QED
          BY <4>1, <4>2
      <3> QED
        BY <3>1, <3>2
    <2> QED
      BY <2>1, <2>2
  <1>2. Reference[g] = {b \in Bits : ~((Cardinality(T(b)) % 2 = 1) <=> b \in ToWord(g))}
    BY <1>1 DEF Reference, Bits
  <1>3. InitialWord(r, k) = ToWord(g)
    BY DEF InitialWord
  <1>4. ASSUME NEW b \in Bits PROVE Cardinality(H(b)) = Cardinality(T(b))
    <2> DEFINE f == [u \in H(b) |-> At(u)]
    <2>1. ASSUME NEW u \in H(b) PROVE u \in Updates /\ At(u) \in T(b)
      <3>1. u \in Updates /\ Target(Value(u)) = [pe |-> r, index |-> k] /\ b \in Value(u)
        BY DEF Hits
      <3>2. At(u) \in 1 .. 4 * N /\ Value(u) = X[At(u)]
        BY <3>1, Update
      <3>3. LowBits(X[At(u)], LogTableSize) = g
        BY <3>1, <3>2, TargetIs
      <3>4. At(u) \in DOMAIN Stream /\ Stream[At(u)] = X[At(u)]
        BY <3>2, StreamIsX
      <3> QED
        BY <3>1, <3>2, <3>3, <3>4
    <2>2. ASSUME NEW m \in T(b) PROVE \E u \in H(b) : At(u) = m
      <3>1. m \in 1 .. 4 * N /\ LowBits(X[m], LogTableSize) = g /\ b \in X[m]
        BY StreamIsX
      <3>2. PICK u \in Updates : At(u) = m
        BY <3>1, AtSurjective
      <3>3. Value(u) = X[m]
        BY <3>2, Update
      <3>4. Target(X[m]) = [pe |-> r, index |-> k]
        BY <3>1, TargetIs
      <3>5. u \in H(b)
        BY <3>1, <3>2, <3>3, <3>4 DEF Hits
      <3> QED
        BY <3>2, <3>5
    <2> HIDE DEF T, H
    <2>3. f \in [H(b) -> T(b)] /\ \A u \in H(b) : f[u] = At(u)
      BY <2>1
    <2> HIDE DEF f
    <2>4. \A u, w \in H(b) : f[u] = f[w] => u = w
      BY <2>1, <2>3, AtInjective
    <2>5. \A m \in T(b) : \E u \in H(b) : f[u] = m
      BY <2>2, <2>3
    <2>6. f \in Bijection(H(b), T(b))
      BY <2>3, <2>4, <2>5 DEF Bijection, Injection, Surjection, IsInjective
    <2>7. ExistsBijection(H(b), T(b))
      BY <2>6 DEF ExistsBijection
    <2>8. IsFiniteSet(H(b))
      BY UpdatesFinite DEF H
    <2> QED
      BY <2>7, <2>8, FS_Bijection
  <1> HIDE DEF T, g
  <1>5. WordOf(Updates, r, k) = {b \in Bits : ~((Cardinality(H(b)) % 2 = 1) <=> b \in ToWord(g))}
    BY <1>3 DEF WordOf, Odd
  <1> HIDE DEF H
  <1>6. WordOf(Updates, r, k) = Reference[g]
    BY <1>2, <1>4, <1>5
  <1> QED
    BY <1>6 DEF g

(* The ranks' streams are pieces of one, cut where the tables are cut, and *)
(* xor does not mind the order.                                            *)
THEOREM StreamsComposeHolds == Spec => []StreamsCompose
  <1>1. ASSUME ControlInv, DataInv, TableInv PROVE StreamsCompose
    <2> SUFFICES ASSUME lost = 0, NEW r \in Ranks, at[r] \in 17 .. 19,
                        NEW q \in Ranks, NEW k \in Local(q)
                 PROVE  table[q][k] = Reference[k + Start(q)]
      BY Positions DEF StreamsCompose
    <2>1. Control /\ Places /\ Abreast
      BY <1>1 DEF ControlInv
    <2>2. at[r] = PlaceAfter(colls[r], Aborting) /\ colls[r] \in 1 .. 27
      BY <2>1 DEF Places, PlaceOf, Control
    <2>3. colls[r] \in 17 .. 19
      BY <2>2 DEF PlaceAfter
    <2>4. ASSUME NEW p \in Ranks PROVE colls[p] >= 15 /\ MadeOf(p) = 1 .. iterations(p)
      <3>1. /\ colls[p] \in 1 .. 27 /\ colls[p] <= colls[r] + 1 /\ colls[r] <= colls[p] + 1
            /\ pc[p] # "coll" => colls[p] <= colls[r]
        BY <2>1 DEF Control, Abreast
      <3>2. ~Busy(p)
        BY <2>1, <2>3, <3>1 DEF Busy, Places, PlaceOf
      <3>3. colls[p] \in 16 .. 20
        BY <2>3, <3>1
      <3> QED
        BY <3>2, <3>3 DEF MadeOf
    <2>5. Made = Updates
      <3>1. ASSUME NEW u \in Updates PROVE u \in Made
        <4>1. u[1] \in Ranks /\ u[2] \in 1 .. 4 * N /\ u[2] <= iterations(u[1])
          BY DEF Updates
        <4>2. N \in Nat /\ iterations(u[1]) \in Nat
          BY <4>1, Sizes
        <4>3. u[2] \in 1 .. iterations(u[1])
          BY <4>1, <4>2
        <4> QED
          BY <2>4, <4>1, <4>3 DEF Made
      <3> QED
        BY <3>1 DEF Made
    <2>6. Shows(table, colls, Updates)
      BY <1>1, <2>5 DEF TableInv, Contents, ContentsOf
    <2>7. table[q][k] = WordOf(Updates, q, k)
      BY <2>4, <2>6 DEF Shows
    <2> QED
      BY <2>7, ReferenceWord
  <1> QED
    BY <1>1, TableHolds, PTL

-----------------------------------------------------------------------------
(* The loop over total_mem ends at a table that fits into the memory.      *)
LEMMA TableSize ==
  ASSUME NEW bytes \in Nat, bytes >= 8, bytes < 8 * 2^(MaxLog + 1)
  PROVE  8 * table_size(bytes) <= bytes
  <1> DEFINE words == bytes \div 8
  <1>1. words \in Nat /\ words # 0 /\ 8 * words <= bytes /\ bytes < 8 * words + 8
    OBVIOUS
  <1>2. 2^(MaxLog + 1) \in Nat
    BY Powers DEF MaxLog
  <1> HIDE DEF words
  <1>3. words < 2^(MaxLog + 1)
    BY <1>1, <1>2
  <1>4. PICK b \in 0 .. MaxLog : 2^b <= words /\ words < 2^(b + 1)
    BY <1>1, <1>3, TopBit DEF MaxLog
  <1>5. {k \in 1 .. MaxLog : 8 * 2^k <= bytes} = 1 .. b
    <2>1. b \in 0 .. 26 /\ b + 1 \in Nat /\ 2^b \in Nat /\ 2^(b + 1) \in Nat
      BY Powers DEF MaxLog
    <2>2. ASSUME NEW k \in 1 .. b PROVE k \in 1 .. MaxLog /\ 8 * 2^k <= bytes
      <3>1. k \in Nat /\ k <= b /\ b \in Nat /\ 2^k \in Nat
        BY <2>1, Powers
      <3>2. 2^k <= 2^b
        BY <3>1, PowersMonotone
      <3>3. k \in 1 .. MaxLog
        BY <2>1 DEF MaxLog
      <3> QED
        BY <1>1, <1>4, <2>1, <3>1, <3>2, <3>3
    <2>3. ASSUME NEW k \in 1 .. MaxLog, 8 * 2^k <= bytes PROVE k \in 1 .. b
      <3>1. k \in Nat /\ 2^k \in Nat
        BY Powers DEF MaxLog
      <3>2. ~(2^(b + 1) <= 2^k)
        BY <1>1, <1>4, <2>1, <2>3, <3>1
      <3>3. ~(b + 1 <= k)
        BY <2>1, <3>1, <3>2, PowersMonotone
      <3> QED
        BY <2>1, <3>1, <3>3
    <2> QED
      BY <2>2, <2>3
  <1>6. log_table_size(bytes) = b
    <2>1. b \in Nat
      BY DEF MaxLog
    <2>2. Cardinality(1 .. b) = b
      BY <2>1, FS_Interval
    <2> QED
      BY <1>5, <2>2 DEF log_table_size
  <1>7. 2^b \in Nat /\ 2^(b + 1) = 2 * 2^b
    BY Powers DEF MaxLog
  <1> QED
    BY <1>1, <1>4, <1>6, <1>7 DEF table_size

(* The words of every table are shared among the ranks, none is updated at *)
(* the wrong place, and the table fits into the memory that there is.      *)
THEOREM TablesSharedHolds == Spec => []TablesShared
  <1>1. ASSUME NEW words \in 1 .. MaxN, NEW P \in 1 .. MaxP
        PROVE  /\ TablesTile(words, P) /\ Balanced(words, P)
               /\ \A g \in 0 .. words - 1 : UpdateHitsWord(words, P, g)
    BY TablesCorrect, UpdatesCorrect DEF MaxN, MaxP
  <1>2. ASSUME NEW bytes \in 8 .. 8 * MaxN
        PROVE  8 * table_size(bytes) <= bytes
    <2>1. bytes \in Nat /\ bytes >= 8 /\ bytes <= 1280
      BY DEF MaxN
    <2>2. 8 * 2^(MaxLog + 1) >= 1281
      <3> DEFINE p(n) == 2^n
      <3>1. p(0) = 1 /\ \A n \in Nat : p(n) \in Nat /\ p(n + 1) = 2 * p(n)
        BY Powers
      <3>2. p(8) <= p(27)
        BY PowersMonotone
      <3> HIDE DEF p
      <3>3. p(1) = 2 /\ p(2) = 4 /\ p(3) = 8 /\ p(4) = 16
        BY <3>1, 0 + 1 = 1, 1 + 1 = 2, 2 + 1 = 3, 3 + 1 = 4
      <3>4. p(5) = 32 /\ p(6) = 64 /\ p(7) = 128 /\ p(8) = 256
        BY <3>1, <3>3, 4 + 1 = 5, 5 + 1 = 6, 6 + 1 = 7, 7 + 1 = 8
      <3>5. p(27) \in Nat /\ 8 * p(27) >= 1281
        BY <3>1, <3>2, <3>4
      <3> QED
        BY <3>5 DEF MaxLog, p
    <2>3. 2^(MaxLog + 1) \in Nat
      BY Powers DEF MaxLog
    <2>4. bytes < 8 * 2^(MaxLog + 1)
      BY <2>1, <2>2, <2>3
    <2> QED
      BY <2>1, <2>4, TableSize
  <1>3. TablesShared
    BY <1>1, <1>2 DEF TablesShared
  <1> QED
    BY <1>3, PTL
====
