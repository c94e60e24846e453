-------------------------------- MODULE Lfsr --------------------------------
(***************************************************************************)
(* The random stream of random_access.c: x(0) = 1 and x(n+1) is x(n)       *)
(* shifted left, with POLY xor-ed in when the top bit falls out.           *)
(* generate_initial_xor_val computes x(n) directly, by squaring, so that   *)
(* every rank can start where the stream of the rank before it ends.       *)
(*                                                                         *)
(* A word of Width bits is the set of its 1 bits; xor is the symmetric     *)
(* difference.  Recursion is written with functions.                       *)
(***************************************************************************)
EXTENDS Integers, FiniteSets

CONSTANTS
  Width,    \* 64 in the code
  Poly      \* POLY, 0x7 in the code

ASSUME WidthAssumption == Width \in Nat \ {0, 1}
ASSUME PolyAssumption == Poly \subseteq 0 .. Width - 1 /\ 0 \in Poly

Word == SUBSET (0 .. Width - 1)
Xor(a, b) == (a \ b) \cup (b \ a)

(* (x << 1) ^ ((int64_t)x < 0 ? POLY : 0)                                  *)
Step(x) ==
  Xor({b + 1 : b \in x \ {Width - 1}}, IF Width - 1 \in x THEN Poly ELSE {})

(* The low bits of a word as a number: ran & (2^bits - 1)                  *)
LowBits(x, bits) ==
  LET low[b \in 0 .. bits] ==
        IF b = 0 THEN 0 ELSE low[b - 1] + IF b - 1 \in x THEN 2^(b - 1) ELSE 0
  IN  low[bits]

(* The word of a number below 2^Width                                      *)
ToWord(n) == {b \in 0 .. Width - 1 : (n \div 2^b) % 2 = 1}

(* m2[i]: the initial word after 2i steps                                  *)
m2 ==
  LET f[n \in 0 .. Width - 1] == IF n = 0 THEN {0} ELSE Step(Step(f[n - 1]))
  IN  [n \in 0 .. Width - 1 |-> f[n]]

(* temp ^= m2[j] for every bit j of ret: a bit that an odd number of these *)
(* words have                                                              *)
Square(ret) ==
  {b \in 0 .. Width - 1 : Cardinality({j \in ret : b \in m2[j]}) % 2 = 1}

(* Faulty variant: the square is not multiplied for the last bit           *)
generate_no_last_bit(seed) ==
  IF seed = 0 THEN {0}
  ELSE LET top == CHOOSE b \in 0 .. 62 : 2^b <= seed /\ seed < 2^(b + 1)
           ret[b \in 0 .. top] ==
             IF b = top THEN {1}
             ELSE IF (seed \div 2^b) % 2 = 1 /\ b > 0 THEN Step(Square(ret[b + 1]))
                                                      ELSE Square(ret[b + 1])
       IN  ret[0]

(* ret starts as 2 for the highest bit of seed; every lower bit squares    *)
(* it, and multiplies it by 2 where the bit is set.  Seeds stay far below  *)
(* PERIOD, so that the loop that reduces them never runs.                  *)
generate_initial_xor_val(seed) ==
  IF seed = 0 THEN {0}
  ELSE LET top == CHOOSE b \in 0 .. 62 : 2^b <= seed /\ seed < 2^(b + 1)
           ret[b \in 0 .. top] ==
             IF b = top THEN {1}
             ELSE IF (seed \div 2^b) % 2 = 1 THEN Step(Square(ret[b + 1]))
                                             ELSE Square(ret[b + 1])
       IN  ret[0]
=============================================================================
