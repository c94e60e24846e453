--------------------------- MODULE MCRandomAccess ---------------------------
(* Model-checking instance of RandomAccess.  The state machine runs on a    *)
(* small table of short words; what does not depend on the state is checked *)
(* once, in the initial state, for larger tables and for words of the       *)
(* code's own width.                                                        *)
EXTENDS RandomAccess

MaxN == 160    \* bound: the words of a table, the elements of the stream
MaxP == 12     \* bound: ranks

Full == INSTANCE Lfsr WITH Width <- 64, Poly <- {0, 1, 2}

(* For every table, power of two or not, and any number of ranks, more     *)
(* ranks than words included: the local tables tile the table and differ   *)
(* by at most one word, and every offset is updated at its owner.          *)
(* For every amount of memory the table that the loop over total_mem       *)
(* arrives at fits into it.                                                *)
TablesShared ==
  Init =>
    /\ \A words \in 1 .. MaxN, P \in 1 .. MaxP :
         /\ TablesTile(words, P) /\ Balanced(words, P)
         /\ \A g \in 0 .. words - 1 : UpdateHitsWord(words, P, g)
    /\ \A bytes \in 8 .. 8 * MaxN : 8 * table_size(bytes) <= bytes

(* The jump of generate_initial_xor_val lands where single steps of        *)
(* update_table lead, so that the streams of the ranks join seamlessly.    *)
JumpsToStream ==
  LET x[n \in 0 .. MaxN] == IF n = 0 THEN {0} ELSE Full!Step(x[n - 1])
  IN  Init => \A n \in 0 .. MaxN : Full!generate_initial_xor_val(n) = x[n]
=============================================================================
