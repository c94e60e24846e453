----------------------------- MODULE Partition -----------------------------
(***************************************************************************)
(* How random_access.c distributes a table of N words over P ranks, and    *)
(* how update_table finds the rank and the local index of a global offset. *)
(* The first N mod P ranks ("the top") own one word more than the others.  *)
(* The two computations are written independently in the code: each rank   *)
(* derives its own share from its rank, and the share of others from a     *)
(* global offset.                                                          *)
(***************************************************************************)
EXTENDS Integers, FiniteSets

MaxLog == 26    \* bound on log_table_size

(* bytes is the memory of all ranks; total_mem, in words of 8 bytes, is    *)
(* halved for as long as one word is left.                                 *)
log_table_size(bytes) == Cardinality({k \in 1 .. MaxLog : 8 * 2^k <= bytes})
table_size(bytes) == 2 ^ log_table_size(bytes)

min_local_table_size(N, P) == N \div P
remainder(N, P) == N - (min_local_table_size(N, P) * P)
num_top_table_entries(N, P) == (min_local_table_size(N, P) + 1) * remainder(N, P)

(* What rank r owns                                                        *)
local_table_size(N, P, r) ==
  IF r < remainder(N, P) THEN min_local_table_size(N, P) + 1 ELSE min_local_table_size(N, P)

global_start_my_proc(N, P, r) ==
  IF r < remainder(N, P) THEN (min_local_table_size(N, P) + 1) * r
                         ELSE (min_local_table_size(N, P) * r) + remainder(N, P)

(* Faulty variant: the surplus words of the top ranks are not skipped      *)
remote_pe_no_remainder(N, P, g) ==
  IF g < num_top_table_entries(N, P)
    THEN g \div (min_local_table_size(N, P) + 1)
    ELSE g \div min_local_table_size(N, P)

(* Who owns the global offset g                                            *)
remote_pe(N, P, g) ==
  IF g < num_top_table_entries(N, P)
    THEN g \div (min_local_table_size(N, P) + 1)
    ELSE (g - remainder(N, P)) \div min_local_table_size(N, P)

global_start_at_pe(N, P, g) ==
  IF g < num_top_table_entries(N, P)
    THEN (min_local_table_size(N, P) + 1) * remote_pe(N, P, g)
    ELSE (min_local_table_size(N, P) * remote_pe(N, P, g)) + remainder(N, P)

index(N, P, g) == g - global_start_at_pe(N, P, g)

-----------------------------------------------------------------------------
(* An update goes to a rank that exists, to a word inside that rank's      *)
(* table, and to the word that this rank takes for offset g.               *)
UpdateHitsWord(N, P, g) ==
  LET pe == remote_pe(N, P, g)
  IN  /\ pe \in 0 .. P - 1
      /\ index(N, P, g) \in 0 .. local_table_size(N, P, pe) - 1
      /\ global_start_my_proc(N, P, pe) + index(N, P, g) = g

(* The local tables are adjacent, start at word 0 and end at word N: no    *)
(* word is owned twice or by nobody, and (the update streams being four    *)
(* times as long) no update is made twice or left out.                     *)
TablesTile(N, P) ==
  /\ global_start_my_proc(N, P, 0) = 0
  /\ \A r \in 0 .. P - 1 :
       LET end == global_start_my_proc(N, P, r) + local_table_size(N, P, r)
       IN  IF r = P - 1 THEN end = N ELSE end = global_start_my_proc(N, P, r + 1)

(* "the largest difference in elements of T[ ] is one"                     *)
Balanced(N, P) ==
  \A r, q \in 0 .. P - 1 : local_table_size(N, P, r) <= local_table_size(N, P, q) + 1
=============================================================================
