---------------------------- MODULE RandomAccess ----------------------------
(***************************************************************************)
(* The benchmark of random_access.c, from the barrier before               *)
(* random_access() to the end of main.  The ranks distribute a table of    *)
(* 2^LogTableSize words (module Partition), update words of each other     *)
(* with remote atomic xors along a random stream (module Lfsr), do the     *)
(* same again to undo it, and count the words that differ from their       *)
(* initial value.                                                          *)
(*                                                                         *)
(* The collectives are used through what module Barrier promises and       *)
(* PmiColl shows: a rank leaves its n-th one once all have entered theirs. *)
(* Remote atomics are libfabric's: the scratch word is read when the       *)
(* operation is carried out, and an operation may fail, MaxLost times.     *)
(***************************************************************************)
EXTENDS Integers, Sequences, FiniteSets, SequencesExt, Partition, Lfsr

CONSTANTS
  num_ranks,
  LogTableSize,     \* log_table_size
  MaxLost           \* bound: atomics that fail

ASSUME RanksAssumption == num_ranks \in Nat \ {0}
(* The table is smaller than PERIOD, and index in update_table is an int.  *)
ASSUME TableAssumption ==
  /\ LogTableSize \in 0 .. Width /\ LogTableSize <= 58
  /\ min_local_table_size(2 ^ LogTableSize, num_ranks) < 2 ^ 30
ASSUME BoundAssumption == MaxLost \in Nat

Ranks == 0 .. num_ranks - 1
N == 2 ^ LogTableSize
Local(r) == 0 .. local_table_size(N, num_ranks, r) - 1
Start(r) == global_start_my_proc(N, num_ranks, r)

(* The collectives in the order of the code, by what they are for          *)
Script ==
  << "begin", "alloc", "abort", "aborted",
     "x_begin", "table_key", "x_1", "lock_key", "x_2", "table_addr", "x_3", "x_4",
     "lock_addr", "x_end",
     "update1", "updated1", "gups", "score", "scored",
     "update2", "updated2", "verified", "errors", "reported",
     "end", "fini", "finalize" >>
Pos == [name \in ToSet(Script) |-> CHOOSE k \in 1 .. Len(Script) : Script[k] = name]

VARIABLES
  pc, at, colls,          \* a rank's place, its collective, those entered
  hpcc_table, hpcc_lock,  \* memory: "none", "live" or "freed"
  recv_abort,             \* the number of ranks that could not allocate
  mr, ep,                 \* l_table_mr and the endpoints: "none", "open", "closed"
  table,                  \* table[r][k]: word k of rank r's hpcc_table
  i, ran, scratch,        \* update_table: loop index, stream, scratch[0]
  out, scq,               \* atomics under way; scq[r][p]: completions of peer p
  v, num_errors, global_num_errors,   \* the verification
  lost                    \* history: updates that were not carried out

memVars == <<hpcc_table, hpcc_lock, recv_abort, mr, ep>>
updVars == <<table, i, ran, scratch, out, scq, lost>>
verVars == <<v, num_errors, global_num_errors>>
vars == <<pc, at, colls, memVars, updVars, verVars>>

TypeOK ==
  /\ pc \in [Ranks -> {"coll", "update", "wait", "verify", "done"}]
  /\ at \in [Ranks -> 1 .. Len(Script)]
  /\ colls \in [Ranks -> 1 .. Len(Script)]
  /\ hpcc_table \in [Ranks -> {"none", "live", "freed"}]
  /\ hpcc_lock \in [Ranks -> {"none", "live", "freed"}]
  /\ recv_abort \in [Ranks -> 0 .. num_ranks]
  /\ mr \in [Ranks -> {"none", "open", "closed"}]
  /\ ep \in [Ranks -> {"open", "closed"}]
  /\ \A r \in Ranks : /\ table[r] \in [Local(r) -> Word]
                      /\ i[r] \in 0 .. 4 * Cardinality(Local(r))
                      /\ \A q \in Ranks : scq[r][q] \in 0 .. 1
                      /\ num_errors[r] \in 0 .. v[r]
                      /\ v[r] \in 0 .. Cardinality(Local(r))
  /\ ran \in [Ranks -> Word] /\ scratch \in [Ranks -> Word]
  /\ global_num_errors \in [Ranks -> 0 .. N]
  /\ lost \in 0 .. MaxLost

Init ==
  /\ pc = [r \in Ranks |-> "coll"]
  /\ at = [r \in Ranks |-> Pos["begin"]]
  /\ colls = [r \in Ranks |-> 1]
  /\ hpcc_table = [r \in Ranks |-> "none"]
  /\ hpcc_lock = hpcc_table /\ mr = hpcc_table
  /\ ep = [r \in Ranks |-> "open"]
  /\ table = [r \in Ranks |-> [k \in Local(r) |-> {}]]
  /\ ran = [r \in Ranks |-> {}] /\ scratch = ran /\ out = ran
  /\ scq = [r \in Ranks |-> [q \in Ranks |-> 0]]
  /\ i = [r \in Ranks |-> 0]
  /\ recv_abort = i /\ v = i /\ num_errors = i /\ global_num_errors = i
  /\ lost = 0

-----------------------------------------------------------------------------
Set(f, r, x) == [f EXCEPT ![r] = x]

(* r may leave the collective of that name                                 *)
Leaves(r, name) ==
  /\ pc[r] = "coll" /\ Script[at[r]] = name
  /\ \A q \in Ranks : colls[q] >= colls[r]

EnterColl(r, name) ==
  /\ pc' = Set(pc, r, "coll")
  /\ at' = Set(at, r, Pos[name])
  /\ colls' = [colls EXCEPT ![r] = @ + 1]

(* The two allocations, each of which may fail                             *)
Allocate(r) ==
  /\ Leaves(r, "begin")
  /\ \E t, l \in {"none", "live"} :
       hpcc_table' = Set(hpcc_table, r, t) /\ hpcc_lock' = Set(hpcc_lock, r, l)
  /\ EnterColl(r, "alloc")
  /\ UNCHANGED <<recv_abort, mr, ep, updVars, verVars>>

send_abort(r) == hpcc_table[r] = "none" \/ hpcc_lock[r] = "none"

(* recv_abort = ct_allreduce_int_sum(&send_abort, num_ranks)               *)
ReduceAbort(r) ==
  /\ Leaves(r, "abort")
  /\ recv_abort' = Set(recv_abort, r, Cardinality({q \in Ranks : send_abort(q)}))
  /\ EnterColl(r, "aborted")
  /\ UNCHANGED <<hpcc_table, hpcc_lock, mr, ep, updVars, verVars>>

(* Faulty variant: every rank looks at its own allocations only            *)
DecideAlone(r) ==
  /\ Leaves(r, "aborted")
  /\ IF send_abort(r)
       THEN /\ hpcc_table' = Set(hpcc_table, r, IF hpcc_table[r] = "live" THEN "freed" ELSE "none")
            /\ EnterColl(r, "end")
            /\ UNCHANGED mr
       ELSE /\ mr' = Set(mr, r, "open")
            /\ EnterColl(r, "x_begin")
            /\ UNCHANGED hpcc_table
  /\ UNCHANGED <<hpcc_lock, recv_abort, ep, updVars, verVars>>

(* If any rank failed, all free their table and go to failed_table; else   *)
(* all register their memory and exchange keys and addresses.              *)
Decide(r) ==
  /\ Leaves(r, "aborted")
  /\ IF recv_abort[r] > 0
       THEN /\ hpcc_table' = Set(hpcc_table, r, IF hpcc_table[r] = "live" THEN "freed" ELSE "none")
            /\ EnterColl(r, "end")
            /\ UNCHANGED mr
       ELSE /\ mr' = Set(mr, r, "open")
            /\ EnterColl(r, "x_begin")
            /\ UNCHANGED hpcc_table
  /\ UNCHANGED <<hpcc_lock, recv_abort, ep, updVars, verVars>>

(* Collectives that another one follows without a change of modelled       *)
(* state: barriers, exchange_registration_data, the broadcast of the score *)
Passed ==
  {"alloc", "gups", "score", "verified", "end"}
    \cup {Script[k] : k \in Pos["x_begin"] .. Pos["lock_addr"]}
Pass(r) ==
  /\ Script[at[r]] \in Passed
  /\ Leaves(r, Script[at[r]])
  /\ EnterColl(r, Script[at[r] + 1])
  /\ UNCHANGED <<memVars, updVars, verVars>>

(* Word k of r's table as the initialisation leaves it: k + global_start   *)
InitialWord(r, k) == ToWord(k + Start(r))

(* Faulty variant: the stream starts after one update per word             *)
saved_initial_one_per_word == [r \in Ranks |-> generate_initial_xor_val(Start(r))]

(* Four updates are made for every word, so the stream of r starts where   *)
(* that of the ranks before it ends.                                       *)
saved_initial_ran_val == [r \in Ranks |-> generate_initial_xor_val(4 * Start(r))]

(* Faulty variant: the updates begin without a barrier                     *)
InitTableNoBarrier(r) ==
  /\ Leaves(r, "x_end")
  /\ table' = Set(table, r, [k \in Local(r) |-> InitialWord(r, k)])
  /\ ran' = Set(ran, r, saved_initial_ran_val[r])
  /\ pc' = Set(pc, r, "update")
  /\ at' = Set(at, r, Pos["update1"])
  /\ UNCHANGED <<colls, memVars, i, scratch, out, scq, lost, verVars>>

(* Initialise the table and call update_table, which begins with a barrier *)
InitTable(r) ==
  /\ Leaves(r, "x_end")
  /\ table' = Set(table, r, [k \in Local(r) |-> InitialWord(r, k)])
  /\ EnterColl(r, "update1")
  /\ UNCHANGED <<memVars, i, ran, scratch, out, scq, lost, verVars>>

(* The second call follows the broadcast of the score.                     *)
UpdateAgain(r) ==
  /\ Leaves(r, "scored")
  /\ EnterColl(r, "update2")
  /\ UNCHANGED <<memVars, updVars, verVars>>

(* proc_num_updates                                                        *)
iterations(r) == 4 * local_table_size(N, num_ranks, r)

StartUpdates(r) ==
  /\ Leaves(r, "update1") \/ Leaves(r, "update2")
  /\ ran' = Set(ran, r, saved_initial_ran_val[r])
  /\ i' = Set(i, r, 0)
  /\ pc' = Set(pc, r, "update")
  /\ UNCHANGED <<at, colls, memVars, table, scratch, out, scq, lost, verVars>>

(* The rank and the word that the stream points at                         *)
Target(x) ==
  LET g == LowBits(x, LogTableSize)
  IN  [pe |-> remote_pe(N, num_ranks, g), index |-> index(N, num_ranks, g)]

(* The next value of the stream, and lf_atomic_xor up to its wait          *)
PostXor(r) ==
  /\ pc[r] = "update" /\ i[r] < iterations(r)
  /\ ran' = Set(ran, r, Step(ran[r]))
  /\ scratch' = Set(scratch, r, ran'[r])
  /\ out' = [out EXCEPT ![r] = @ \cup {Target(ran'[r])}]
  /\ i' = [i EXCEPT ![r] = @ + 1]
  /\ pc' = Set(pc, r, "wait")
  /\ UNCHANGED <<at, colls, memVars, table, scq, lost, verVars>>

(* Faulty variant: a wait for one completion too many                      *)
WaitForTwo(r) ==
  /\ pc[r] = "wait"
  /\ scq[r][Target(ran[r]).pe] > 1
  /\ scq' = [scq EXCEPT ![r][Target(ran[r]).pe] = @ - 2]
  /\ pc' = Set(pc, r, "update")
  /\ UNCHANGED <<at, colls, memVars, table, i, ran, scratch, out, lost, verVars>>

(* wait_for_comp(scq, 1).  An error completion ends the wait as well, and  *)
(* nobody looks at the result.                                             *)
wait_for_comp(r) ==
  /\ pc[r] = "wait"
  /\ scq[r][Target(ran[r]).pe] > 0
  /\ scq' = [scq EXCEPT ![r][Target(ran[r]).pe] = @ - 1]
  /\ pc' = Set(pc, r, "update")
  /\ UNCHANGED <<at, colls, memVars, table, i, ran, scratch, out, lost, verVars>>

EndUpdates(r) ==
  /\ pc[r] = "update" /\ i[r] = iterations(r)
  /\ EnterColl(r, Script[at[r] + 1])
  /\ UNCHANGED <<memVars, updVars, verVars>>

(* update_table returns for the first time, and for the second             *)
Updated(r) ==
  /\ Leaves(r, "updated1")
  /\ EnterColl(r, "gups")
  /\ UNCHANGED <<memVars, updVars, verVars>>

StartVerify(r) ==
  /\ Leaves(r, "updated2")
  /\ pc' = Set(pc, r, "verify")
  /\ UNCHANGED <<at, colls, memVars, updVars, verVars>>

(* Faulty variant: the word is compared with its local index               *)
VerifyWordLocal(r) ==
  /\ pc[r] = "verify" /\ v[r] \in Local(r)
  /\ num_errors' = [num_errors EXCEPT ![r] = @ + IF table[r][v[r]] # ToWord(v[r]) THEN 1 ELSE 0]
  /\ v' = [v EXCEPT ![r] = @ + 1]
  /\ UNCHANGED <<pc, at, colls, memVars, updVars, global_num_errors>>

(* One round of the verification loop                                      *)
VerifyWord(r) ==
  /\ pc[r] = "verify" /\ v[r] \in Local(r)
  /\ num_errors' = [num_errors EXCEPT ![r] = @ + IF table[r][v[r]] # InitialWord(r, v[r]) THEN 1 ELSE 0]
  /\ v' = [v EXCEPT ![r] = @ + 1]
  /\ UNCHANGED <<pc, at, colls, memVars, updVars, global_num_errors>>

EndVerify(r) ==
  /\ pc[r] = "verify" /\ v[r] \notin Local(r)
  /\ EnterColl(r, "verified")
  /\ UNCHANGED <<memVars, updVars, verVars>>

(* The sum over the ranks, as CT_ALLREDUCE_FUNC computes it                *)
Total(f) == LET sum[n \in 0 .. num_ranks] == IF n = 0 THEN 0 ELSE sum[n - 1] + f[n - 1]
            IN  sum[num_ranks]

ReduceErrors(r) ==
  /\ Leaves(r, "errors")
  /\ global_num_errors' = Set(global_num_errors, r, Total(num_errors))
  /\ EnterColl(r, "reported")
  /\ UNCHANGED <<memVars, updVars, v, num_errors>>

(* Rank 0 prints; the registrations are closed, the memory is freed        *)
Release(r) ==
  /\ Leaves(r, "reported")
  /\ mr' = Set(mr, r, "closed")
  /\ hpcc_table' = Set(hpcc_table, r, "freed")
  /\ hpcc_lock' = Set(hpcc_lock, r, "freed")
  /\ EnterColl(r, "end")
  /\ UNCHANGED <<recv_abort, ep, updVars, verVars>>

(* fini_gnix_prov                                                          *)
Fini(r) ==
  /\ Leaves(r, "fini")
  /\ ep' = Set(ep, r, "closed")
  /\ EnterColl(r, "finalize")
  /\ UNCHANGED <<hpcc_table, hpcc_lock, recv_abort, mr, updVars, verVars>>

Exit(r) ==
  /\ Leaves(r, "finalize")
  /\ pc' = Set(pc, r, "done")
  /\ UNCHANGED <<at, colls, memVars, updVars, verVars>>

-----------------------------------------------------------------------------
(* libfabric carries out an atomic of r, or fails to, and reports it       *)
Complete(r) ==
  \E op \in out[r] :
    /\ \/ /\ table' = [table EXCEPT ![op.pe][op.index] = Xor(@, scratch[r])]
          /\ UNCHANGED lost
       \/ /\ lost < MaxLost
          /\ lost' = lost + 1
          /\ UNCHANGED table
    /\ out' = [out EXCEPT ![r] = @ \ {op}]
    /\ scq' = [scq EXCEPT ![r][op.pe] = @ + 1]
    /\ UNCHANGED <<pc, at, colls, memVars, i, ran, scratch, verVars>>

RankStep(r) ==
  \/ Allocate(r) \/ ReduceAbort(r) \/ Decide(r) \/ Pass(r)
  \/ InitTable(r) \/ StartUpdates(r) \/ PostXor(r) \/ wait_for_comp(r) \/ EndUpdates(r)
  \/ Updated(r) \/ UpdateAgain(r) \/ StartVerify(r) \/ VerifyWord(r) \/ EndVerify(r)
  \/ ReduceErrors(r) \/ Release(r) \/ Fini(r) \/ Exit(r)

Next == \E r \in Ranks : RankStep(r) \/ Complete(r)

(* Ranks are processes that keep running; libfabric makes progress.        *)
Fairness == \A r \in Ranks : WF_vars(RankStep(r)) /\ WF_vars(Complete(r))

Spec == Init /\ [][Next]_vars /\ Fairness

-----------------------------------------------------------------------------
(* An update under way finds a table that is allocated, registered and     *)
(* initialised, and open endpoints on both sides: the barriers of          *)
(* update_table keep it apart from what comes before and after.            *)
TargetsReady ==
  \A r \in Ranks : \A op \in out[r] :
    /\ hpcc_table[op.pe] = "live" /\ mr[op.pe] = "open"
    /\ at[op.pe] >= Pos["update1"]
    /\ ep[r] = "open" /\ ep[op.pe] = "open"

(* What a single stream of 4 * TableSize updates leaves in word g          *)
Stream == LET x[k \in 0 .. 4 * N] == IF k = 0 THEN {0} ELSE Step(x[k - 1])
          IN  [k \in 1 .. 4 * N |-> x[k]]
Reference ==
  [g \in 0 .. N - 1 |->
     {b \in 0 .. Width - 1 :
        LET hits == {k \in DOMAIN Stream : LowBits(Stream[k], LogTableSize) = g /\ b \in Stream[k]}
        IN  (Cardinality(hits) % 2 = 1) # (b \in ToWord(g))}]

(* The ranks together do what one rank alone would: after the first        *)
(* update_table, and if no update was lost, each word has received the     *)
(* updates of a single random stream, whatever their order.                *)
StreamsCompose ==
  lost = 0 /\ (\E r \in Ranks : at[r] \in Pos["gups"] .. Pos["scored"]) =>
    \A r \in Ranks : \A k \in Local(r) : table[r][k] = Reference[k + Start(r)]

(* The verification neither misses a lost update nor reports one that was  *)
(* made: without loss all words are back at their initial value, and one   *)
(* lost update shows as one error, on every rank.                          *)
ErrorsExact ==
  \A r \in Ranks :
    at[r] >= Pos["reported"] /\ recv_abort[r] = 0 /\ lost <= 1 => global_num_errors[r] = lost

(* Either all ranks give up after the allocations, or none does.           *)
AbortAgreed ==
  \A r, q \in Ranks :
    at[r] > Pos["aborted"] /\ at[q] > Pos["aborted"] /\ mr[r] = "none" => mr[q] = "none"

(* Ranks in the same collective are in it for the same reason, on the way  *)
(* through failed_table too.                                               *)
CollectivesMatch ==
  \A r, q \in Ranks :
    pc[r] = "coll" /\ pc[q] = "coll" /\ colls[r] = colls[q] => at[r] = at[q]

(* All ranks follow one sequence of collectives, the one through           *)
(* failed_table or the other.                                              *)
RanksInStep == TypeOK /\ AbortAgreed /\ CollectivesMatch

(* The benchmark ends, whatever fails.                                     *)
Completes == <>(\A r \in Ranks : pc[r] = "done")
=============================================================================
