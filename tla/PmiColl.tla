------------------------------ MODULE PmiColl ------------------------------
(***************************************************************************)
(* The out-of-band collectives of common/ct_utils.c and CT_ALLREDUCE_FUNC  *)
(* of include/ct_utils.h.  PMI_Allgather and PMI_Bcast are built from a    *)
(* key-value space (PMI_KVS_Put, _Commit, _Get) and PMI_Barrier, both      *)
(* external.  The barrier is module Barrier.  Of the key-value space the   *)
(* model assumes only what PMI promises: an entry can be read once its     *)
(* writer has committed it and reader and writer have then met in a        *)
(* barrier; earlier reads may fail.                                        *)
(*                                                                         *)
(* Every rank runs the same program, a sequence of calls of ctpm_Barrier,  *)
(* ctpm_Allgather, ctpm_Bcast and ct_allreduce_*, after ctpm_Init.         *)
(***************************************************************************)
EXTENDS Integers, Sequences, FiniteSets, Codec

CONSTANTS
  NRanks,     \* the job size
  Programs,   \* the programs to run, sequences of Ops
  Orders,     \* the orders PMI_Allgather may deliver in
  MaxOps      \* bound: length of the longest program

Ranks == 0 .. NRanks - 1
Ops == {"barrier", "allgather", "allreduce", "bcast"}

ASSUME NRanksAssumption == NRanks \in Nat \ {0}
ASSUME MaxOpsAssumption == MaxOps \in Nat
ASSUME ProgramsAssumption == \A p \in Programs : p \in Seq(Ops) /\ Len(p) <= MaxOps
(* A rank is an int.                                                       *)
ASSUME IntAssumption == NRanks <= 2147483647
ASSUME OrdersAssumption ==
  \A o \in Orders : o \in [Ranks -> Ranks] /\ \A r \in Ranks : \E i \in Ranks : o[i] = r

VARIABLES
  prog,       \* the program of this job
  order,      \* order[i]: whose data PMI_Allgather delivers i-th
  pc, ip,     \* where a rank is in its current call; calls completed
  cnt,        \* the static counters of PMI_Allgather and PMI_Bcast
  kvs,        \* the key-value space
  already_called, ivec,   \* the statics of allgather
  got, tmp,   \* the receive loop of PMI_Allgather: its index i, its target
  out,        \* out[r]: what r's last call delivered
  bentered, bleft         \* PMI_Barrier calls begun and completed

jobVars == <<prog, order>>
barVars == <<bentered, bleft>>
gatherVars == <<already_called, ivec, got, tmp>>
vars == <<jobVars, pc, ip, cnt, kvs, gatherVars, out, barVars>>

(* PMI_Barrier, an external service                                        *)
PMI == INSTANCE Barrier
         WITH Parties <- Ranks, MaxCalls <- 2 * MaxOps + 2, entered <- bentered, left <- bleft

Kinds == {"allg", "bcst"}
Keys == Kinds \X (0 .. MaxOps) \X Ranks
NoData == [q \in Ranks |-> <<>>]
NoEntry == [val |-> <<>>, at |-> -1]

(* An int in memory, and the int that the memory holds                     *)
Bytes(x) == <<x % 256, (x \div 256) % 256, (x \div 65536) % 256, (x \div 16777216) % 256>>
Number(b) == b[1] + 256 * b[2] + 65536 * b[3] + 16777216 * b[4]

(* What rank r passes to the n-th call: an int, different for each         *)
Input(n, r) == Bytes(n * NRanks + r)

Op(r) == prog[ip[r] + 1]
Kind(r) == IF Op(r) = "bcast" THEN "bcst" ELSE "allg"

(* "%s_rank%d" of idstr, whose number is the counter before its increment  *)
Key(r, q) == <<Kind(r), cnt[r][Kind(r)] - 1, q>>

TypeOK ==
  /\ prog \in Programs /\ order \in Orders
  /\ pc \in [Ranks -> {"boot", "booting", "idle", "send", "sync", "wait", "get",
                       "sync2", "wait2"}]
  /\ ip \in [Ranks -> 0 .. MaxOps]
  /\ cnt \in [Ranks -> [Kinds -> 0 .. MaxOps + 1]]
  /\ \A k \in Keys : kvs[k].at \in -1 .. 2 * MaxOps + 2
  /\ already_called \in [Ranks -> BOOLEAN]
  /\ got \in [Ranks -> Ranks]

Init ==
  /\ prog \in Programs /\ order \in Orders
  /\ pc = [r \in Ranks |-> "boot"]
  /\ ip = [r \in Ranks |-> 0]
  /\ cnt = [r \in Ranks |-> [k \in Kinds |-> 0]]
  /\ kvs = [k \in Keys |-> NoEntry]
  /\ already_called = [r \in Ranks |-> FALSE]
  /\ ivec = [r \in Ranks |-> <<>>]
  /\ got = [r \in Ranks |-> 0]
  /\ tmp = [r \in Ranks |-> NoData]
  /\ out = [r \in Ranks |-> <<>>]
  /\ bentered = [r \in Ranks |-> 0]
  /\ bleft = [r \in Ranks |-> 0]

Goto(r, label) == pc' = [pc EXCEPT ![r] = label]

(* The call returns res                                                    *)
Finish(r, res) ==
  /\ out' = [out EXCEPT ![r] = res]
  /\ ip' = [ip EXCEPT ![r] = @ + 1]
  /\ Goto(r, "idle")

(* Faulty variant: the counter sticks at its first value                   *)
CountNothing(r, k) == cnt' = [cnt EXCEPT ![r][k] = 1]

(* snprintf(idstr, 64, "...%d", cnt++)                                     *)
Count(r, k) == cnt' = [cnt EXCEPT ![r][k] = @ + 1]

-----------------------------------------------------------------------------
(* A rank begins its next call.  In PMI_Bcast only rank 0 sends.           *)
Call(r) ==
  /\ pc[r] = "idle"
  /\ ip[r] < Len(prog)
  /\ IF Op(r) = "barrier" THEN UNCHANGED cnt ELSE Count(r, Kind(r))
  /\ Goto(r, IF Op(r) = "barrier" \/ (Op(r) = "bcast" /\ r # 0) THEN "sync" ELSE "send")
  /\ UNCHANGED <<jobVars, ip, kvs, gatherVars, out, barVars>>

(* gni_pmi_send: encode, put and commit.  The first ctpm_Allgather of a    *)
(* rank gathers the ranks before the data.                                 *)
gni_pmi_send(r) ==
  LET data == IF Kind(r) = "allg" /\ ~already_called[r] THEN Bytes(r) ELSE Input(ip[r], r)
  IN  /\ pc[r] = "send"
      /\ kvs' = [kvs EXCEPT ![Key(r, r)] = [val |-> Encode(data), at |-> bentered[r]]]
      /\ Goto(r, "sync")
      /\ UNCHANGED <<jobVars, ip, cnt, gatherVars, out, barVars>>

(* PMI_Barrier is entered at three places: pmi_coll_init, the exchange of  *)
(* a collective, and its trailing synchronisation.                         *)
EnterBarrier(r) ==
  /\ \/ pc[r] = "boot" /\ Goto(r, "booting")
     \/ pc[r] = "sync" /\ Goto(r, "wait")
     \/ pc[r] = "sync2" /\ Goto(r, "wait2")
  /\ PMI!Enter(r)
  /\ UNCHANGED <<jobVars, ip, cnt, kvs, gatherVars, out>>

(* pmi_coll_init returns                                                   *)
Booted(r) ==
  /\ pc[r] = "booting"
  /\ PMI!Leave(r)
  /\ Goto(r, "idle")
  /\ UNCHANGED <<jobVars, ip, cnt, kvs, gatherVars, out>>

(* Faulty variant: the caller does not wait for the others                 *)
ctpm_BarrierNoWait(r) ==
  /\ pc[r] = "wait" /\ Op(r) = "barrier"
  /\ Finish(r, <<>>)
  /\ UNCHANGED <<jobVars, cnt, kvs, gatherVars, barVars>>

(* ctpm_Barrier is a single PMI_Barrier                                    *)
ctpm_Barrier(r) ==
  /\ pc[r] = "wait" /\ Op(r) = "barrier"
  /\ PMI!Leave(r)
  /\ Finish(r, <<>>)
  /\ UNCHANGED <<jobVars, cnt, kvs, gatherVars>>

(* Faulty variant: the root of a broadcast skips the trailing barrier      *)
ExchangedRootReturns(r) ==
  /\ pc[r] = "wait" /\ Op(r) # "barrier"
  /\ PMI!Leave(r)
  /\ IF Op(r) = "bcast" /\ r = 0
       THEN Finish(r, Input(ip[r], 0))
       ELSE Goto(r, "get") /\ UNCHANGED <<ip, out>>
  /\ UNCHANGED <<jobVars, cnt, kvs, gatherVars>>

(* The data is published; every rank of an allgather and every rank of a   *)
(* broadcast but the root goes on to receive it.                           *)
Exchanged(r) ==
  /\ pc[r] = "wait" /\ Op(r) # "barrier"
  /\ PMI!Leave(r)
  /\ Goto(r, IF Op(r) = "bcast" /\ r = 0 THEN "sync2" ELSE "get")
  /\ UNCHANGED <<jobVars, ip, cnt, kvs, gatherVars, out>>

(* gni_pmi_receive: get and decode; at most outlen bytes are copied        *)
gni_pmi_receive(r, q) ==
  LET keyval == kvs[Key(r, q)].val
      data == Decode(keyval)
      len == Len(Input(ip[r], r))
  IN  SubSeq(data, 1, IF DecodeOutlen(keyval) < len THEN DecodeOutlen(keyval) ELSE len)

(* One round of the receive loop of PMI_Allgather                          *)
Received(r) == [tmp[r] EXCEPT ![got[r]] = gni_pmi_receive(r, order[got[r]])]

(* Faulty variant: the loop forgets to advance                             *)
GatherStepStuck(r) ==
  /\ pc[r] = "get" /\ Op(r) # "bcast"
  /\ got[r] < NRanks - 1
  /\ tmp' = [tmp EXCEPT ![r] = Received(r)]
  /\ UNCHANGED <<jobVars, pc, ip, cnt, kvs, already_called, ivec, got, out, barVars>>

(* The loop goes on                                                        *)
GatherStep(r) ==
  /\ pc[r] = "get" /\ Op(r) # "bcast"
  /\ got[r] < NRanks - 1
  /\ tmp' = [tmp EXCEPT ![r] = Received(r)]
  /\ got' = [got EXCEPT ![r] = @ + 1]
  /\ UNCHANGED <<jobVars, pc, ip, cnt, kvs, already_called, ivec, out, barVars>>

(* The gather of the ranks ends; the gather of the data begins             *)
GatherRanksEnd(r) ==
  /\ pc[r] = "get" /\ Op(r) # "bcast" /\ ~already_called[r]
  /\ got[r] = NRanks - 1
  /\ ivec' = [ivec EXCEPT ![r] = [j \in Ranks |-> Number(Received(r)[j])]]
  /\ already_called' = [already_called EXCEPT ![r] = TRUE]
  /\ got' = [got EXCEPT ![r] = 0]
  /\ Count(r, "allg")
  /\ Goto(r, "send")
  /\ tmp' = [tmp EXCEPT ![r] = NoData]
  /\ UNCHANGED <<jobVars, ip, kvs, out, barVars>>

(* Faulty variant: the data is left in the order of its arrival            *)
UnpackInPlace(r, buf) == buf

(* memcpy(&out_ptr[len * ivec_ptr[i]], &tmp_buf[i * len], len)             *)
Unpack(r, buf) == [q \in Ranks |-> buf[CHOOSE j \in Ranks : ivec[r][j] = q]]

(* The gather of the data ends.  ctpm_Allgather returns the vector;        *)
(* ct_allreduce_* folds it and synchronises once more.                     *)
GatherDataEnd(r) ==
  /\ pc[r] = "get" /\ Op(r) # "bcast" /\ already_called[r]
  /\ got[r] = NRanks - 1
  /\ got' = [got EXCEPT ![r] = 0]
  /\ tmp' = [tmp EXCEPT ![r] = NoData]
  /\ IF Op(r) = "allgather"
       THEN Finish(r, Unpack(r, Received(r)))
       ELSE /\ Goto(r, "sync2")
            /\ out' = [out EXCEPT ![r] = Unpack(r, Received(r))]
            /\ UNCHANGED ip
  /\ UNCHANGED <<jobVars, cnt, kvs, already_called, ivec, barVars>>

(* A rank other than the root receives the broadcast                       *)
BcastReceive(r) ==
  /\ pc[r] = "get" /\ Op(r) = "bcast"
  /\ out' = [out EXCEPT ![r] = gni_pmi_receive(r, 0)]
  /\ Goto(r, "sync2")
  /\ UNCHANGED <<jobVars, ip, cnt, kvs, gatherVars, barVars>>

(* ret = vals[0] op vals[1] ..., with + for op                             *)
Reduce(vals) ==
  LET sum[n \in Ranks] == IF n = 0 THEN Number(vals[0]) ELSE sum[n - 1] + Number(vals[n])
  IN  <<sum[NRanks - 1]>>

(* The trailing barrier of PMI_Bcast and of ct_allreduce_*                 *)
Synchronised(r) ==
  /\ pc[r] = "wait2"
  /\ PMI!Leave(r)
  /\ Finish(r, CASE Op(r) = "allreduce" -> Reduce(out[r])
                 [] Op(r) = "bcast" /\ r = 0 -> Input(ip[r], 0)
                 [] OTHER -> out[r])
  /\ UNCHANGED <<jobVars, cnt, kvs, gatherVars>>

Step(r) ==
  \/ Call(r) \/ gni_pmi_send(r) \/ EnterBarrier(r)
  \/ Booted(r) \/ ctpm_Barrier(r) \/ Exchanged(r) \/ Synchronised(r)
  \/ GatherStep(r) \/ GatherRanksEnd(r) \/ GatherDataEnd(r) \/ BcastReceive(r)

Finished(r) == pc[r] = "idle" /\ ip[r] = Len(prog)

Next == \E r \in Ranks : Step(r)

(* Every rank is a process of its own that the system keeps running.       *)
Fairness == \A r \in Ranks : WF_vars(Step(r))

Spec == Init /\ [][Next]_vars /\ Fairness

-----------------------------------------------------------------------------
(* Every PMI_KVS_Get finds its key, as gni_pmi_receive asserts with        *)
(* rc == PMI_SUCCESS: the sender committed the entry before a barrier the  *)
(* receiver has since left.                                                *)
GetFinds ==
  \A r \in Ranks : pc[r] = "get" =>
    LET from == IF Op(r) = "bcast" THEN {0} ELSE Ranks
    IN  \A q \in from : kvs[Key(r, q)].at \in 0 .. bleft[r] - 1

(* ctpm_Allgather delivers every rank's data of the same call in rank      *)
(* order, whatever order PMI_Allgather uses, and ct_allreduce_* the fold   *)
(* of that data: no rank mixes two calls although PMI_Allgather does not   *)
(* end with a barrier and a fast rank may already publish its next data.   *)
GatherCorrect ==
  \A r \in Ranks : pc[r] = "idle" /\ ip[r] > 0 =>
    LET inputs == [q \in Ranks |-> Input(ip[r] - 1, q)]
    IN  CASE prog[ip[r]] = "allgather" -> out[r] = inputs
          [] prog[ip[r]] = "allreduce" -> out[r] = Reduce(inputs)
          [] OTHER -> TRUE

(* ctpm_Bcast leaves the root's data of the same call on every rank.       *)
BcastCorrect ==
  \A r \in Ranks : pc[r] = "idle" /\ ip[r] > 0 /\ prog[ip[r]] = "bcast" =>
    out[r] = Input(ip[r] - 1, 0)

(* A published entry is never overwritten, however many collectives the    *)
(* program makes: PMI_KVS_Put of a key twice is undefined.                 *)
WriteOnce == [][\A k \in Keys : kvs[k] # NoEntry => kvs'[k] = kvs[k]]_vars

(* Ranks that wait in the same PMI_Barrier wait in the same call and at    *)
(* the same place of it: no rank's exchange is paired with the trailing    *)
(* barrier of another rank's previous call.                                *)
BarriersMatch ==
  \A r, q \in Ranks :
    /\ pc[r] \in {"wait", "wait2"} /\ pc[q] \in {"wait", "wait2"}
    /\ bentered[r] = bentered[q]
    => pc[r] = pc[q] /\ ip[r] = ip[q] /\ already_called[r] = already_called[q]

(* Each collective delivers the data of its own call, on every rank.       *)
DataOfThisCall == GatherCorrect /\ BcastCorrect

(* The ranks stay in step: receives find their keys because barriers pair  *)
(* up, and both rest on the places and counters being what TypeOK says.    *)
InStep == TypeOK /\ GetFinds /\ BarriersMatch

(* Every rank runs its program to the end: no collective hangs.            *)
Completes == <>(\A r \in Ranks : Finished(r))

(* Every collective synchronises: a rank returns from its n-th call only   *)
(* after all ranks have begun their n-th call, and it does return then.    *)
Collective ==
  INSTANCE Barrier
    WITH Parties <- Ranks, MaxCalls <- MaxOps, left <- ip,
         entered <- [r \in Ranks |-> ip[r] + IF pc[r] \in {"boot", "booting", "idle"} THEN 0 ELSE 1]
CollectivesSynchronise == Collective!Spec
=============================================================================
