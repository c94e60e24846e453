--------------------------- MODULE PmiColl_proofs ---------------------------
(***************************************************************************)
(* The collectives of common/ct_utils.c keep all ranks in step, for any    *)
(* number of ranks and any program: barriers pair up, receives find their  *)
(* keys, no key is written twice, each collective synchronises, and each   *)
(* delivers the data of its own call, through a codec that returns what it *)
(* was given.                                                              *)
(*                                                                         *)
(* Neither ranks nor barriers carry a number that the ranks compare.  The  *)
(* proof follows for each rank the barrier that it is in, or comes to      *)
(* next, as a place in the program: ranks that have left equally many      *)
(* barriers come to the same place, and a rank that has left one more      *)
(* comes to the place after it.                                            *)
(***************************************************************************)
EXTENDS PmiColl, TLAPS

Labels == {"boot", "booting", "idle", "send", "sync", "wait", "get", "sync2", "wait2"}
Outside == {"boot", "booting", "idle"}
Inside == {"booting", "wait", "wait2"}

Types ==
  /\ prog \in Programs /\ order \in Orders
  /\ pc \in [Ranks -> Labels]
  /\ ip \in [Ranks -> Nat] /\ cnt \in [Ranks -> [Kinds -> Nat]]
  /\ already_called \in [Ranks -> BOOLEAN] /\ got \in [Ranks -> Ranks]
  /\ bentered \in [Ranks -> 0 .. 2 * MaxOps + 2] /\ bleft \in [Ranks -> 0 .. 2 * MaxOps + 2]
Entries ==
  /\ kvs = [k \in Keys |-> kvs[k]]
  /\ \A k \in Keys : kvs[k].at \in -1 .. 2 * MaxOps + 2

Flag(b) == IF b THEN 1 ELSE 0
InCall(r) == IF pc[r] \in Outside THEN 0 ELSE 1

(* Where a rank can be                                                     *)
PlaceOf(r) ==
  /\ ip[r] + InCall(r) <= Len(prog)
  /\ pc[r] \in {"boot", "booting"} =>
       ip[r] = 0 /\ ~already_called[r] /\ cnt[r]["allg"] = 0 /\ cnt[r]["bcst"] = 0
  /\ pc[r] \in {"send", "get"} => Op(r) # "barrier"
  /\ pc[r] = "send" /\ Op(r) = "bcast" => r = 0
  /\ pc[r] = "get" /\ Op(r) = "bcast" => r # 0
  /\ pc[r] \in {"sync2", "wait2"} => Op(r) \in {"allreduce", "bcast"}
  /\ pc[r] \notin Outside /\ Op(r) # "barrier" => cnt[r][Kind(r)] >= 1
  /\ \A k \in Kinds : cnt[r][k] <= ip[r] + InCall(r) + Flag(already_called[r])
Places == \A r \in Ranks : PlaceOf(r)

(* A barrier of the program: the call, the place in it, and the values the *)
(* statics have there                                                      *)
Place(n, stage, flag, a, b) == [call |-> n, stage |-> stage, flag |-> flag, allg |-> a, bcst |-> b]

(* The next barrier of a rank that is about to begin its n-th call         *)
Ahead(n, flag, a, b) ==
  IF n = Len(prog) THEN Place(n, "end", flag, a, b)
  ELSE IF prog[n + 1] = "barrier" THEN Place(n, "wait", flag, a, b)
  ELSE IF prog[n + 1] = "bcast" THEN Place(n, "wait", flag, a, b + 1)
  ELSE Place(n, "wait", flag, a + 1, b)

(* The barrier after another                                               *)
After(p) ==
  IF p.stage = "boot" THEN Ahead(0, p.flag, p.allg, p.bcst)
  ELSE IF p.stage = "wait2" THEN Ahead(p.call + 1, p.flag, p.allg, p.bcst)
  ELSE IF prog[p.call + 1] = "barrier" THEN Ahead(p.call + 1, p.flag, p.allg, p.bcst)
  ELSE IF prog[p.call + 1] = "bcast" THEN Place(p.call, "wait2", p.flag, p.allg, p.bcst)
  ELSE IF p.flag = 0 THEN Place(p.call, "wait", 1, p.allg + 1, p.bcst)
  ELSE IF prog[p.call + 1] = "allgather" THEN Ahead(p.call + 1, p.flag, p.allg, p.bcst)
  ELSE Place(p.call, "wait2", p.flag, p.allg, p.bcst)

Here(r, stage) == Place(ip[r], stage, Flag(already_called[r]), cnt[r]["allg"], cnt[r]["bcst"])

(* The barrier a rank is in, or comes to next                              *)
At(r) ==
  IF pc[r] \in {"boot", "booting"} THEN Here(r, "boot")
  ELSE IF pc[r] = "idle" THEN Ahead(ip[r], Flag(already_called[r]), cnt[r]["allg"], cnt[r]["bcst"])
  ELSE IF pc[r] \in {"send", "sync", "wait"} THEN Here(r, "wait")
  ELSE IF pc[r] = "get" THEN After(Here(r, "wait"))
  ELSE Here(r, "wait2")

(* PMI_Barrier                                                             *)
Meetings ==
  /\ \A r \in Ranks : bentered[r] = bleft[r] + IF pc[r] \in Inside THEN 1 ELSE 0
  /\ \A r, q \in Ranks : bleft[r] <= bentered[q]

Segments ==
  \A r, q \in Ranks :
    /\ bleft[r] = bleft[q] => At(r) = At(q)
    /\ bleft[r] = bleft[q] + 1 => At(r) = After(At(q))
    /\ bleft[r] = bleft[q] + 1 /\ pc[r] = "get" => At(q) = Here(r, "wait")

(* What is still to be written is not there yet.                           *)
Unsent ==
  \A q \in Ranks, k \in Kinds, n \in 0 .. MaxOps :
    n >= cnt[q][k] \/ (n = cnt[q][k] - 1 /\ pc[q] = "send" /\ Kind(q) = k) =>
      kvs[<<k, n, q>>] = NoEntry

(* Whether q has written when a rank in the same call comes to read        *)
Writes(r, q) == Op(r) # "barrier" /\ (Op(r) = "bcast" => q = 0)
Sent ==
  \A q \in Ranks : pc[q] \in {"sync", "wait"} /\ Writes(q, q) => kvs[Key(q, q)].at = bleft[q]

(* The entries a rank reads are there, and were when it left the exchange. *)
Found ==
  \A r, q \in Ranks :
    /\ pc[r] = "get" /\ Writes(r, q) => kvs[Key(r, q)].at \in 0 .. bleft[r] - 1
    /\ pc[r] = "wait" /\ bleft[q] = bleft[r] + 1 /\ Writes(r, q) => kvs[Key(r, q)].at \in 0 .. bleft[r]

IInv == Types /\ Entries /\ Places /\ Meetings /\ Segments /\ Unsent /\ Sent /\ Found

-----------------------------------------------------------------------------
LEMMA Job ==
  ASSUME Types
  PROVE  /\ Len(prog) \in Nat /\ Len(prog) <= MaxOps /\ MaxOps \in Nat
         /\ \A n \in Nat : n < Len(prog) => prog[n + 1] \in Ops
  <1>1. prog \in Seq(Ops) /\ Len(prog) <= MaxOps
    BY ProgramsAssumption DEF Types
  <1>2. Len(prog) \in Nat /\ \A n \in 1 .. Len(prog) : prog[n] \in Ops
    BY <1>1
  <1>3. \A n \in Nat : n < Len(prog) => n + 1 \in 1 .. Len(prog)
    BY <1>2
  <1> QED
    BY <1>1, <1>2, <1>3, MaxOpsAssumption

LEMMA RankTypes == Ranks \subseteq Nat /\ 0 \in Ranks
  BY NRanksAssumption DEF Ranks

LEMMA InitInv == Init => IInv
  <1> SUFFICES ASSUME Init PROVE IInv
    OBVIOUS
  <1>1. 0 \in Ranks /\ MaxOps \in Nat
    BY MaxOpsAssumption, RankTypes
  <1>2. Types
    BY <1>1 DEF Init, Types, Labels, Kinds
  <1>3. Entries
    BY <1>1 DEF Init, Entries, NoEntry
  <1>4. Places
    BY <1>2, Job DEF Init, Places, PlaceOf, InCall, Outside, Flag, Kinds
  <1>5. Meetings
    BY <1>1 DEF Init, Meetings, Inside
  <1>6. Segments
    BY <1>1 DEF Init, Segments, At, Here, Flag, Kinds
  <1>7. Unsent
    BY <1>1 DEF Init, Unsent, Keys
  <1>8. Sent /\ Found
    BY <1>1 DEF Init, Sent, Found
  <1> QED
    BY <1>2, <1>3, <1>4, <1>5, <1>6, <1>7, <1>8 DEF IInv

-----------------------------------------------------------------------------
(* Each action moves one rank, and takes it to the next barrier of the     *)
(* program if it leaves one, or else nowhere.                              *)

Others(r) ==
  /\ prog' = prog /\ order' = order
  /\ \A q \in Ranks \ {r} :
       /\ pc'[q] = pc[q] /\ ip'[q] = ip[q] /\ cnt'[q] = cnt[q]
       /\ already_called'[q] = already_called[q]
       /\ bentered'[q] = bentered[q] /\ bleft'[q] = bleft[q]

(* The parts of Types that no action can spoil by itself                   *)
LEMMA RankFacts ==
  ASSUME Types, Places, NEW r \in Ranks
  PROVE  /\ pc[r] \in Labels /\ ip[r] \in Nat /\ already_called[r] \in BOOLEAN
         /\ cnt[r] \in [Kinds -> Nat] /\ cnt[r]["allg"] \in Nat /\ cnt[r]["bcst"] \in Nat
         /\ Kind(r) \in Kinds
         /\ pc[r] \notin Outside => ip[r] < Len(prog) /\ Op(r) \in Ops
         /\ pc[r] \in Outside => ip[r] <= Len(prog)
  <1>1. PlaceOf(r)
    BY DEF Places
  <1>2. pc[r] \in Labels /\ ip[r] \in Nat /\ already_called[r] \in BOOLEAN /\ cnt[r] \in [Kinds -> Nat]
    BY DEF Types
  <1>3. pc[r] \notin Outside => ip[r] + 1 <= Len(prog)
    BY <1>1 DEF PlaceOf, InCall
  <1>4. pc[r] \in Outside => ip[r] + 0 <= Len(prog)
    BY <1>1 DEF PlaceOf, InCall
  <1> QED
    BY <1>2, <1>3, <1>4, Job DEF Kinds, Kind, Op

LEMMA CallMoves ==
  ASSUME Types, Places, NEW r \in Ranks, Call(r)
  PROVE  Types' /\ Places' /\ Others(r) /\ At(r)' = At(r)
  <1>1. PlaceOf(r)
    BY DEF Places
  <1>2. /\ Len(prog) \in Nat /\ pc[r] \in Labels /\ ip[r] \in Nat /\ already_called[r] \in BOOLEAN
        /\ cnt[r] \in [Kinds -> Nat] /\ cnt[r]["allg"] \in Nat /\ cnt[r]["bcst"] \in Nat
        /\ Kind(r) \in Kinds
        /\ pc[r] \notin Outside => ip[r] < Len(prog) /\ Op(r) \in Ops
        /\ pc[r] \in Outside => ip[r] <= Len(prog)
    BY RankFacts, Job
  <1>3. /\ pc[r] = "idle" /\ ip[r] < Len(prog) /\ ip'[r] = ip[r] /\ already_called'[r] = already_called[r]
        /\ cnt'[r] = IF Op(r) = "barrier" THEN cnt[r] ELSE [cnt[r] EXCEPT ![Kind(r)] = @ + 1]
        /\ pc'[r] = IF Op(r) = "barrier" \/ (Op(r) = "bcast" /\ r # 0) THEN "sync" ELSE "send"
    BY <1>2 DEF Call, Goto, Count, Types, gatherVars, Kinds
  <1>4. prog' = prog /\ order' = order
    BY DEF Call, jobVars
  <1>5. Others(r)
    BY <1>4, <1>2 DEF Call, Goto, Count, jobVars, barVars, gatherVars, Types, Others
  <1>6. Types'
    <2>1. pc' \in [Ranks -> Labels] /\ got' \in [Ranks -> Ranks] /\ ip' \in [Ranks -> Nat]
      BY <1>2, <1>3, RankTypes, NRanksAssumption DEF Call, Goto, Count, Types, Labels, Ranks, gatherVars
    <2>2. cnt' \in [Ranks -> [Kinds -> Nat]] /\ already_called' \in [Ranks -> BOOLEAN]
      <3>1. CASE Op(r) = "barrier"
        BY <3>1 DEF Call, Types, gatherVars
      <3>2. CASE Op(r) # "barrier"
        <4>1. cnt' = [cnt EXCEPT ![r][Kind(r)] = @ + 1]
          BY <3>2 DEF Call, Count
        <4>2. cnt' \in [Ranks -> [Kinds -> Nat]]
          BY <1>2, <4>1 DEF Types
        <4> QED
          BY <4>2 DEF Call, Types, gatherVars
      <3> QED
        BY <3>1, <3>2
    <2>3. bentered' \in [Ranks -> 0 .. 2 * MaxOps + 2] /\ bleft' \in [Ranks -> 0 .. 2 * MaxOps + 2]
      BY DEF Call, Types, barVars
    <2> QED
      BY <1>4, <2>1, <2>2, <2>3 DEF Types
  <1>7. Places'
    <2>1. PlaceOf(r)'
      <3>1. /\ Op(r)' = Op(r) /\ Kind(r)' = Kind(r) /\ InCall(r) = 0 /\ InCall(r)' = 1
            /\ Flag(already_called[r])' = Flag(already_called[r]) /\ Flag(already_called[r]) \in {0, 1}
        BY <1>3, <1>4 DEF Op, Kind, InCall, Outside, Flag
      <3>2. \A k \in Kinds : cnt[r][k] \in Nat /\ cnt[r][k] <= ip[r] + 0 + Flag(already_called[r])
        BY <1>1, <1>2, <3>1 DEF PlaceOf
      <3>3. \A k \in Kinds : cnt'[r][k] <= ip'[r] + 1 + Flag(already_called[r])
        BY <1>2, <1>3, <3>1, <3>2
      <3>4. Op(r) # "barrier" => cnt'[r][Kind(r)] >= 1
        BY <1>2, <1>3
      <3>5. ip'[r] + 1 <= Len(prog)
        BY <1>2, <1>3
      <3>6. /\ pc'[r] \in {"sync", "send"}
            /\ pc'[r] = "send" => Op(r) # "barrier"
            /\ pc'[r] = "send" /\ Op(r) = "bcast" => r = 0
        BY <1>3
      <3>7. /\ \A k \in Kinds : cnt'[r][k] <= ip'[r] + InCall(r)' + Flag(already_called[r])'
            /\ ip'[r] + InCall(r)' <= Len(prog') /\ (Op(r)' # "barrier" => cnt'[r][Kind(r)'] >= 1)
        BY <1>4, <3>1, <3>3, <3>4, <3>5
      <3>8. /\ pc'[r] \notin {"boot", "booting", "get", "sync2", "wait2"}
            /\ pc'[r] = "send" => Op(r)' # "barrier" /\ (Op(r)' = "bcast" => r = 0)
        BY <3>1, <3>6
      <3> QED
        BY <3>7, <3>8 DEF PlaceOf
    <2>2. \A q \in Ranks \ {r} : PlaceOf(q)'
      BY <1>5 DEF Others, Places, PlaceOf, Op, Kind, InCall, Flag
    <2> QED
      BY <2>1, <2>2 DEF Places
  <1>8. At(r)' = At(r)
    <2> DEFINE F == Flag(already_called[r])
    <2>1. At(r) = Ahead(ip[r], F, cnt[r]["allg"], cnt[r]["bcst"])
      BY <1>3 DEF At
    <2>2. At(r)' = Place(ip[r], "wait", F, cnt'[r]["allg"], cnt'[r]["bcst"])
      BY <1>3 DEF At, Here, Flag
    <2>3. CASE Op(r) = "barrier"
      <3>1. Ahead(ip[r], F, cnt[r]["allg"], cnt[r]["bcst"]) = Place(ip[r], "wait", F, cnt[r]["allg"], cnt[r]["bcst"])
        BY <1>2, <1>3, <2>3 DEF Ahead, Op
      <3> QED
        BY <1>3, <2>1, <2>2, <2>3, <3>1
    <2>4. CASE Op(r) = "bcast"
      <3>1. Ahead(ip[r], F, cnt[r]["allg"], cnt[r]["bcst"]) = Place(ip[r], "wait", F, cnt[r]["allg"], cnt[r]["bcst"] + 1)
        BY <1>2, <1>3, <2>4 DEF Ahead, Op
      <3>2. cnt'[r]["allg"] = cnt[r]["allg"] /\ cnt'[r]["bcst"] = cnt[r]["bcst"] + 1
        BY <1>2, <1>3, <2>4 DEF Kind, Kinds
      <3> QED
        BY <2>1, <2>2, <3>1, <3>2
    <2>5. CASE Op(r) \notin {"barrier", "bcast"}
      <3>1. Ahead(ip[r], F, cnt[r]["allg"], cnt[r]["bcst"]) = Place(ip[r], "wait", F, cnt[r]["allg"] + 1, cnt[r]["bcst"])
        BY <1>2, <1>3, <2>5 DEF Ahead, Op
      <3>2. cnt'[r]["allg"] = cnt[r]["allg"] + 1 /\ cnt'[r]["bcst"] = cnt[r]["bcst"]
        BY <1>2, <1>3, <2>5 DEF Kind, Kinds
      <3> QED
        BY <2>1, <2>2, <3>1, <3>2
    <2> QED
      BY <2>3, <2>4, <2>5
  <1> QED
    BY <1>5, <1>6, <1>7, <1>8

LEMMA SendMoves ==
  ASSUME Types, Places, NEW r \in Ranks, gni_pmi_send(r)
  PROVE  Types' /\ Places' /\ Others(r) /\ At(r)' = At(r)
  <1>1. PlaceOf(r)
    BY DEF Places
  <1>2. /\ Len(prog) \in Nat /\ pc[r] \in Labels /\ ip[r] \in Nat /\ already_called[r] \in BOOLEAN
        /\ cnt[r] \in [Kinds -> Nat] /\ cnt[r]["allg"] \in Nat /\ cnt[r]["bcst"] \in Nat
        /\ Kind(r) \in Kinds
        /\ pc[r] \notin Outside => ip[r] < Len(prog) /\ Op(r) \in Ops
        /\ pc[r] \in Outside => ip[r] <= Len(prog)
    BY RankFacts, Job
  <1>3. /\ pc[r] = "send" /\ pc'[r] = "sync" /\ ip'[r] = ip[r] /\ cnt'[r] = cnt[r] /\ already_called'[r] = already_called[r]
    BY <1>2 DEF gni_pmi_send, Goto, Types, gatherVars, Kinds
  <1>4. prog' = prog /\ order' = order
    BY DEF gni_pmi_send, jobVars
  <1>5. Others(r)
    BY <1>4, <1>2 DEF gni_pmi_send, Goto, jobVars, barVars, gatherVars, Types, Others
  <1>6. Types'
    <2>1. pc' \in [Ranks -> Labels] /\ got' \in [Ranks -> Ranks] /\ ip' \in [Ranks -> Nat]
      BY <1>2, <1>3, RankTypes, NRanksAssumption DEF gni_pmi_send, Goto, Types, Labels, Ranks, gatherVars
    <2>2. cnt' \in [Ranks -> [Kinds -> Nat]] /\ already_called' \in [Ranks -> BOOLEAN]
      BY <1>2 DEF gni_pmi_send, Goto, Types, Kinds, gatherVars
    <2>3. bentered' \in [Ranks -> 0 .. 2 * MaxOps + 2] /\ bleft' \in [Ranks -> 0 .. 2 * MaxOps + 2]
      BY DEF gni_pmi_send, Types, barVars
    <2> QED
      BY <1>4, <2>1, <2>2, <2>3 DEF Types
  <1>7. Places'
    <2>1. PlaceOf(r)'
      BY <1>1, <1>2, <1>3, <1>4, Job DEF PlaceOf, Op, Ops, Kind, Kinds, InCall, Outside, Flag
    <2>2. \A q \in Ranks \ {r} : PlaceOf(q)'
      BY <1>5 DEF Others, Places, PlaceOf, Op, Kind, InCall, Flag
    <2> QED
      BY <2>1, <2>2 DEF Places
  <1>8. At(r)' = At(r)
    BY <1>1, <1>2, <1>3, <1>4 DEF PlaceOf, Op, Ops, Kind, Kinds, Outside, Flag, At, Here, After, Ahead, Place
  <1> QED
    BY <1>5, <1>6, <1>7, <1>8

LEMMA EnterBarrierMoves ==
  ASSUME Types, Places, NEW r \in Ranks, EnterBarrier(r)
  PROVE  Types' /\ Places' /\ Others(r) /\ At(r)' = At(r)
  <1>1. PlaceOf(r)
    BY DEF Places
  <1>2. /\ Len(prog) \in Nat /\ pc[r] \in Labels /\ ip[r] \in Nat /\ already_called[r] \in BOOLEAN
        /\ cnt[r] \in [Kinds -> Nat] /\ cnt[r]["allg"] \in Nat /\ cnt[r]["bcst"] \in Nat
        /\ Kind(r) \in Kinds
        /\ pc[r] \notin Outside => ip[r] < Len(prog) /\ Op(r) \in Ops
        /\ pc[r] \in Outside => ip[r] <= Len(prog)
    BY RankFacts, Job
  <1>3. /\ \/ pc[r] = "boot" /\ pc'[r] = "booting"
           \/ pc[r] = "sync" /\ pc'[r] = "wait"
           \/ pc[r] = "sync2" /\ pc'[r] = "wait2"
        /\ ip'[r] = ip[r] /\ cnt'[r] = cnt[r] /\ already_called'[r] = already_called[r]
    BY <1>2 DEF EnterBarrier, Goto, PMI!Enter, Types, gatherVars, Kinds
  <1>4. prog' = prog /\ order' = order
    BY DEF EnterBarrier, jobVars
  <1>5. Others(r)
    BY <1>4, <1>2 DEF EnterBarrier, Goto, PMI!Enter, jobVars, barVars, gatherVars, Types, Others
  <1>6. Types'
    <2>1. pc' \in [Ranks -> Labels] /\ got' \in [Ranks -> Ranks] /\ ip' \in [Ranks -> Nat]
      <3>1. pc' \in [Ranks -> Labels]
        BY DEF EnterBarrier, Goto, Types, Labels
      <3>2. got' = got /\ ip' = ip
        BY DEF EnterBarrier, gatherVars
      <3> QED
        BY <3>1, <3>2 DEF Types
    <2>2. cnt' \in [Ranks -> [Kinds -> Nat]] /\ already_called' \in [Ranks -> BOOLEAN]
      BY <1>2 DEF EnterBarrier, Goto, PMI!Enter, Types, Kinds, gatherVars
    <2>3. bentered' \in [Ranks -> 0 .. 2 * MaxOps + 2] /\ bleft' \in [Ranks -> 0 .. 2 * MaxOps + 2]
      BY <1>2, MaxOpsAssumption DEF EnterBarrier, Types, PMI!Enter
    <2> QED
      BY <1>4, <2>1, <2>2, <2>3 DEF Types
  <1>7. Places'
    <2>1. PlaceOf(r)'
      BY <1>1, <1>2, <1>3, <1>4, Job DEF PlaceOf, Op, Ops, Kind, Kinds, InCall, Outside, Flag
    <2>2. \A q \in Ranks \ {r} : PlaceOf(q)'
      BY <1>5 DEF Others, Places, PlaceOf, Op, Kind, InCall, Flag
    <2> QED
      BY <2>1, <2>2 DEF Places
  <1>8. At(r)' = At(r)
    BY <1>1, <1>2, <1>3, <1>4 DEF PlaceOf, Op, Ops, Kind, Kinds, Outside, Flag, At, Here, After, Ahead, Place
  <1> QED
    BY <1>5, <1>6, <1>7, <1>8

LEMMA GatherStepMoves ==
  ASSUME Types, Places, NEW r \in Ranks, GatherStep(r)
  PROVE  Types' /\ Places' /\ Others(r) /\ At(r)' = At(r)
  <1>1. PlaceOf(r)
    BY DEF Places
  <1>2. /\ Len(prog) \in Nat /\ pc[r] \in Labels /\ ip[r] \in Nat /\ already_called[r] \in BOOLEAN
        /\ cnt[r] \in [Kinds -> Nat] /\ cnt[r]["allg"] \in Nat /\ cnt[r]["bcst"] \in Nat
        /\ Kind(r) \in Kinds
        /\ pc[r] \notin Outside => ip[r] < Len(prog) /\ Op(r) \in Ops
        /\ pc[r] \in Outside => ip[r] <= Len(prog)
    BY RankFacts, Job
  <1>3. /\ pc[r] = "get" /\ pc'[r] = "get" /\ ip'[r] = ip[r] /\ cnt'[r] = cnt[r] /\ already_called'[r] = already_called[r]
    BY <1>2 DEF GatherStep, Goto, Types, gatherVars, Kinds
  <1>4. prog' = prog /\ order' = order
    BY DEF GatherStep, jobVars
  <1>5. Others(r)
    BY <1>4, <1>2 DEF GatherStep, Goto, jobVars, barVars, gatherVars, Types, Others
  <1>6. Types'
    <2>1. pc' \in [Ranks -> Labels] /\ got' \in [Ranks -> Ranks] /\ ip' \in [Ranks -> Nat]
      <3>1. pc' \in [Ranks -> Labels]
        BY DEF GatherStep, Goto, Types, Labels
      <3>2. ip' \in [Ranks -> Nat]
        BY <1>2 DEF GatherStep, Goto, Types
      <3>3. got' \in [Ranks -> Ranks]
        <4>1. got[r] \in Ranks /\ got[r] + 1 \in Ranks
          <5>1. got[r] \in Ranks /\ got[r] < NRanks - 1
            BY DEF GatherStep, Types
          <5> QED
            BY <5>1, NRanksAssumption DEF Ranks
        <4> QED
          BY <4>1 DEF GatherStep, Types
      <3> QED
        BY <3>1, <3>2, <3>3
    <2>2. cnt' \in [Ranks -> [Kinds -> Nat]] /\ already_called' \in [Ranks -> BOOLEAN]
      BY <1>2 DEF GatherStep, Goto, Types, Kinds, gatherVars
    <2>3. bentered' \in [Ranks -> 0 .. 2 * MaxOps + 2] /\ bleft' \in [Ranks -> 0 .. 2 * MaxOps + 2]
      BY DEF GatherStep, Types, barVars
    <2> QED
      BY <1>4, <2>1, <2>2, <2>3 DEF Types
  <1>7. Places'
    <2>1. PlaceOf(r)'
      BY <1>1, <1>2, <1>3, <1>4, Job DEF PlaceOf, Op, Ops, Kind, Kinds, InCall, Outside, Flag
    <2>2. \A q \in Ranks \ {r} : PlaceOf(q)'
      BY <1>5 DEF Others, Places, PlaceOf, Op, Kind, InCall, Flag
    <2> QED
      BY <2>1, <2>2 DEF Places
  <1>8. At(r)' = At(r)
    <2>1. Here(r, "wait")' = Here(r, "wait")
      BY <1>3 DEF Here, Flag
    <2>2. After(Here(r, "wait"))' = After(Here(r, "wait"))
      BY <1>4, <2>1 DEF After, Ahead
    <2> QED
      BY <1>3, <2>2 DEF At
  <1> QED
    BY <1>5, <1>6, <1>7, <1>8

LEMMA GatherRanksEndMoves ==
  ASSUME Types, Places, NEW r \in Ranks, GatherRanksEnd(r)
  PROVE  Types' /\ Places' /\ Others(r) /\ At(r)' = At(r)
  <1>1. PlaceOf(r)
    BY DEF Places
  <1>2. /\ Len(prog) \in Nat /\ pc[r] \in Labels /\ ip[r] \in Nat /\ already_called[r] \in BOOLEAN
        /\ cnt[r] \in [Kinds -> Nat] /\ cnt[r]["allg"] \in Nat /\ cnt[r]["bcst"] \in Nat
        /\ Kind(r) \in Kinds
        /\ pc[r] \notin Outside => ip[r] < Len(prog) /\ Op(r) \in Ops
        /\ pc[r] \in Outside => ip[r] <= Len(prog)
    BY RankFacts, Job
  <1>3. /\ pc[r] = "get" /\ Op(r) # "bcast" /\ ~already_called[r] /\ already_called'[r] = TRUE
        /\ pc'[r] = "send" /\ ip'[r] = ip[r] /\ cnt'[r] = [cnt[r] EXCEPT !["allg"] = @ + 1]
    BY <1>2 DEF GatherRanksEnd, Goto, Count, Types, gatherVars, Kinds
  <1>4. prog' = prog /\ order' = order
    BY DEF GatherRanksEnd, jobVars
  <1>5. Others(r)
    BY <1>4, <1>2 DEF GatherRanksEnd, Goto, Count, jobVars, barVars, gatherVars, Types, Others
  <1>6. Types'
    <2>1. pc' \in [Ranks -> Labels] /\ got' \in [Ranks -> Ranks] /\ ip' \in [Ranks -> Nat]
      BY <1>2, <1>3, RankTypes, NRanksAssumption DEF GatherRanksEnd, Goto, Count, Types, Labels, Ranks, gatherVars
    <2>2. cnt' \in [Ranks -> [Kinds -> Nat]] /\ already_called' \in [Ranks -> BOOLEAN]
      BY <1>2, SMTT(30) DEF GatherRanksEnd, Goto, Count, Types, Kinds, gatherVars
    <2>3. bentered' \in [Ranks -> 0 .. 2 * MaxOps + 2] /\ bleft' \in [Ranks -> 0 .. 2 * MaxOps + 2]
      BY DEF GatherRanksEnd, Types, barVars
    <2> QED
      BY <1>4, <2>1, <2>2, <2>3 DEF Types
  <1>7. Places'
    <2>1. PlaceOf(r)'
      BY <1>1, <1>2, <1>3, <1>4, Job DEF PlaceOf, Op, Ops, Kind, Kinds, InCall, Outside, Flag
    <2>2. \A q \in Ranks \ {r} : PlaceOf(q)'
      BY <1>5 DEF Others, Places, PlaceOf, Op, Kind, InCall, Flag
    <2> QED
      BY <2>1, <2>2 DEF Places
  <1>8. At(r)' = At(r)
    BY <1>1, <1>2, <1>3, <1>4 DEF PlaceOf, Op, Ops, Kind, Kinds, Outside, Flag, At, Here, After, Ahead, Place
  <1> QED
    BY <1>5, <1>6, <1>7, <1>8

LEMMA GatherDataEndMoves ==
  ASSUME Types, Places, NEW r \in Ranks, GatherDataEnd(r)
  PROVE  Types' /\ Places' /\ Others(r) /\ At(r)' = At(r)
  <1>1. PlaceOf(r)
    BY DEF Places
  <1>2. /\ Len(prog) \in Nat /\ pc[r] \in Labels /\ ip[r] \in Nat /\ already_called[r] \in BOOLEAN
        /\ cnt[r] \in [Kinds -> Nat] /\ cnt[r]["allg"] \in Nat /\ cnt[r]["bcst"] \in Nat
        /\ Kind(r) \in Kinds
        /\ pc[r] \notin Outside => ip[r] < Len(prog) /\ Op(r) \in Ops
        /\ pc[r] \in Outside => ip[r] <= Len(prog)
    BY RankFacts, Job
  <1>3. /\ pc[r] = "get" /\ Op(r) # "bcast" /\ already_called[r]
        /\ cnt'[r] = cnt[r] /\ already_called'[r] = already_called[r]
        /\ IF Op(r) = "allgather" THEN pc'[r] = "idle" /\ ip'[r] = ip[r] + 1
                                 ELSE pc'[r] = "sync2" /\ ip'[r] = ip[r]
    BY <1>2 DEF GatherDataEnd, Goto, Finish, Types, gatherVars, Kinds
  <1>4. prog' = prog /\ order' = order
    BY DEF GatherDataEnd, jobVars
  <1>5. Others(r)
    BY <1>4, <1>2 DEF GatherDataEnd, Goto, Finish, jobVars, barVars, gatherVars, Types, Others
  <1>6. Types'
    <2>1. pc' \in [Ranks -> Labels] /\ got' \in [Ranks -> Ranks] /\ ip' \in [Ranks -> Nat]
      <3>1. pc' \in [Ranks -> Labels]
        BY DEF GatherDataEnd, Goto, Finish, Types, Labels
      <3>2. ip' \in [Ranks -> Nat]
        <4>1. ip' = ip \/ ip' = [ip EXCEPT ![r] = @ + 1]
          BY DEF GatherDataEnd, Goto, Finish
        <4> QED
          <5>1. ip \in [Ranks -> Nat]
            BY DEF Types
          <5> QED
            BY <4>1, <5>1
      <3>3. got' \in [Ranks -> Ranks]
        BY RankTypes, NRanksAssumption DEF GatherDataEnd, Types, Ranks, gatherVars
      <3> QED
        BY <3>1, <3>2, <3>3
    <2>2. cnt' \in [Ranks -> [Kinds -> Nat]] /\ already_called' \in [Ranks -> BOOLEAN]
      BY <1>2 DEF GatherDataEnd, Goto, Finish, Types, Kinds, gatherVars
    <2>3. bentered' \in [Ranks -> 0 .. 2 * MaxOps + 2] /\ bleft' \in [Ranks -> 0 .. 2 * MaxOps + 2]
      BY DEF GatherDataEnd, Types, barVars
    <2> QED
      BY <1>4, <2>1, <2>2, <2>3 DEF Types
  <1>7. Places'
    <2>1. PlaceOf(r)'
      BY <1>1, <1>2, <1>3, <1>4, Job DEF PlaceOf, Op, Ops, Kind, Kinds, InCall, Outside, Flag
    <2>2. \A q \in Ranks \ {r} : PlaceOf(q)'
      BY <1>5 DEF Others, Places, PlaceOf, Op, Kind, InCall, Flag
    <2> QED
      BY <2>1, <2>2 DEF Places
  <1>8. At(r)' = At(r)
    <2> DEFINE h == Here(r, "wait")
    <2>1. /\ h.call = ip[r] /\ h.stage = "wait" /\ h.flag = 1
          /\ h.allg = cnt[r]["allg"] /\ h.bcst = cnt[r]["bcst"]
      BY <1>3 DEF Here, Place, Flag
    <2>2. At(r) = After(h)
      BY <1>3 DEF At
    <2>3. Flag(already_called[r]) = 1 /\ Flag(already_called'[r]) = 1
      BY <1>3 DEF Flag
    <2>4. Op(r) \in {"allgather", "allreduce"}
      <3>1. Op(r) # "barrier" /\ Op(r) \in Ops
        BY <1>1, <1>2, <1>3 DEF PlaceOf, Outside
      <3> QED
        BY <1>3, <3>1 DEF Ops
    <2>5. CASE Op(r) = "allgather"
      <3>1. After(h) = Ahead(ip[r] + 1, 1, cnt[r]["allg"], cnt[r]["bcst"])
        BY <2>1, <2>5 DEF After, Op
      <3>2. At(r)' = Ahead(ip[r] + 1, 1, cnt[r]["allg"], cnt[r]["bcst"])
        BY <1>3, <1>4, <2>3, <2>5 DEF At, Ahead
      <3> QED
        BY <2>2, <3>1, <3>2
    <2>6. CASE Op(r) = "allreduce"
      <3>1. After(h) = Place(ip[r], "wait2", 1, cnt[r]["allg"], cnt[r]["bcst"])
        BY <2>1, <2>6 DEF After, Op
      <3>2. At(r)' = Place(ip[r], "wait2", 1, cnt[r]["allg"], cnt[r]["bcst"])
        BY <1>3, <2>3, <2>6 DEF At, Here
      <3> QED
        BY <2>2, <3>1, <3>2
    <2> QED
      BY <2>4, <2>5, <2>6
  <1> QED
    BY <1>5, <1>6, <1>7, <1>8

LEMMA BcastReceiveMoves ==
  ASSUME Types, Places, NEW r \in Ranks, BcastReceive(r)
  PROVE  Types' /\ Places' /\ Others(r) /\ At(r)' = At(r)
  <1>1. PlaceOf(r)
    BY DEF Places
  <1>2. /\ Len(prog) \in Nat /\ pc[r] \in Labels /\ ip[r] \in Nat /\ already_called[r] \in BOOLEAN
        /\ cnt[r] \in [Kinds -> Nat] /\ cnt[r]["allg"] \in Nat /\ cnt[r]["bcst"] \in Nat
        /\ Kind(r) \in Kinds
        /\ pc[r] \notin Outside => ip[r] < Len(prog) /\ Op(r) \in Ops
        /\ pc[r] \in Outside => ip[r] <= Len(prog)
    BY RankFacts, Job
  <1>3. /\ pc[r] = "get" /\ Op(r) = "bcast" /\ pc'[r] = "sync2" /\ ip'[r] = ip[r] /\ cnt'[r] = cnt[r] /\ already_called'[r] = already_called[r]
    BY <1>2 DEF BcastReceive, Goto, Types, gatherVars, Kinds
  <1>4. prog' = prog /\ order' = order
    BY DEF BcastReceive, jobVars
  <1>5. Others(r)
    BY <1>4, <1>2 DEF BcastReceive, Goto, jobVars, barVars, gatherVars, Types, Others
  <1>6. Types'
    <2>1. pc' \in [Ranks -> Labels] /\ got' \in [Ranks -> Ranks] /\ ip' \in [Ranks -> Nat]
      BY <1>2, <1>3, RankTypes, NRanksAssumption DEF BcastReceive, Goto, Types, Labels, Ranks, gatherVars
    <2>2. cnt' \in [Ranks -> [Kinds -> Nat]] /\ already_called' \in [Ranks -> BOOLEAN]
      BY <1>2 DEF BcastReceive, Goto, Types, Kinds, gatherVars
    <2>3. bentered' \in [Ranks -> 0 .. 2 * MaxOps + 2] /\ bleft' \in [Ranks -> 0 .. 2 * MaxOps + 2]
      BY DEF BcastReceive, Types, barVars
    <2> QED
      BY <1>4, <2>1, <2>2, <2>3 DEF Types
  <1>7. Places'
    <2>1. PlaceOf(r)'
      BY <1>1, <1>2, <1>3, <1>4, Job DEF PlaceOf, Op, Ops, Kind, Kinds, InCall, Outside, Flag
    <2>2. \A q \in Ranks \ {r} : PlaceOf(q)'
      BY <1>5 DEF Others, Places, PlaceOf, Op, Kind, InCall, Flag
    <2> QED
      BY <2>1, <2>2 DEF Places
  <1>8. At(r)' = At(r)
    BY <1>1, <1>2, <1>3, <1>4 DEF PlaceOf, Op, Ops, Kind, Kinds, Outside, Flag, At, Here, After, Ahead, Place
  <1> QED
    BY <1>5, <1>6, <1>7, <1>8

LEMMA BootedMoves ==
  ASSUME Types, Places, NEW r \in Ranks, Booted(r)
  PROVE  Types' /\ Places' /\ Others(r) /\ At(r)' = After(At(r))
  <1>1. PlaceOf(r)
    BY DEF Places
  <1>2. /\ Len(prog) \in Nat /\ pc[r] \in Labels /\ ip[r] \in Nat /\ already_called[r] \in BOOLEAN
        /\ cnt[r] \in [Kinds -> Nat] /\ cnt[r]["allg"] \in Nat /\ cnt[r]["bcst"] \in Nat
        /\ Kind(r) \in Kinds
        /\ pc[r] \notin Outside => ip[r] < Len(prog) /\ Op(r) \in Ops
        /\ pc[r] \in Outside => ip[r] <= Len(prog)
    BY RankFacts, Job
  <1>3. /\ pc[r] = "booting" /\ pc'[r] = "idle" /\ ip'[r] = ip[r] /\ cnt'[r] = cnt[r] /\ already_called'[r] = already_called[r]
    BY <1>2 DEF Booted, Goto, Types, gatherVars, Kinds
  <1>4. prog' = prog /\ order' = order
    BY DEF Booted, jobVars
  <1>5. Others(r)
    BY <1>4, <1>2 DEF Booted, Goto, jobVars, barVars, gatherVars, PMI!Leave, Types, Others
  <1>6. Types'
    <2>1. pc' \in [Ranks -> Labels] /\ got' \in [Ranks -> Ranks] /\ ip' \in [Ranks -> Nat]
      BY <1>2, <1>3, RankTypes, NRanksAssumption DEF Booted, Goto, Types, Labels, Ranks, gatherVars
    <2>2. cnt' \in [Ranks -> [Kinds -> Nat]] /\ already_called' \in [Ranks -> BOOLEAN]
      BY <1>2 DEF Booted, Goto, Types, Kinds, gatherVars
    <2>3. bentered' \in [Ranks -> 0 .. 2 * MaxOps + 2] /\ bleft' \in [Ranks -> 0 .. 2 * MaxOps + 2]
      BY <1>2, MaxOpsAssumption DEF Booted, Types, PMI!Leave
    <2> QED
      BY <1>4, <2>1, <2>2, <2>3 DEF Types
  <1>7. Places'
    <2>1. PlaceOf(r)'
      BY <1>1, <1>2, <1>3, <1>4, Job DEF PlaceOf, Op, Ops, Kind, Kinds, InCall, Outside, Flag
    <2>2. \A q \in Ranks \ {r} : PlaceOf(q)'
      BY <1>5 DEF Others, Places, PlaceOf, Op, Kind, InCall, Flag
    <2> QED
      BY <2>1, <2>2 DEF Places
  <1>8. At(r)' = After(At(r))
    <2>1. At(r) = Here(r, "boot")
      BY <1>3 DEF At
    <2>2. /\ At(r).call = ip[r] /\ At(r).stage = "boot" /\ At(r).flag = Flag(already_called[r])
          /\ At(r).allg = cnt[r]["allg"] /\ At(r).bcst = cnt[r]["bcst"]
      BY <2>1 DEF Here, Place
    <2>3. At(r)' = Ahead(ip'[r], Flag(already_called'[r]), cnt'[r]["allg"], cnt'[r]["bcst"])
      BY <1>3, <1>4 DEF At, Ahead, Place, Flag
    <2>4. After(At(r)) = Ahead(0, At(r).flag, At(r).allg, At(r).bcst)
      BY <1>3, <2>2 DEF After, Op
    <2>5. ip'[r] = 0
      BY <1>1, <1>3 DEF PlaceOf
    <2> QED
      BY <1>3, <2>2, <2>3, <2>4, <2>5
  <1> QED
    BY <1>5, <1>6, <1>7, <1>8

LEMMA BarrierMoves ==
  ASSUME Types, Places, NEW r \in Ranks, ctpm_Barrier(r)
  PROVE  Types' /\ Places' /\ Others(r) /\ At(r)' = After(At(r))
  <1>1. PlaceOf(r)
    BY DEF Places
  <1>2. /\ Len(prog) \in Nat /\ pc[r] \in Labels /\ ip[r] \in Nat /\ already_called[r] \in BOOLEAN
        /\ cnt[r] \in [Kinds -> Nat] /\ cnt[r]["allg"] \in Nat /\ cnt[r]["bcst"] \in Nat
        /\ Kind(r) \in Kinds
        /\ pc[r] \notin Outside => ip[r] < Len(prog) /\ Op(r) \in Ops
        /\ pc[r] \in Outside => ip[r] <= Len(prog)
    BY RankFacts, Job
  <1>3. /\ pc[r] = "wait" /\ Op(r) = "barrier" /\ pc'[r] = "idle" /\ ip'[r] = ip[r] + 1
        /\ cnt'[r] = cnt[r] /\ already_called'[r] = already_called[r]
    BY <1>2 DEF ctpm_Barrier, Goto, Finish, Types, gatherVars, Kinds
  <1>4. prog' = prog /\ order' = order
    BY DEF ctpm_Barrier, jobVars
  <1>5. Others(r)
    BY <1>4, <1>2 DEF ctpm_Barrier, Goto, Finish, jobVars, barVars, gatherVars, PMI!Leave, Types, Others
  <1>6. Types'
    <2>1. pc' \in [Ranks -> Labels] /\ got' \in [Ranks -> Ranks] /\ ip' \in [Ranks -> Nat]
      <3>1. pc' \in [Ranks -> Labels]
        BY DEF ctpm_Barrier, Goto, Finish, Types, Labels
      <3>2. ip' \in [Ranks -> Nat]
        BY <1>2 DEF ctpm_Barrier, Goto, Finish, Types
      <3>3. got' \in [Ranks -> Ranks]
        BY RankTypes, NRanksAssumption DEF ctpm_Barrier, Types, Ranks, gatherVars
      <3> QED
        BY <3>1, <3>2, <3>3
    <2>2. cnt' \in [Ranks -> [Kinds -> Nat]] /\ already_called' \in [Ranks -> BOOLEAN]
      BY <1>2 DEF ctpm_Barrier, Goto, Finish, Types, Kinds, gatherVars
    <2>3. bentered' \in [Ranks -> 0 .. 2 * MaxOps + 2] /\ bleft' \in [Ranks -> 0 .. 2 * MaxOps + 2]
      BY <1>2, MaxOpsAssumption DEF ctpm_Barrier, Types, PMI!Leave
    <2> QED
      BY <1>4, <2>1, <2>2, <2>3 DEF Types
  <1>7. Places'
    <2>1. PlaceOf(r)'
      BY <1>1, <1>2, <1>3, <1>4, Job DEF PlaceOf, Op, Ops, Kind, Kinds, InCall, Outside, Flag
    <2>2. \A q \in Ranks \ {r} : PlaceOf(q)'
      BY <1>5 DEF Others, Places, PlaceOf, Op, Kind, InCall, Flag
    <2> QED
      BY <2>1, <2>2 DEF Places
  <1>8. At(r)' = After(At(r))
    <2>1. At(r) = Here(r, "wait")
      BY <1>3 DEF At
    <2>2. /\ At(r).call = ip[r] /\ At(r).stage = "wait" /\ At(r).flag = Flag(already_called[r])
          /\ At(r).allg = cnt[r]["allg"] /\ At(r).bcst = cnt[r]["bcst"]
      BY <2>1 DEF Here, Place
    <2>3. At(r)' = Ahead(ip'[r], Flag(already_called'[r]), cnt'[r]["allg"], cnt'[r]["bcst"])
      BY <1>3, <1>4 DEF At, Ahead, Place, Flag
    <2>4. After(At(r)) = Ahead(ip[r] + 1, At(r).flag, At(r).allg, At(r).bcst)
      BY <1>3, <2>2 DEF After, Op
    <2>5. ip'[r] = ip[r] + 1
      BY <1>1, <1>3 DEF PlaceOf
    <2> QED
      BY <1>3, <2>2, <2>3, <2>4, <2>5
  <1> QED
    BY <1>5, <1>6, <1>7, <1>8

LEMMA ExchangedMoves ==
  ASSUME Types, Places, NEW r \in Ranks, Exchanged(r)
  PROVE  Types' /\ Places' /\ Others(r) /\ At(r)' = After(At(r))
  <1>1. PlaceOf(r)
    BY DEF Places
  <1>2. /\ Len(prog) \in Nat /\ pc[r] \in Labels /\ ip[r] \in Nat /\ already_called[r] \in BOOLEAN
        /\ cnt[r] \in [Kinds -> Nat] /\ cnt[r]["allg"] \in Nat /\ cnt[r]["bcst"] \in Nat
        /\ Kind(r) \in Kinds
        /\ pc[r] \notin Outside => ip[r] < Len(prog) /\ Op(r) \in Ops
        /\ pc[r] \in Outside => ip[r] <= Len(prog)
    BY RankFacts, Job
  <1>3. /\ pc[r] = "wait" /\ Op(r) # "barrier"
        /\ pc'[r] = (IF Op(r) = "bcast" /\ r = 0 THEN "sync2" ELSE "get") /\ ip'[r] = ip[r] /\ cnt'[r] = cnt[r] /\ already_called'[r] = already_called[r]
    BY <1>2 DEF Exchanged, Goto, Types, gatherVars, Kinds
  <1>4. prog' = prog /\ order' = order
    BY DEF Exchanged, jobVars
  <1>5. Others(r)
    BY <1>4, <1>2 DEF Exchanged, Goto, jobVars, barVars, gatherVars, PMI!Leave, Types, Others
  <1>6. Types'
    <2>1. pc' \in [Ranks -> Labels] /\ got' \in [Ranks -> Ranks] /\ ip' \in [Ranks -> Nat]
      BY <1>2, <1>3, RankTypes, NRanksAssumption DEF Exchanged, Goto, Types, Labels, Ranks, gatherVars
    <2>2. cnt' \in [Ranks -> [Kinds -> Nat]] /\ already_called' \in [Ranks -> BOOLEAN]
      BY <1>2 DEF Exchanged, Goto, Types, Kinds, gatherVars
    <2>3. bentered' \in [Ranks -> 0 .. 2 * MaxOps + 2] /\ bleft' \in [Ranks -> 0 .. 2 * MaxOps + 2]
      BY <1>2, MaxOpsAssumption DEF Exchanged, Types, PMI!Leave
    <2> QED
      BY <1>4, <2>1, <2>2, <2>3 DEF Types
  <1>7. Places'
    <2>1. PlaceOf(r)'
      BY <1>1, <1>2, <1>3, <1>4, Job DEF PlaceOf, Op, Ops, Kind, Kinds, InCall, Outside, Flag
    <2>2. \A q \in Ranks \ {r} : PlaceOf(q)'
      BY <1>5 DEF Others, Places, PlaceOf, Op, Kind, InCall, Flag
    <2> QED
      BY <2>1, <2>2 DEF Places
  <1>8. At(r)' = After(At(r))
    <2>1. At(r) = Here(r, "wait")
      BY <1>3 DEF At
    <2>2. /\ At(r).call = ip[r] /\ At(r).stage = "wait" /\ At(r).flag = Flag(already_called[r])
          /\ At(r).allg = cnt[r]["allg"] /\ At(r).bcst = cnt[r]["bcst"]
      BY <2>1 DEF Here, Place
    <2>3. CASE Op(r) # "bcast" \/ r # 0
      <3>1. Here(r, "wait")' = Here(r, "wait")
        BY <1>3 DEF Here, Flag
      <3>2. At(r)' = After(Here(r, "wait"))
        BY <1>3, <1>4, <2>3, <3>1 DEF At, After, Ahead, Place
      <3> QED
        BY <2>1, <3>2
    <2>4. CASE Op(r) = "bcast" /\ r = 0
      <3>1. At(r)' = Here(r, "wait2")'
        BY <1>3, <2>4 DEF At
      <3>2. Here(r, "wait2")' = Place(ip[r], "wait2", Flag(already_called[r]), cnt[r]["allg"], cnt[r]["bcst"])
        BY <1>3 DEF Here, Flag
      <3>3. prog[At(r).call + 1] = "bcast"
        BY <2>2, <2>4 DEF Op
      <3>4. After(At(r)) = Place(ip[r], "wait2", Flag(already_called[r]), cnt[r]["allg"], cnt[r]["bcst"])
        BY <2>2, <3>3 DEF After
      <3> QED
        BY <3>1, <3>2, <3>4
    <2> QED
      BY <2>3, <2>4
  <1> QED
    BY <1>5, <1>6, <1>7, <1>8

LEMMA SynchronisedMoves ==
  ASSUME Types, Places, NEW r \in Ranks, Synchronised(r)
  PROVE  Types' /\ Places' /\ Others(r) /\ At(r)' = After(At(r))
  <1>1. PlaceOf(r)
    BY DEF Places
  <1>2. /\ Len(prog) \in Nat /\ pc[r] \in Labels /\ ip[r] \in Nat /\ already_called[r] \in BOOLEAN
        /\ cnt[r] \in [Kinds -> Nat] /\ cnt[r]["allg"] \in Nat /\ cnt[r]["bcst"] \in Nat
        /\ Kind(r) \in Kinds
        /\ pc[r] \notin Outside => ip[r] < Len(prog) /\ Op(r) \in Ops
        /\ pc[r] \in Outside => ip[r] <= Len(prog)
    BY RankFacts, Job
  <1>3. /\ pc[r] = "wait2" /\ pc'[r] = "idle" /\ ip'[r] = ip[r] + 1
        /\ cnt'[r] = cnt[r] /\ already_called'[r] = already_called[r]
    BY <1>2 DEF Synchronised, Goto, Finish, Types, gatherVars, Kinds
  <1>4. prog' = prog /\ order' = order
    BY DEF Synchronised, jobVars
  <1>5. Others(r)
    BY <1>4, <1>2 DEF Synchronised, Goto, Finish, jobVars, barVars, gatherVars, PMI!Leave, Types, Others
  <1>6. Types'
    <2>1. pc' \in [Ranks -> Labels] /\ got' \in [Ranks -> Ranks] /\ ip' \in [Ranks -> Nat]
      <3>1. pc' \in [Ranks -> Labels]
        BY DEF Synchronised, Goto, Finish, Types, Labels
      <3>2. ip' \in [Ranks -> Nat]
        BY <1>2 DEF Synchronised, Goto, Finish, Types
      <3>3. got' \in [Ranks -> Ranks]
        BY RankTypes, NRanksAssumption DEF Synchronised, Types, Ranks, gatherVars
      <3> QED
        BY <3>1, <3>2, <3>3
    <2>2. cnt' \in [Ranks -> [Kinds -> Nat]] /\ already_called' \in [Ranks -> BOOLEAN]
      BY <1>2 DEF Synchronised, Goto, Finish, Types, Kinds, gatherVars
    <2>3. bentered' \in [Ranks -> 0 .. 2 * MaxOps + 2] /\ bleft' \in [Ranks -> 0 .. 2 * MaxOps + 2]
      BY <1>2, MaxOpsAssumption DEF Synchronised, Types, PMI!Leave
    <2> QED
      BY <1>4, <2>1, <2>2, <2>3 DEF Types
  <1>7. Places'
    <2>1. PlaceOf(r)'
      BY <1>1, <1>2, <1>3, <1>4, Job DEF PlaceOf, Op, Ops, Kind, Kinds, InCall, Outside, Flag
    <2>2. \A q \in Ranks \ {r} : PlaceOf(q)'
      BY <1>5 DEF Others, Places, PlaceOf, Op, Kind, InCall, Flag
    <2> QED
      BY <2>1, <2>2 DEF Places
  <1>8. At(r)' = After(At(r))
    <2>1. At(r) = Here(r, "wait2")
      BY <1>3 DEF At
    <2>2. /\ At(r).call = ip[r] /\ At(r).stage = "wait2" /\ At(r).flag = Flag(already_called[r])
          /\ At(r).allg = cnt[r]["allg"] /\ At(r).bcst = cnt[r]["bcst"]
      BY <2>1 DEF Here, Place
    <2>3. At(r)' = Ahead(ip'[r], Flag(already_called'[r]), cnt'[r]["allg"], cnt'[r]["bcst"])
      BY <1>3, <1>4 DEF At, Ahead, Place, Flag
    <2>4. After(At(r)) = Ahead(ip[r] + 1, At(r).flag, At(r).allg, At(r).bcst)
      BY <1>3, <2>2 DEF After, Op
    <2>5. ip'[r] = ip[r] + 1
      BY <1>1, <1>3 DEF PlaceOf
    <2> QED
      BY <1>3, <2>2, <2>3, <2>4, <2>5
  <1> QED
    BY <1>5, <1>6, <1>7, <1>8

-----------------------------------------------------------------------------
(* Ranks that do not move stay where they are.                             *)
LEMMA OthersAt ==
  ASSUME NEW r \in Ranks, Others(r), NEW q \in Ranks, q # r
  PROVE  At(q)' = At(q) /\ Here(q, "wait")' = Here(q, "wait") /\ Op(q)' = Op(q)
         /\ Kind(q)' = Kind(q) /\ \A x \in Ranks : Key(q, x)' = Key(q, x) /\ Writes(q, x)' = Writes(q, x)
  <1>1. /\ prog' = prog /\ pc'[q] = pc[q] /\ ip'[q] = ip[q] /\ cnt'[q] = cnt[q]
        /\ already_called'[q] = already_called[q]
    BY DEF Others
  <1>2. Op(q)' = Op(q)
    BY <1>1 DEF Op
  <1>3. Kind(q)' = Kind(q)
    BY <1>2 DEF Kind
  <1>4. \A x \in Ranks : Key(q, x)' = Key(q, x) /\ Writes(q, x)' = Writes(q, x)
    BY <1>1, <1>2, <1>3 DEF Key, Writes
  <1>5. Here(q, "boot")' = Here(q, "boot") /\ Here(q, "wait")' = Here(q, "wait") /\ Here(q, "wait2")' = Here(q, "wait2")
    BY <1>1 DEF Here, Flag
  <1>6. After(Here(q, "wait"))' = After(Here(q, "wait"))
    BY <1>1, <1>5 DEF After, Ahead
  <1>7. Ahead(ip[q], Flag(already_called[q]), cnt[q]["allg"], cnt[q]["bcst"])'
          = Ahead(ip[q], Flag(already_called[q]), cnt[q]["allg"], cnt[q]["bcst"])
    BY <1>1 DEF Ahead, Flag
  <1>8. At(q)' = At(q)
    BY <1>1, <1>5, <1>6, <1>7 DEF At
  <1> QED
    BY <1>2, <1>3, <1>4, <1>5, <1>8

LEMMA AfterSame ==
  ASSUME prog' = prog, NEW q \in Ranks, At(q)' = At(q)
  PROVE  After(At(q))' = After(At(q))
  BY DEF After, Ahead, Place

(* Steps that leave no barrier                                             *)
LEMMA StillSegments ==
  ASSUME Segments, NEW r \in Ranks, Others(r), At(r)' = At(r), bleft'[r] = bleft[r],
         pc'[r] = "get" => pc[r] = "get" /\ Here(r, "wait")' = Here(r, "wait")
  PROVE  Segments'
  <1>1. \A q \in Ranks : /\ At(q)' = At(q) /\ bleft'[q] = bleft[q]
                         /\ pc'[q] = "get" => pc[q] = "get" /\ Here(q, "wait")' = Here(q, "wait")
    BY OthersAt DEF Others
  <1>2. \A q \in Ranks : After(At(q))' = After(At(q))
    BY <1>1, AfterSame DEF Others
  <1> QED
    BY <1>1, <1>2 DEF Segments

(* A rank leaves a barrier: those that wait in it are at the same place,   *)
(* and those that have left it are at the place after it.                  *)
LEMMA LeaveSegments ==
  ASSUME Types, Segments, Meetings, NEW r \in Ranks, Others(r), pc[r] \in Inside,
         At(r)' = After(At(r)), bleft'[r] = bleft[r] + 1,
         pc'[r] = "get" => Here(r, "wait")' = At(r)
  PROVE  Segments'
  <1>1. \A q \in Ranks : bleft[q] \in Int /\ bentered[q] \in Int
    BY DEF Types
  <1>2. \A q \in Ranks : bleft[q] <= bleft[r] + 1
    BY <1>1 DEF Meetings
  <1>3. ASSUME NEW q \in Ranks, q # r
        PROVE  /\ At(q)' = At(q) /\ After(At(q))' = After(At(q)) /\ bleft'[q] = bleft[q]
               /\ pc'[q] = pc[q] /\ Here(q, "wait")' = Here(q, "wait")
    BY <1>3, OthersAt, AfterSame DEF Others
  <1>4. ASSUME NEW q \in Ranks, NEW x \in Ranks
        PROVE  /\ bleft'[q] = bleft'[x] => At(q)' = At(x)'
               /\ bleft'[q] = bleft'[x] + 1 => At(q)' = After(At(x))'
               /\ bleft'[q] = bleft'[x] + 1 /\ pc'[q] = "get" => At(x)' = Here(q, "wait")'
    <2>1. CASE q # r /\ x # r
      BY <2>1, <1>3 DEF Segments
    <2>2. CASE q = r /\ x = r
      BY <2>2, <1>1
    <2>3. CASE q = r /\ x # r
      <3>1. bleft[x] <= bleft[r] + 1 /\ bleft'[x] = bleft[x] /\ bleft'[q] = bleft[r] + 1
        BY <2>3, <1>2, <1>3
      <3>2. bleft'[q] = bleft'[x] => At(x) = After(At(r))
        BY <3>1, <1>1 DEF Segments
      <3>3. bleft'[q] = bleft'[x] + 1 => At(x) = At(r)
        BY <3>1, <1>1 DEF Segments
      <3> QED
        BY <2>3, <3>2, <3>3, <1>3
    <2>4. CASE q # r /\ x = r
      <3>1. bleft[q] <= bleft[r] + 1 /\ bleft'[q] = bleft[q] /\ bleft'[x] = bleft[r] + 1
        BY <2>4, <1>2, <1>3
      <3>2. bleft'[q] = bleft'[x] => At(q) = After(At(r))
        BY <3>1, <1>1 DEF Segments
      <3>3. bleft'[q] # bleft'[x] + 1
        BY <3>1, <1>1
      <3> QED
        BY <2>4, <3>2, <3>3, <1>3
    <2> QED
      BY <2>1, <2>2, <2>3, <2>4
  <1> QED
    BY <1>4 DEF Segments

-----------------------------------------------------------------------------
(* The key-value space                                                     *)

LEMMA StillUnsent ==
  ASSUME Types, Unsent, NEW r \in Ranks, Others(r), kvs' = kvs, cnt'[r] \in [Kinds -> Nat],
         \A j \in Kinds : cnt[r][j] <= cnt'[r][j],
         \A j \in Kinds : pc'[r] = "send" /\ Kind(r)' = j => cnt'[r][j] = cnt[r][j] + 1
  PROVE  Unsent'
  <1> SUFFICES ASSUME NEW q \in Ranks, NEW k \in Kinds, NEW n \in 0 .. MaxOps,
                      n >= cnt'[q][k] \/ (n = cnt'[q][k] - 1 /\ pc'[q] = "send" /\ Kind(q)' = k)
               PROVE  kvs[<<k, n, q>>] = NoEntry
    BY DEF Unsent
  <1>1. cnt[r][k] \in Nat /\ cnt'[r][k] \in Nat /\ n \in Int
    BY DEF Types
  <1>2. CASE q = r
    <2>1. CASE n >= cnt'[r][k]
      <3>1. cnt[r][k] <= cnt'[r][k]
        OBVIOUS
      <3> QED
        BY <1>1, <1>2, <2>1, <3>1 DEF Unsent
    <2>2. CASE n = cnt'[r][k] - 1 /\ pc'[r] = "send" /\ Kind(r)' = k
      <3>1. cnt'[r][k] = cnt[r][k] + 1
        BY <2>2
      <3> QED
        BY <1>1, <1>2, <2>2, <3>1 DEF Unsent
    <2> QED
      BY <1>2, <2>1, <2>2
  <1>3. CASE q # r
    BY <1>3, OthersAt DEF Others, Unsent
  <1> QED
    BY <1>2, <1>3

LEMMA StillSent ==
  ASSUME Sent, NEW r \in Ranks, Others(r), kvs' = kvs,
         pc'[r] \in {"sync", "wait"} /\ Writes(r, r)' =>
           pc[r] = "sync" /\ Writes(r, r) /\ Key(r, r)' = Key(r, r) /\ bleft'[r] = bleft[r]
  PROVE  Sent'
  BY OthersAt DEF Others, Sent

LEMMA StillFound ==
  ASSUME Types, Meetings, Found, NEW r \in Ranks, Others(r), kvs' = kvs, bleft'[r] = bleft[r],
         pc[r] \notin Inside, bentered[r] = bleft[r],
         pc'[r] = "get" => pc[r] = "get" /\ Here(r, "wait")' = Here(r, "wait")
                           /\ \A q \in Ranks : Key(r, q)' = Key(r, q) /\ Writes(r, q)' = Writes(r, q)
  PROVE  Found'
  <1>1. \A q \in Ranks : bleft[q] \in Int /\ bleft[q] <= bleft[r]
    BY DEF Types, Meetings
  <1>2. ASSUME NEW q \in Ranks, NEW x \in Ranks
        PROVE  /\ pc'[q] = "get" /\ Writes(q, x)' => kvs[Key(q, x)'].at \in 0 .. bleft'[q] - 1
               /\ pc'[q] = "wait" /\ bleft'[x] = bleft'[q] + 1 /\ Writes(q, x)' =>
                    kvs[Key(q, x)'].at \in 0 .. bleft'[q]
    <2>1. bleft'[q] = bleft[q] /\ bleft'[x] = bleft[x]
      BY DEF Others
    <2>2. CASE q = r
      BY <1>1, <2>1, <2>2 DEF Found
    <2>3. CASE q # r
      BY <2>1, <2>3, OthersAt DEF Others, Found
    <2> QED
      BY <2>2, <2>3
  <1> QED
    BY <1>2 DEF Found

(* Two ranks that wait in the same exchange use the same key.              *)
LEMMA SameExchange ==
  ASSUME Types, Segments, Meetings, NEW r \in Ranks, NEW q \in Ranks,
         pc[r] = "wait", pc[q] \in Inside, bleft[q] = bleft[r]
  PROVE  /\ pc[q] = "wait" /\ ip[q] = ip[r] /\ Op(q) = Op(r) /\ already_called[q] = already_called[r]
         /\ Kind(q) = Kind(r) /\ \A x \in Ranks : Key(q, x) = Key(r, x) /\ Writes(q, x) = Writes(r, x)
  <1>1. At(q) = At(r)
    BY DEF Segments
  <1>2. At(r) = Here(r, "wait")
    BY DEF At
  <1>3. pc[q] = "wait"
    BY <1>1, <1>2 DEF At, Here, Place, Inside
  <1>4. At(q) = Here(q, "wait")
    BY <1>3 DEF At
  <1>5. /\ ip[q] = ip[r] /\ cnt[q]["allg"] = cnt[r]["allg"] /\ cnt[q]["bcst"] = cnt[r]["bcst"]
        /\ Flag(already_called[q]) = Flag(already_called[r])
    BY <1>1, <1>2, <1>4 DEF Here, Place
  <1>6. already_called[q] = already_called[r]
    <2>1. already_called[q] \in BOOLEAN /\ already_called[r] \in BOOLEAN
      BY DEF Types
    <2> QED
      BY <1>5, <2>1 DEF Flag
  <1> QED
    BY <1>3, <1>5, <1>6 DEF Op, Kind, Key, Writes

LEMMA LeaveFound ==
  ASSUME IInv, NEW r \in Ranks, Others(r), kvs' = kvs, pc[r] \in Inside, bleft'[r] = bleft[r] + 1,
         \A q \in Ranks : bentered[q] >= bentered[r],
         pc'[r] # "wait",
         pc'[r] = "get" => pc[r] = "wait"
                           /\ \A q \in Ranks : Key(r, q)' = Key(r, q) /\ Writes(r, q)' = Writes(r, q)
  PROVE  Found'
  <1> USE DEF IInv
  <1>1. \A q \in Ranks : bleft[q] \in Int /\ bentered[q] \in Int
    BY DEF Types
  <1>2. \A q \in Ranks : bleft[q] \in {bleft[r], bleft[r] + 1}
    BY <1>1 DEF Meetings
  <1>3. \A q \in Ranks : bleft[q] = bleft[r] => pc[q] \in Inside
    BY <1>1 DEF Meetings
  <1>4. ASSUME NEW q \in Ranks, NEW x \in Ranks,
               pc[q] = "wait", bleft[x] = bleft[q], pc[x] \in Inside, Writes(q, x)
        PROVE  kvs[Key(q, x)].at = bleft[q]
    <2>1. pc[x] = "wait" /\ Key(x, x) = Key(q, x) /\ Writes(x, x)
      BY <1>4, SameExchange
    <2> QED
      BY <1>4, <2>1 DEF Sent
  <1>5. ASSUME NEW x \in Ranks, pc'[r] = "get", Writes(r, x)
        PROVE  kvs[Key(r, x)].at \in 0 .. bleft[r]
    <2>1. CASE bleft[x] = bleft[r] + 1
      BY <1>5, <2>1 DEF Found
    <2>2. CASE bleft[x] = bleft[r]
      <3>1. kvs[Key(r, x)].at = bleft[r]
        BY <1>3, <1>4, <1>5, <2>2
      <3>2. bleft[r] \in Nat
        BY DEF Types
      <3> QED
        BY <3>1, <3>2
    <2> QED
      BY <1>2, <2>1, <2>2
  <1>6. ASSUME NEW q \in Ranks, NEW x \in Ranks
        PROVE  /\ pc'[q] = "get" /\ Writes(q, x)' => kvs[Key(q, x)'].at \in 0 .. bleft'[q] - 1
               /\ pc'[q] = "wait" /\ bleft'[x] = bleft'[q] + 1 /\ Writes(q, x)' =>
                    kvs[Key(q, x)'].at \in 0 .. bleft'[q]
    <2>1. CASE q = r
      BY <1>1, <1>5, <2>1
    <2>2. CASE q # r /\ x # r
      BY <2>2, OthersAt DEF Others, Found
    <2>3. CASE q # r /\ x = r
      <3>1. /\ pc'[q] = pc[q] /\ bleft'[q] = bleft[q] /\ Key(q, x)' = Key(q, x)
            /\ Writes(q, x)' = Writes(q, x)
        BY <2>3, OthersAt DEF Others
      <3>2. bleft'[x] = bleft'[q] + 1 => bleft[x] = bleft[q]
        BY <2>3, <3>1, <1>1
      <3>3. pc[q] = "wait" /\ bleft'[x] = bleft'[q] + 1 /\ Writes(q, x) => kvs[Key(q, x)].at = bleft[q]
        BY <1>4, <2>3, <3>2
      <3>4. bleft[q] \in Nat
        BY DEF Types
      <3> QED
        BY <3>1, <3>3, <3>4 DEF Found
    <2> QED
      BY <2>1, <2>2, <2>3
  <1> QED
    BY <1>6 DEF Found
-----------------------------------------------------------------------------
(* Each action preserves the invariant.                                    *)

(* A step that enters and leaves no barrier and writes nothing             *)
LEMMA Quiet ==
  ASSUME IInv, NEW r \in Ranks, Types', Places', Others(r), At(r)' = At(r), kvs' = kvs,
         bentered' = bentered, bleft' = bleft, pc[r] \notin Inside, pc'[r] \notin Inside,
         \A j \in Kinds : cnt[r][j] <= cnt'[r][j],
         \A j \in Kinds : pc'[r] = "send" /\ Kind(r)' = j => cnt'[r][j] = cnt[r][j] + 1,
         ~(pc'[r] \in {"sync", "wait"} /\ Writes(r, r)'),
         pc'[r] = "get" => pc[r] = "get" /\ Here(r, "wait")' = Here(r, "wait")
                           /\ \A q \in Ranks : Key(r, q)' = Key(r, q) /\ Writes(r, q)' = Writes(r, q)
  PROVE  IInv'
  <1>1. Entries'
    BY DEF IInv, Entries
  <1>2. Meetings'
    <2>1. \A q \in Ranks : bentered[q] = bleft[q] + IF pc[q] \in Inside THEN 1 ELSE 0
      BY DEF IInv, Meetings
    <2>2. \A q \in Ranks : pc'[q] \in Inside <=> pc[q] \in Inside
      BY DEF Others
    <2>3. \A q, x \in Ranks : bleft[q] <= bentered[x]
      BY DEF IInv, Meetings
    <2> QED
      BY <2>1, <2>2, <2>3 DEF Meetings
  <1>3. bleft'[r] = bleft[r] /\ bentered[r] = bleft[r]
    <2>1. bentered[r] = bleft[r] + 0
      BY DEF IInv, Meetings
    <2>2. bleft[r] \in Int
      BY DEF IInv, Types
    <2> QED
      BY <2>1, <2>2
  <1>4. Segments'
    BY <1>3, StillSegments DEF IInv
  <1>5. Unsent'
    <2>1. cnt'[r] \in [Kinds -> Nat]
      BY DEF Types
    <2> QED
      BY <2>1, StillUnsent DEF IInv
  <1>6. Sent'
    BY StillSent DEF IInv
  <1>7. Found'
    BY <1>3, StillFound DEF IInv
  <1> QED
    BY <1>1, <1>2, <1>4, <1>5, <1>6, <1>7 DEF IInv

LEMMA CallInv ==
  ASSUME IInv, NEW r \in Ranks, Call(r)
  PROVE  IInv'
  <1>1. Types' /\ Places' /\ Others(r) /\ At(r)' = At(r)
    BY CallMoves DEF IInv
  <1>2. /\ pc[r] \in Labels /\ ip[r] \in Nat /\ cnt[r] \in [Kinds -> Nat] /\ Kind(r) \in Kinds
        /\ pc \in [Ranks -> Labels] /\ cnt \in [Ranks -> [Kinds -> Nat]]
    BY RankFacts DEF IInv, Types
  <1>3. /\ kvs' = kvs /\ bentered' = bentered /\ bleft' = bleft /\ prog' = prog /\ ip' = ip
        /\ pc[r] = "idle"
        /\ pc'[r] = IF Op(r) = "barrier" \/ (Op(r) = "bcast" /\ r # 0) THEN "sync" ELSE "send"
        /\ cnt'[r] = IF Op(r) = "barrier" THEN cnt[r] ELSE [cnt[r] EXCEPT ![Kind(r)] = @ + 1]
    BY <1>2 DEF Call, Goto, Count, jobVars, barVars
  <1>4. Op(r)' = Op(r) /\ Kind(r)' = Kind(r)
    BY <1>3 DEF Op, Kind
  <1>5. \A j \in Kinds : cnt[r][j] <= cnt'[r][j]
    BY <1>2, <1>3
  <1>6. \A j \in Kinds : pc'[r] = "send" /\ Kind(r)' = j => cnt'[r][j] = cnt[r][j] + 1
    BY <1>2, <1>3, <1>4
  <1>7. ~(pc'[r] \in {"sync", "wait"} /\ Writes(r, r)')
    BY <1>3, <1>4 DEF Writes
  <1> QED
    BY <1>1, <1>3, <1>5, <1>6, <1>7, Quiet DEF Inside

LEMMA GatherStepInv ==
  ASSUME IInv, NEW r \in Ranks, GatherStep(r)
  PROVE  IInv'
  <1>1. Types' /\ Places' /\ Others(r) /\ At(r)' = At(r)
    BY GatherStepMoves DEF IInv
  <1>2. /\ kvs' = kvs /\ bentered' = bentered /\ bleft' = bleft /\ prog' = prog /\ ip' = ip
        /\ pc[r] = "get" /\ pc'[r] = "get" /\ cnt' = cnt /\ already_called' = already_called
    BY DEF GatherStep, jobVars, barVars
  <1>3. \A j \in Kinds : cnt[r][j] \in Nat
    BY RankFacts DEF IInv
  <1>4. Op(r)' = Op(r) /\ Kind(r)' = Kind(r) /\ Here(r, "wait")' = Here(r, "wait")
    BY <1>2 DEF Op, Kind, Here, Flag
  <1>5. \A q \in Ranks : Key(r, q)' = Key(r, q) /\ Writes(r, q)' = Writes(r, q)
    BY <1>2, <1>4 DEF Key, Writes
  <1> QED
    BY <1>1, <1>2, <1>3, <1>4, <1>5, Quiet DEF Inside

LEMMA GatherRanksEndInv ==
  ASSUME IInv, NEW r \in Ranks, GatherRanksEnd(r)
  PROVE  IInv'
  <1>1. Types' /\ Places' /\ Others(r) /\ At(r)' = At(r)
    BY GatherRanksEndMoves DEF IInv
  <1>2. /\ pc \in [Ranks -> Labels] /\ cnt \in [Ranks -> [Kinds -> Nat]]
        /\ cnt[r] \in [Kinds -> Nat] /\ "allg" \in Kinds
    BY DEF IInv, Types, Kinds
  <1>3. /\ kvs' = kvs /\ bentered' = bentered /\ bleft' = bleft /\ prog' = prog /\ ip' = ip
        /\ pc[r] = "get" /\ pc'[r] = "send" /\ Op(r) # "bcast"
        /\ cnt'[r] = [cnt[r] EXCEPT !["allg"] = @ + 1]
    BY <1>2 DEF GatherRanksEnd, Goto, Count, jobVars, barVars
  <1>4. Kind(r)' = "allg"
    BY <1>3 DEF Op, Kind
  <1>5. \A j \in Kinds : cnt[r][j] <= cnt'[r][j]
    BY <1>2, <1>3
  <1>6. \A j \in Kinds : pc'[r] = "send" /\ Kind(r)' = j => cnt'[r][j] = cnt[r][j] + 1
    BY <1>2, <1>3, <1>4
  <1> QED
    BY <1>1, <1>3, <1>5, <1>6, Quiet DEF Inside

LEMMA GatherDataEndInv ==
  ASSUME IInv, NEW r \in Ranks, GatherDataEnd(r)
  PROVE  IInv'
  <1>1. Types' /\ Places' /\ Others(r) /\ At(r)' = At(r)
    BY GatherDataEndMoves DEF IInv
  <1>2. pc \in [Ranks -> Labels] /\ \A j \in Kinds : cnt[r][j] \in Nat
    BY RankFacts DEF IInv, Types
  <1>3. /\ kvs' = kvs /\ bentered' = bentered /\ bleft' = bleft /\ cnt' = cnt
        /\ pc[r] = "get" /\ pc'[r] \in {"idle", "sync2"}
    BY <1>2 DEF GatherDataEnd, Goto, Finish, jobVars, barVars
  <1> QED
    BY <1>1, <1>2, <1>3, Quiet DEF Inside

LEMMA BcastReceiveInv ==
  ASSUME IInv, NEW r \in Ranks, BcastReceive(r)
  PROVE  IInv'
  <1>1. Types' /\ Places' /\ Others(r) /\ At(r)' = At(r)
    BY BcastReceiveMoves DEF IInv
  <1>2. pc \in [Ranks -> Labels] /\ \A j \in Kinds : cnt[r][j] \in Nat
    BY RankFacts DEF IInv, Types
  <1>3. /\ kvs' = kvs /\ bentered' = bentered /\ bleft' = bleft /\ cnt' = cnt
        /\ pc[r] = "get" /\ pc'[r] = "sync2"
    BY <1>2 DEF BcastReceive, Goto, jobVars, barVars
  <1> QED
    BY <1>1, <1>2, <1>3, Quiet DEF Inside

LEMMA EnterBarrierInv ==
  ASSUME IInv, NEW r \in Ranks, EnterBarrier(r)
  PROVE  IInv'
  <1>1. Types' /\ Places' /\ Others(r) /\ At(r)' = At(r)
    BY EnterBarrierMoves DEF IInv
  <1>2. /\ pc \in [Ranks -> Labels] /\ \A j \in Kinds : cnt[r][j] \in Nat
        /\ bentered \in [Ranks -> 0 .. 2 * MaxOps + 2]
        /\ \A q \in Ranks : bentered[q] \in Int /\ bleft[q] \in Int
    BY RankFacts DEF IInv, Types
  <1>3. /\ kvs' = kvs /\ bleft' = bleft /\ cnt' = cnt /\ prog' = prog /\ ip' = ip
        /\ bentered[r] = bleft[r] /\ bentered' = [bentered EXCEPT ![r] = @ + 1]
        /\ \/ pc[r] = "boot" /\ pc'[r] = "booting"
           \/ pc[r] = "sync" /\ pc'[r] = "wait"
           \/ pc[r] = "sync2" /\ pc'[r] = "wait2"
    BY <1>2 DEF EnterBarrier, Goto, PMI!Enter, jobVars
  <1>4. Entries'
    BY <1>3 DEF IInv, Entries
  <1>5. Meetings'
    <2>1. pc[r] \notin Inside /\ pc'[r] \in Inside
      BY <1>3 DEF Inside
    <2>2. ASSUME NEW q \in Ranks PROVE bentered'[q] = bleft'[q] + IF pc'[q] \in Inside THEN 1 ELSE 0
      <3>1. CASE q = r
        BY <1>2, <1>3, <2>1, <3>1
      <3>2. CASE q # r
        <4>1. pc'[q] = pc[q] /\ bentered'[q] = bentered[q] /\ bleft'[q] = bleft[q]
          BY <1>1, <3>2 DEF Others
        <4>2. bentered[q] = bleft[q] + IF pc[q] \in Inside THEN 1 ELSE 0
          BY DEF IInv, Meetings
        <4> QED
          BY <4>1, <4>2
      <3> QED
        BY <3>1, <3>2
    <2>3. ASSUME NEW q \in Ranks, NEW x \in Ranks PROVE bleft'[q] <= bentered'[x]
      <3>1. bleft[q] <= bentered[x] /\ bleft'[q] = bleft[q]
        BY <1>3 DEF IInv, Meetings
      <3>2. bentered'[x] = bentered[x] \/ bentered'[x] = bentered[x] + 1
        BY <1>2, <1>3
      <3> QED
        BY <1>2, <3>1, <3>2
    <2> QED
      BY <2>2, <2>3 DEF Meetings
  <1>6. bleft'[r] = bleft[r] /\ pc[r] \notin Inside
    BY <1>3 DEF Inside
  <1>7. Segments'
    BY <1>1, <1>3, <1>6, StillSegments DEF IInv
  <1>8. Unsent'
    <2>1. cnt'[r] \in [Kinds -> Nat]
      BY <1>1 DEF Types
    <2> QED
      BY <1>1, <1>2, <1>3, <2>1, StillUnsent DEF IInv
  <1>9. Sent'
    <2>1. Op(r)' = Op(r) /\ Kind(r)' = Kind(r)
      BY <1>3 DEF Op, Kind
    <2>2. Key(r, r)' = Key(r, r) /\ Writes(r, r)' = Writes(r, r)
      BY <1>3, <2>1 DEF Key, Writes
    <2> QED
      BY <1>1, <1>3, <1>6, <2>2, StillSent DEF IInv
  <1>10. Found'
    BY <1>1, <1>3, <1>6, StillFound DEF IInv
  <1> QED
    BY <1>1, <1>4, <1>5, <1>7, <1>8, <1>9, <1>10 DEF IInv

(* A step that leaves a barrier                                            *)
LEMMA LeaveInv ==
  ASSUME IInv, NEW r \in Ranks, PMI!Leave(r), Types', Places', Others(r), At(r)' = After(At(r)),
         kvs' = kvs, cnt' = cnt, pc[r] \in Inside, pc'[r] \in {"idle", "get", "sync2"},
         pc'[r] = "get" => pc[r] = "wait" /\ Here(r, "wait")' = At(r)
                           /\ \A q \in Ranks : Key(r, q)' = Key(r, q) /\ Writes(r, q)' = Writes(r, q)
  PROVE  IInv'
  <1>1. \A q \in Ranks : bentered[q] \in Int /\ bleft[q] \in Int
    BY DEF IInv, Types
  <1>2. /\ bleft'[r] = bleft[r] + 1 /\ bentered' = bentered
        /\ \A q \in Ranks : bentered[r] <= bentered[q]
    BY DEF PMI!Leave, IInv, Types
  <1>3. bentered[r] = bleft[r] + 1
    BY DEF IInv, Meetings
  <1>4. pc'[r] \notin Inside /\ pc'[r] \notin {"sync", "wait"} /\ pc'[r] # "send"
    BY DEF Inside
  <1>5. Entries'
    BY DEF IInv, Entries
  <1>6. Meetings'
    <2>1. ASSUME NEW q \in Ranks PROVE bentered'[q] = bleft'[q] + IF pc'[q] \in Inside THEN 1 ELSE 0
      <3>1. CASE q = r
        BY <1>1, <1>2, <1>3, <1>4, <3>1
      <3>2. CASE q # r
        <4>1. pc'[q] = pc[q] /\ bentered'[q] = bentered[q] /\ bleft'[q] = bleft[q]
          BY <3>2 DEF Others
        <4>2. bentered[q] = bleft[q] + IF pc[q] \in Inside THEN 1 ELSE 0
          BY DEF IInv, Meetings
        <4> QED
          BY <4>1, <4>2
      <3> QED
        BY <3>1, <3>2
    <2>2. ASSUME NEW q \in Ranks, NEW x \in Ranks PROVE bleft'[q] <= bentered'[x]
      <3>1. CASE q = r
        BY <1>1, <1>2, <1>3, <3>1
      <3>2. CASE q # r
        BY <1>2, <3>2 DEF Others, IInv, Meetings
      <3> QED
        BY <3>1, <3>2
    <2> QED
      BY <2>1, <2>2 DEF Meetings
  <1>7. Segments'
    BY <1>2, LeaveSegments DEF IInv
  <1>8. Unsent'
    <2>1. cnt'[r] \in [Kinds -> Nat] /\ \A j \in Kinds : cnt[r][j] \in Nat
      BY DEF IInv, Types
    <2> QED
      BY <1>4, <2>1, StillUnsent DEF IInv
  <1>9. Sent'
    BY <1>4, StillSent DEF IInv
  <1>10. Found'
    BY <1>2, <1>4, LeaveFound
  <1> QED
    BY <1>5, <1>6, <1>7, <1>8, <1>9, <1>10 DEF IInv

LEMMA BootedInv ==
  ASSUME IInv, NEW r \in Ranks, Booted(r)
  PROVE  IInv'
  <1>1. Types' /\ Places' /\ Others(r) /\ At(r)' = After(At(r))
    BY BootedMoves DEF IInv
  <1>2. /\ kvs' = kvs /\ cnt' = cnt /\ PMI!Leave(r) /\ pc[r] = "booting" /\ pc'[r] = "idle"
    BY DEF Booted, Goto, IInv, Types
  <1> QED
    BY <1>1, <1>2, LeaveInv DEF Inside

LEMMA BarrierInv ==
  ASSUME IInv, NEW r \in Ranks, ctpm_Barrier(r)
  PROVE  IInv'
  <1>1. Types' /\ Places' /\ Others(r) /\ At(r)' = After(At(r))
    BY BarrierMoves DEF IInv
  <1>2. /\ kvs' = kvs /\ cnt' = cnt /\ PMI!Leave(r) /\ pc[r] = "wait" /\ pc'[r] = "idle"
    BY DEF ctpm_Barrier, Goto, Finish, IInv, Types
  <1> QED
    BY <1>1, <1>2, LeaveInv DEF Inside

LEMMA SynchronisedInv ==
  ASSUME IInv, NEW r \in Ranks, Synchronised(r)
  PROVE  IInv'
  <1>1. Types' /\ Places' /\ Others(r) /\ At(r)' = After(At(r))
    BY SynchronisedMoves DEF IInv
  <1>2. /\ kvs' = kvs /\ cnt' = cnt /\ PMI!Leave(r) /\ pc[r] = "wait2" /\ pc'[r] = "idle"
    BY DEF Synchronised, Goto, Finish, IInv, Types
  <1> QED
    BY <1>1, <1>2, LeaveInv DEF Inside

LEMMA ExchangedInv ==
  ASSUME IInv, NEW r \in Ranks, Exchanged(r)
  PROVE  IInv'
  <1>1. Types' /\ Places' /\ Others(r) /\ At(r)' = After(At(r))
    BY ExchangedMoves DEF IInv
  <1>2. /\ kvs' = kvs /\ cnt' = cnt /\ prog' = prog /\ ip' = ip /\ already_called' = already_called
        /\ PMI!Leave(r) /\ pc[r] = "wait" /\ pc'[r] \in {"get", "sync2"}
    BY DEF Exchanged, Goto, jobVars, gatherVars, IInv, Types
  <1>3. At(r) = Here(r, "wait") /\ Here(r, "wait")' = Here(r, "wait")
    BY <1>2 DEF At, Here, Flag
  <1>4. Op(r)' = Op(r) /\ Kind(r)' = Kind(r)
    BY <1>2 DEF Op, Kind
  <1>5. \A q \in Ranks : Key(r, q)' = Key(r, q) /\ Writes(r, q)' = Writes(r, q)
    BY <1>2, <1>4 DEF Key, Writes
  <1> QED
    BY <1>1, <1>2, <1>3, <1>5, LeaveInv DEF Inside

(* The key a rank is about to write is one of its own, and still free.     *)
LEMMA SendKey ==
  ASSUME IInv, NEW r \in Ranks, pc[r] = "send"
  PROVE  Key(r, r) \in Keys /\ kvs[Key(r, r)] = NoEntry
  <1>1. /\ ip[r] \in Nat /\ cnt[r][Kind(r)] \in Nat /\ Kind(r) \in Kinds
        /\ ip[r] < Len(prog) /\ Len(prog) \in Nat /\ Len(prog) <= MaxOps /\ MaxOps \in Nat
    BY RankFacts, Job DEF IInv, Outside
  <1>2. cnt[r][Kind(r)] >= 1 /\ cnt[r][Kind(r)] <= ip[r] + 1 + Flag(already_called[r])
    <2>1. PlaceOf(r) /\ Op(r) # "barrier" /\ InCall(r) = 1
      BY DEF IInv, Places, PlaceOf, InCall, Outside
    <2> QED
      BY <1>1, <2>1 DEF PlaceOf, Outside
  <1>3. Flag(already_called[r]) \in {0, 1}
    BY DEF Flag
  <1>4. cnt[r][Kind(r)] - 1 \in 0 .. MaxOps
    BY <1>1, <1>2, <1>3
  <1> QED
    BY <1>1, <1>4 DEF IInv, Unsent, Key, Keys

(* The key of an exchange a rank takes part in                             *)
LEMMA OwnKey ==
  ASSUME IInv, NEW q \in Ranks, pc[q] \in {"send", "sync", "wait", "get"}, NEW x \in Ranks, Op(q) # "barrier"
  PROVE  Key(q, x) \in Keys
  <1>1. /\ ip[q] \in Nat /\ cnt[q][Kind(q)] \in Nat /\ Kind(q) \in Kinds
        /\ ip[q] < Len(prog) /\ Len(prog) \in Nat /\ Len(prog) <= MaxOps /\ MaxOps \in Nat
    BY RankFacts, Job DEF IInv, Outside
  <1>2. cnt[q][Kind(q)] >= 1 /\ cnt[q][Kind(q)] <= ip[q] + 1 + Flag(already_called[q])
    <2>1. PlaceOf(q) /\ InCall(q) = 1
      BY DEF IInv, Places, InCall, Outside
    <2> QED
      BY <1>1, <2>1 DEF PlaceOf, Outside
  <1>3. Flag(already_called[q]) \in {0, 1}
    BY DEF Flag
  <1>4. cnt[q][Kind(q)] - 1 \in 0 .. MaxOps
    BY <1>1, <1>2, <1>3
  <1> QED
    BY <1>1, <1>4 DEF Key, Keys

LEMMA SendInv ==
  ASSUME IInv, NEW r \in Ranks, gni_pmi_send(r)
  PROVE  IInv'
  <1>1. Types' /\ Places' /\ Others(r) /\ At(r)' = At(r)
    BY SendMoves DEF IInv
  <1>2. PICK v : /\ kvs' = [kvs EXCEPT ![Key(r, r)] = [val |-> v, at |-> bentered[r]]]
                 /\ pc[r] = "send" /\ pc'[r] = "sync" /\ cnt' = cnt /\ prog' = prog /\ ip' = ip
                 /\ bentered' = bentered /\ bleft' = bleft
    BY DEF gni_pmi_send, Goto, jobVars, barVars, IInv, Types
  <1>3. Key(r, r) \in Keys /\ kvs[Key(r, r)] = NoEntry
    BY <1>2, SendKey
  <1>4. bentered[r] = bleft[r] /\ bleft[r] \in 0 .. 2 * MaxOps + 2 /\ bleft[r] \in Nat
    <2>1. bentered[r] = bleft[r] + 0 /\ bleft[r] \in 0 .. 2 * MaxOps + 2
      BY <1>2 DEF IInv, Meetings, Inside, Types
    <2> QED
      BY <2>1
  <1>5. /\ kvs'[Key(r, r)].at = bleft[r]
        /\ \A k \in Keys : k # Key(r, r) => kvs'[k] = kvs[k]
    BY <1>2, <1>3, <1>4 DEF IInv, Entries
  <1>6. Op(r)' = Op(r) /\ Kind(r)' = Kind(r)
    BY <1>2 DEF Op, Kind
  <1>7. \A q \in Ranks : Key(r, q)' = Key(r, q) /\ Writes(r, q)' = Writes(r, q)
    BY <1>2, <1>6 DEF Key, Writes
  <1>8. Entries'
    <2>1. kvs = [k \in Keys |-> kvs[k]]
      BY DEF IInv, Entries
    <2>2. kvs' = [k \in Keys |-> kvs'[k]]
      BY <1>2, <2>1
    <2>3. \A k \in Keys : kvs'[k].at \in -1 .. 2 * MaxOps + 2
      <3>1. \A k \in Keys : kvs[k].at \in -1 .. 2 * MaxOps + 2
        BY DEF IInv, Entries
      <3>2. bleft[r] \in -1 .. 2 * MaxOps + 2
        BY <1>4, MaxOpsAssumption
      <3> QED
        BY <1>5, <3>1, <3>2
    <2> QED
      BY <2>2, <2>3 DEF Entries
  <1>9. Meetings'
    <2>1. \A q \in Ranks : pc'[q] \in Inside <=> pc[q] \in Inside
      BY <1>1, <1>2 DEF Others, Inside
    <2> QED
      BY <1>2, <2>1 DEF IInv, Meetings
  <1>10. Segments'
    BY <1>1, <1>2, StillSegments DEF IInv
  <1>11. Unsent'
    <2> SUFFICES ASSUME NEW q \in Ranks, NEW k \in Kinds, NEW n \in 0 .. MaxOps,
                        n >= cnt'[q][k] \/ (n = cnt'[q][k] - 1 /\ pc'[q] = "send" /\ Kind(q)' = k)
                 PROVE  kvs'[<<k, n, q>>] = NoEntry
      BY DEF Unsent
    <2>1. <<k, n, q>> \in Keys
      BY DEF Keys
    <2>2. n >= cnt[q][k] \/ (n = cnt[q][k] - 1 /\ pc[q] = "send" /\ Kind(q) = k)
      <3>1. CASE q = r
        BY <1>2, <3>1
      <3>2. CASE q # r
        BY <1>1, <1>2, <3>2, OthersAt DEF Others
      <3> QED
        BY <3>1, <3>2
    <2>3. kvs[<<k, n, q>>] = NoEntry
      BY <2>2 DEF IInv, Unsent
    <2>4. <<k, n, q>> # Key(r, r)
      <3>1. CASE q # r
        BY <3>1 DEF Key
      <3>2. CASE q = r
        <4>1. n >= cnt[r][k]
          BY <1>2, <3>2
        <4>2. cnt[r][k] \in Nat
          BY DEF IInv, Types
        <4> QED
          BY <4>1, <4>2 DEF Key
      <3> QED
        BY <3>1, <3>2
    <2> QED
      BY <1>5, <2>1, <2>3, <2>4
  <1>12. ASSUME NEW q \in Ranks, q # r, NEW x \in Ranks, kvs[Key(q, x)].at \in Nat, Key(q, x) \in Keys
         PROVE  kvs'[Key(q, x)] = kvs[Key(q, x)]
    <2>1. NoEntry.at \notin Nat
      BY DEF NoEntry
    <2> QED
      BY <1>3, <1>5, <1>12, <2>1
  <1>13. ASSUME NEW q \in Ranks, pc[q] \in {"sync", "wait", "get"}, NEW x \in Ranks, Op(q) # "barrier"
         PROVE  Key(q, x) \in Keys
    BY <1>13, OwnKey
  <1>14. Sent'
    <2> SUFFICES ASSUME NEW q \in Ranks, pc'[q] \in {"sync", "wait"}, Writes(q, q)'
                 PROVE  kvs'[Key(q, q)'].at = bleft'[q]
      BY DEF Sent
    <2>1. CASE q = r
      BY <1>2, <1>5, <1>7, <2>1
    <2>2. CASE q # r
      <3>1. pc'[q] = pc[q] /\ Key(q, q)' = Key(q, q) /\ Writes(q, q)' = Writes(q, q) /\ bleft'[q] = bleft[q]
        BY <1>1, <2>2, OthersAt DEF Others
      <3>2. kvs[Key(q, q)].at = bleft[q] /\ bleft[q] \in Nat
        BY <3>1 DEF IInv, Sent, Types
      <3>3. Key(q, q) \in Keys
        BY <1>13, <3>1 DEF Writes
      <3> QED
        BY <1>12, <2>2, <3>1, <3>2, <3>3
    <2> QED
      BY <2>1, <2>2
  <1>15. Found'
    <2> SUFFICES ASSUME NEW q \in Ranks, NEW x \in Ranks
                 PROVE  /\ pc'[q] = "get" /\ Writes(q, x)' => kvs'[Key(q, x)'].at \in 0 .. bleft'[q] - 1
                        /\ pc'[q] = "wait" /\ bleft'[x] = bleft'[q] + 1 /\ Writes(q, x)' =>
                             kvs'[Key(q, x)'].at \in 0 .. bleft'[q]
      BY DEF Found
    <2>1. CASE q = r
      BY <1>2, <2>1
    <2>2. CASE q # r
      <3>1. /\ pc'[q] = pc[q] /\ Key(q, x)' = Key(q, x) /\ Writes(q, x)' = Writes(q, x)
            /\ bleft' = bleft /\ bleft[q] \in Nat
        <4>1. Key(q, x)' = Key(q, x) /\ Writes(q, x)' = Writes(q, x)
          BY <1>1, <2>2, OthersAt
        <4>2. pc'[q] = pc[q]
          BY <1>1, <2>2 DEF Others
        <4>3. bleft[q] \in Nat
          BY DEF IInv, Types
        <4> QED
          BY <1>2, <4>1, <4>2, <4>3
      <3>2. /\ pc[q] = "get" /\ Writes(q, x) => kvs[Key(q, x)].at \in 0 .. bleft[q] - 1
            /\ pc[q] = "wait" /\ bleft[x] = bleft[q] + 1 /\ Writes(q, x) => kvs[Key(q, x)].at \in 0 .. bleft[q]
        BY DEF IInv, Found
      <3>3. pc[q] \in {"get", "wait"} /\ Writes(q, x) => Key(q, x) \in Keys
        BY <1>13 DEF Writes
      <3>4. kvs[Key(q, x)].at \in Nat /\ Key(q, x) \in Keys => kvs'[Key(q, x)] = kvs[Key(q, x)]
        BY <1>12, <2>2
      <3>5. CASE pc[q] = "get" /\ Writes(q, x)
        BY <3>1, <3>2, <3>3, <3>4, <3>5
      <3>6. CASE pc[q] = "wait" /\ bleft[x] = bleft[q] + 1 /\ Writes(q, x)
        BY <3>1, <3>2, <3>3, <3>4, <3>6
      <3> QED
        BY <3>1, <3>5, <3>6
    <2> QED
      BY <2>1, <2>2
  <1> QED
    BY <1>1, <1>8, <1>9, <1>10, <1>11, <1>14, <1>15 DEF IInv

LEMMA NextInv == IInv /\ [Next]_vars => IInv'
  <1> SUFFICES ASSUME IInv, [Next]_vars PROVE IInv'
    OBVIOUS
  <1>1. ASSUME NEW r \in Ranks, Step(r) PROVE IInv'
    BY <1>1, CallInv, SendInv, EnterBarrierInv, BootedInv, BarrierInv, ExchangedInv, SynchronisedInv,
       GatherStepInv, GatherRanksEndInv, GatherDataEndInv, BcastReceiveInv DEF Step
  <1>2. CASE UNCHANGED vars
    <2>1. /\ prog' = prog /\ order' = order /\ pc' = pc /\ ip' = ip /\ cnt' = cnt /\ kvs' = kvs
          /\ already_called' = already_called /\ got' = got /\ bentered' = bentered /\ bleft' = bleft
      BY <1>2 DEF vars, jobVars, gatherVars, barVars
    <2>2. Types' /\ Entries' /\ Meetings'
      BY <2>1 DEF IInv, Types, Entries, Meetings
    <2>3. \A r \in Ranks : /\ Op(r)' = Op(r) /\ Kind(r)' = Kind(r) /\ InCall(r)' = InCall(r)
                           /\ Flag(already_called[r])' = Flag(already_called[r])
                           /\ \A q \in Ranks : Key(r, q)' = Key(r, q) /\ Writes(r, q)' = Writes(r, q)
      BY <2>1 DEF Op, Kind, InCall, Flag, Key, Writes
    <2>4. Places'
      BY <2>1, <2>3 DEF IInv, Places, PlaceOf
    <2>5. Unsent' /\ Sent' /\ Found'
      BY <2>1, <2>3 DEF IInv, Unsent, Sent, Found
    <2>6. \A r \in Ranks : At(r)' = At(r) /\ After(At(r))' = After(At(r)) /\ Here(r, "wait")' = Here(r, "wait")
      <3>1. ASSUME NEW r \in Ranks
            PROVE  /\ Here(r, "boot")' = Here(r, "boot") /\ Here(r, "wait")' = Here(r, "wait")
                   /\ Here(r, "wait2")' = Here(r, "wait2")
                   /\ Ahead(ip[r], Flag(already_called[r]), cnt[r]["allg"], cnt[r]["bcst"])'
                        = Ahead(ip[r], Flag(already_called[r]), cnt[r]["allg"], cnt[r]["bcst"])
        BY <2>1 DEF Here, Ahead, Flag
      <3>2. ASSUME NEW r \in Ranks PROVE After(Here(r, "wait"))' = After(Here(r, "wait"))
        BY <2>1, <3>1 DEF After, Ahead
      <3>3. ASSUME NEW r \in Ranks PROVE At(r)' = At(r)
        BY <2>1, <3>1, <3>2 DEF At
      <3> QED
        BY <2>1, <3>1, <3>3, AfterSame
    <2>7. Segments'
      BY <2>1, <2>6 DEF IInv, Segments
    <2> QED
      BY <2>2, <2>4, <2>5, <2>7 DEF IInv
  <1> QED
    BY <1>1, <1>2 DEF Next

(* The invariant holds in every reachable state, for every number of ranks *)
(* and every set of programs.                                              *)
THEOREM Invariance == Spec => []IInv
  BY InitInv, NextInv, PTL DEF Spec

(* The ranks stay in step, in PMI_Barrier and in the key-value space: a    *)
(* receive of gni_pmi_receive finds its key, and ranks that wait in one    *)
(* barrier wait in the same exchange of the same call.                     *)
THEOREM StayInStep == Spec => []InStep
  <1>1. IInv => InStep
    <2> SUFFICES ASSUME IInv PROVE InStep
      OBVIOUS
    <2>1. /\ Len(prog) \in Nat /\ Len(prog) <= MaxOps /\ MaxOps \in Nat
      BY Job DEF IInv
    <2>2. ASSUME NEW r \in Ranks
          PROVE  ip[r] \in 0 .. MaxOps /\ \A k \in Kinds : cnt[r][k] \in 0 .. MaxOps + 1
      <3>1. /\ ip[r] \in Nat /\ ip[r] + InCall(r) <= Len(prog)
            /\ \A k \in Kinds : cnt[r][k] \in Nat /\ cnt[r][k] <= ip[r] + InCall(r) + Flag(already_called[r])
        BY DEF IInv, Types, Places, PlaceOf
      <3>2. InCall(r) \in {0, 1} /\ Flag(already_called[r]) \in {0, 1}
        BY DEF InCall, Flag
      <3> QED
        BY <2>1, <3>1, <3>2
    <2>3. TypeOK
      <3>1. ip \in [Ranks -> 0 .. MaxOps]
        BY <2>2 DEF IInv, Types
      <3>2. cnt \in [Ranks -> [Kinds -> 0 .. MaxOps + 1]]
        <4>1. cnt \in [Ranks -> [Kinds -> Nat]]
          BY DEF IInv, Types
        <4>2. ASSUME NEW r \in Ranks PROVE cnt[r] \in [Kinds -> 0 .. MaxOps + 1]
          <5>1. cnt[r] \in [Kinds -> Nat] /\ \A k \in Kinds : cnt[r][k] \in 0 .. MaxOps + 1
            BY <2>2, <4>1
          <5> QED
            BY <5>1
        <4>3. \A r \in Ranks : cnt[r] \in [Kinds -> 0 .. MaxOps + 1]
          BY <4>2
        <4>4. cnt = [r \in Ranks |-> cnt[r]]
          BY <4>1
        <4> QED
          BY <4>3, <4>4
      <3> QED
        BY <3>1, <3>2 DEF IInv, Types, Entries, TypeOK, Labels
    <2>4. GetFinds
      <3> SUFFICES ASSUME NEW r \in Ranks, pc[r] = "get",
                          NEW q \in IF Op(r) = "bcast" THEN {0} ELSE Ranks
                   PROVE  kvs[Key(r, q)].at \in 0 .. bleft[r] - 1
        BY DEF GetFinds
      <3>1. q \in Ranks /\ Writes(r, q)
        BY RankTypes DEF IInv, Places, PlaceOf, Writes
      <3> QED
        BY <3>1 DEF IInv, Found
    <2>5. BarriersMatch
      <3> SUFFICES ASSUME NEW r \in Ranks, NEW q \in Ranks, pc[r] \in {"wait", "wait2"},
                          pc[q] \in {"wait", "wait2"}, bentered[r] = bentered[q]
                   PROVE  pc[r] = pc[q] /\ ip[r] = ip[q] /\ already_called[r] = already_called[q]
        BY DEF BarriersMatch
      <3>1. bleft[r] = bleft[q]
        <4>1. bentered[r] = bleft[r] + 1 /\ bentered[q] = bleft[q] + 1
          BY DEF IInv, Meetings, Inside
        <4>2. bleft[r] \in Int /\ bleft[q] \in Int
          BY DEF IInv, Types
        <4>3. bleft[r] + 1 = bleft[q] + 1
          BY <4>1
        <4> QED
          BY <4>2, <4>3
      <3>2. At(r) = At(q)
        BY <3>1 DEF IInv, Segments
      <3>3. At(r) = Here(r, pc[r]) \/ (pc[r] = "wait2" /\ At(r) = Here(r, "wait2"))
        BY DEF At
      <3>4. At(q) = Here(q, pc[q]) \/ (pc[q] = "wait2" /\ At(q) = Here(q, "wait2"))
        BY DEF At
      <3>5. /\ At(r).call = ip[r] /\ At(r).stage = pc[r] /\ At(r).flag = Flag(already_called[r])
            /\ At(q).call = ip[q] /\ At(q).stage = pc[q] /\ At(q).flag = Flag(already_called[q])
        BY <3>3, <3>4 DEF Here, Place
      <3>6. already_called[r] \in BOOLEAN /\ already_called[q] \in BOOLEAN
        BY DEF IInv, Types
      <3> QED
        BY <3>2, <3>5, <3>6 DEF Flag
    <2> QED
      BY <2>3, <2>4, <2>5 DEF InStep
  <1> QED
    BY <1>1, Invariance, PTL

(* What is in the key-value space stays.                                   *)
LEMMA Kept ==
  ASSUME IInv, NEW r \in Ranks, Step(r)
  PROVE  \A k \in Keys : kvs[k] # NoEntry => kvs'[k] = kvs[k]
  <1>1. CASE gni_pmi_send(r)
    <2>1. pc[r] = "send" /\ \E e : kvs' = [kvs EXCEPT ![Key(r, r)] = e]
      BY <1>1 DEF gni_pmi_send
    <2>2. kvs[Key(r, r)] = NoEntry
      BY <2>1, SendKey
    <2>3. kvs = [k \in Keys |-> kvs[k]]
      BY DEF IInv, Entries
    <2> QED
      BY <2>1, <2>2, <2>3
  <1>2. CASE ~gni_pmi_send(r)
    <2>1. kvs' = kvs
      BY <1>2 DEF Step, Call, EnterBarrier, Booted, ctpm_Barrier, Exchanged, Synchronised,
         GatherStep, GatherRanksEnd, GatherDataEnd, BcastReceive
    <2> QED
      BY <2>1
  <1> QED
    BY <1>1, <1>2

(* No rank puts a key that has been put before: the counters of the        *)
(* collectives never repeat a key.                                         *)
THEOREM KeysWrittenOnce == Spec => WriteOnce
  <1>1. IInv /\ [Next]_vars => [\A k \in Keys : kvs[k] # NoEntry => kvs'[k] = kvs[k]]_vars
    BY Kept DEF Next
  <1> QED
    BY <1>1, Invariance, PTL DEF Spec, WriteOnce

-----------------------------------------------------------------------------
(* The collectives as a barrier of their own                               *)

(* A rank does not come to a call's barrier before it has begun the call.  *)
LEMMA Begun ==
  ASSUME IInv, NEW q \in Ranks
  PROVE  At(q).call <= ip[q] + InCall(q) /\ (pc[q] \in {"wait", "wait2"} => At(q).call = ip[q])
  <1>1. ip[q] \in Nat
    BY DEF IInv, Types
  <1>2. CASE pc[q] = "get"
    <2>1. /\ Here(q, "wait").call = ip[q] /\ Here(q, "wait").stage = "wait"
          /\ Here(q, "wait").flag = Flag(already_called[q])
          /\ Here(q, "wait").allg = cnt[q]["allg"] /\ Here(q, "wait").bcst = cnt[q]["bcst"]
      BY DEF Here, Place
    <2>2. After(Here(q, "wait")).call \in {ip[q], ip[q] + 1}
      BY <2>1 DEF After, Ahead, Place
    <2>3. At(q) = After(Here(q, "wait")) /\ InCall(q) = 1
      BY <1>2 DEF At, InCall, Outside
    <2> QED
      BY <1>1, <1>2, <2>2, <2>3
  <1>3. CASE pc[q] # "get"
    <2>1. At(q).call = ip[q]
      BY <1>3 DEF At, Here, Ahead, Place
    <2>2. InCall(q) \in {0, 1}
      BY DEF InCall
    <2> QED
      BY <1>1, <2>1, <2>2
  <1> QED
    BY <1>2, <1>3

(* When a rank leaves the last barrier of its call, every rank has begun   *)
(* that call.                                                              *)
LEMMA LeavesTogether ==
  ASSUME IInv, NEW r \in Ranks, PMI!Leave(r), pc[r] \in {"wait", "wait2"},
         After(At(r)).call = ip[r] + 1, NEW q \in Ranks
  PROVE  ip[r] + 1 <= ip[q] + InCall(q)
  <1>1. /\ ip[q] \in Nat /\ ip[r] \in Nat
        /\ \A x \in Ranks : bentered[x] \in Int /\ bleft[x] \in Int
    BY DEF IInv, Types
  <1>2. /\ bentered[r] <= bentered[q] /\ bentered[r] = bleft[r] + 1 /\ bleft[q] <= bentered[r]
        /\ bentered[q] = bleft[q] + IF pc[q] \in Inside THEN 1 ELSE 0
    BY DEF PMI!Leave, IInv, Meetings, Inside
  <1>3. CASE bleft[q] = bleft[r] + 1
    <2>1. At(q) = After(At(r))
      BY <1>3 DEF IInv, Segments
    <2> QED
      BY <1>1, <2>1, Begun DEF InCall
  <1>4. CASE bleft[q] = bleft[r]
    <2>1. At(q) = At(r) /\ pc[q] \in Inside
      BY <1>1, <1>2, <1>4 DEF IInv, Segments
    <2>2. At(r).stage \in {"wait", "wait2"}
      BY DEF At, Here, Place
    <2>3. pc[q] \in {"wait", "wait2"}
      BY <2>1, <2>2 DEF At, Here, Place, Inside
    <2>4. At(q).call = ip[q] /\ At(r).call = ip[r] /\ InCall(q) = 1
      BY <2>3, Begun DEF InCall, Outside
    <2> QED
      BY <1>1, <2>1, <2>4
  <1>5. bleft[q] \in {bleft[r], bleft[r] + 1}
    BY <1>1, <1>2
  <1> QED
    BY <1>3, <1>4, <1>5

(* The same for ctpm_Allgather, which ends without a barrier: its data     *)
(* cannot have arrived before every rank had begun the call.               *)
LEMMA GathersTogether ==
  ASSUME IInv, NEW r \in Ranks, pc[r] = "get", Op(r) = "allgather", already_called[r], NEW q \in Ranks
  PROVE  ip[r] + 1 <= ip[q] + InCall(q)
  <1>1. /\ ip[q] \in Nat /\ ip[r] \in Nat
        /\ \A x \in Ranks : bentered[x] \in Int /\ bleft[x] \in Int
    BY DEF IInv, Types
  <1>2. /\ bentered[r] = bleft[r] + 0 /\ bleft[q] <= bentered[r] /\ bleft[r] <= bentered[q]
        /\ bentered[q] = bleft[q] + IF pc[q] \in Inside THEN 1 ELSE 0
    BY DEF IInv, Meetings, Inside
  <1>3. CASE bleft[q] = bleft[r]
    <2>1. At(q) = At(r)
      BY <1>3 DEF IInv, Segments
    <2>2. At(r) = After(Here(r, "wait"))
      BY DEF At
    <2>3. /\ Here(r, "wait").call = ip[r] /\ Here(r, "wait").stage = "wait" /\ Here(r, "wait").flag = 1
          /\ prog[ip[r] + 1] = "allgather"
      BY DEF Here, Place, Flag, Op
    <2>4. After(Here(r, "wait")).call = ip[r] + 1
      BY <2>3 DEF After, Ahead, Place
    <2> QED
      BY <1>1, <2>1, <2>2, <2>4, Begun
  <1>4. CASE bleft[r] = bleft[q] + 1
    <2>1. At(q) = Here(r, "wait") /\ pc[q] \in Inside
      BY <1>1, <1>2, <1>4 DEF IInv, Segments
    <2>2. Here(r, "wait").call = ip[r] /\ Here(r, "wait").stage = "wait"
      BY DEF Here, Place
    <2>3. pc[q] = "wait"
      BY <2>1, <2>2 DEF At, Here, Place, Inside
    <2>4. At(q).call = ip[q] /\ InCall(q) = 1
      BY <2>3, Begun DEF InCall, Outside
    <2> QED
      BY <1>1, <2>1, <2>2, <2>4
  <1>5. bleft[q] = bleft[r] \/ bleft[r] = bleft[q] + 1
    BY <1>1, <1>2
  <1> QED
    BY <1>3, <1>4, <1>5

(* How a step of a rank looks to a reader who counts calls only            *)
Begins(r) == ip' = ip /\ InCall(r) = 0 /\ InCall(r)' = 1 /\ ip[r] < MaxOps
Returns(r) ==
  /\ ip' = [ip EXCEPT ![r] = @ + 1] /\ InCall(r) = 1 /\ InCall(r)' = 0
  /\ \A q \in Ranks : ip[r] + 1 <= ip[q] + InCall(q)
Stutters(r) == ip' = ip /\ InCall(r)' = InCall(r)

LEMMA StepCounts ==
  ASSUME IInv, NEW r \in Ranks, Step(r)
  PROVE  Others(r) /\ (Begins(r) \/ Returns(r) \/ Stutters(r))
  <1>1. Others(r)
    BY CallMoves, SendMoves, EnterBarrierMoves, BootedMoves, BarrierMoves, ExchangedMoves, SynchronisedMoves,
       GatherStepMoves, GatherRanksEndMoves, GatherDataEndMoves, BcastReceiveMoves DEF Step, IInv
  <1> SUFFICES Begins(r) \/ Returns(r) \/ Stutters(r)
    BY <1>1
  <1>2. /\ pc \in [Ranks -> Labels] /\ ip[r] \in Nat /\ Len(prog) \in Nat /\ Len(prog) <= MaxOps /\ MaxOps \in Nat
    BY Job DEF IInv, Types
  <1>3. CASE Call(r)
    BY <1>2, <1>3 DEF Call, Goto, Begins, InCall, Outside
  <1>4. CASE gni_pmi_send(r)
    BY <1>2, <1>4 DEF gni_pmi_send, Goto, Stutters, InCall, Outside
  <1>5. CASE EnterBarrier(r)
    BY <1>2, <1>5 DEF EnterBarrier, Goto, Stutters, InCall, Outside
  <1>6. CASE Booted(r)
    BY <1>2, <1>6 DEF Booted, Goto, Stutters, InCall, Outside
  <1>7. CASE ctpm_Barrier(r)
    <2>1. pc[r] = "wait" /\ Op(r) = "barrier" /\ PMI!Leave(r) /\ pc'[r] = "idle" /\ ip' = [ip EXCEPT ![r] = @ + 1]
      BY <1>2, <1>7 DEF ctpm_Barrier, Goto, Finish
    <2>2. At(r).call = ip[r] /\ At(r).stage = "wait"
      BY <2>1 DEF At, Here, Place
    <2>3. After(At(r)).call = ip[r] + 1
      BY <2>1, <2>2 DEF After, Ahead, Place, Op
    <2>4. \A q \in Ranks : ip[r] + 1 <= ip[q] + InCall(q)
      BY <2>1, <2>3, LeavesTogether
    <2> QED
      BY <2>1, <2>4 DEF Returns, InCall, Outside
  <1>8. CASE Exchanged(r)
    BY <1>2, <1>8 DEF Exchanged, Goto, Stutters, InCall, Outside
  <1>9. CASE Synchronised(r)
    <2>1. pc[r] = "wait2" /\ PMI!Leave(r) /\ pc'[r] = "idle" /\ ip' = [ip EXCEPT ![r] = @ + 1]
      BY <1>2, <1>9 DEF Synchronised, Goto, Finish
    <2>2. At(r).call = ip[r] /\ At(r).stage = "wait2"
      BY <2>1 DEF At, Here, Place
    <2>3. After(At(r)).call = ip[r] + 1
      BY <2>2 DEF After, Ahead, Place
    <2>4. \A q \in Ranks : ip[r] + 1 <= ip[q] + InCall(q)
      BY <2>1, <2>3, LeavesTogether
    <2> QED
      BY <2>1, <2>4 DEF Returns, InCall, Outside
  <1>10. CASE GatherStep(r)
    BY <1>2, <1>10 DEF GatherStep, Stutters, InCall
  <1>11. CASE GatherRanksEnd(r)
    BY <1>2, <1>11 DEF GatherRanksEnd, Goto, Stutters, InCall, Outside
  <1>12. CASE GatherDataEnd(r)
    <2>1. pc[r] = "get" /\ already_called[r]
      BY <1>12 DEF GatherDataEnd
    <2>2. CASE Op(r) = "allgather"
      <3>1. pc'[r] = "idle" /\ ip' = [ip EXCEPT ![r] = @ + 1]
        BY <1>2, <1>12, <2>2 DEF GatherDataEnd, Goto, Finish
      <3>2. \A q \in Ranks : ip[r] + 1 <= ip[q] + InCall(q)
        BY <2>1, <2>2, GathersTogether
      <3> QED
        BY <2>1, <3>1, <3>2 DEF Returns, InCall, Outside
    <2>3. CASE Op(r) # "allgather"
      BY <1>2, <1>12, <2>3 DEF GatherDataEnd, Goto, Stutters, InCall, Outside
    <2> QED
      BY <2>2, <2>3
  <1>13. CASE BcastReceive(r)
    BY <1>2, <1>13 DEF BcastReceive, Goto, Stutters, InCall, Outside
  <1> QED
    BY <1>3, <1>4, <1>5, <1>6, <1>7, <1>8, <1>9, <1>10, <1>11, <1>12, <1>13 DEF Step

(* Every collective synchronises: whatever the program and the number of   *)
(* ranks, no rank returns from its n-th call before all have begun theirs. *)
THEOREM CallsSynchronise == Spec => Collective!Safe
  <1> DEFINE E == [r \in Ranks |-> ip[r] + IF pc[r] \in {"boot", "booting", "idle"} THEN 0 ELSE 1]
  <1>1. Init => Collective!Init
    BY DEF Init, Collective!Init
  <1>2. IInv /\ [Next]_vars => [Collective!Next]_Collective!vars
    <2> SUFFICES ASSUME IInv, [Next]_vars PROVE [Collective!Next]_Collective!vars
      OBVIOUS
    <2>1. ip \in [Ranks -> Nat] /\ \A q \in Ranks : E[q] = ip[q] + InCall(q)
      BY DEF IInv, Types, InCall, Outside
    <2>2. \A q \in Ranks : E'[q] = ip'[q] + InCall(q)'
      BY DEF InCall, Outside
    <2>3. CASE UNCHANGED vars
      <3>1. ip' = ip /\ pc' = pc
        BY <2>3 DEF vars
      <3> QED
        BY <3>1 DEF Collective!vars
    <2>4. ASSUME NEW r \in Ranks, Step(r) PROVE [Collective!Next]_Collective!vars
      <3>1. Others(r) /\ (Begins(r) \/ Returns(r) \/ Stutters(r))
        BY <2>4, StepCounts
      <3>2. \A q \in Ranks \ {r} : InCall(q)' = InCall(q)
        BY <3>1 DEF Others, InCall
      <3>3. CASE Begins(r)
        <4>1. E[r] = ip[r] /\ E[r] < MaxOps /\ E'[r] = E[r] + 1
          BY <2>1, <2>2, <3>3 DEF Begins
        <4>2. \A q \in Ranks \ {r} : E'[q] = E[q]
          BY <2>1, <2>2, <3>2, <3>3 DEF Begins
        <4>3. E' = [E EXCEPT ![r] = @ + 1]
          BY <4>1, <4>2
        <4>4. Collective!Enter(r)
          BY <3>3, <4>1, <4>3 DEF Collective!Enter, Begins
        <4> QED
          BY <4>4 DEF Collective!Next
      <3>4. CASE Returns(r)
        <4>1. E[r] = ip[r] + 1 /\ \A q \in Ranks : E[r] <= E[q]
          BY <2>1, <3>4 DEF Returns
        <4>2. \A q \in Ranks : E'[q] = E[q]
          BY <2>1, <2>2, <3>2, <3>4 DEF Returns
        <4>3. E' = E
          BY <4>2
        <4>4. ip[r] < E[r]
          BY <2>1, <4>1
        <4>5. Collective!Leave(r)
          BY <3>4, <4>1, <4>3, <4>4 DEF Collective!Leave, Returns
        <4> QED
          BY <4>5 DEF Collective!Next
      <3>5. CASE Stutters(r)
        <4>1. \A q \in Ranks : E'[q] = E[q]
          BY <2>1, <2>2, <3>2, <3>5 DEF Stutters
        <4>2. E' = E
          BY <4>1
        <4> QED
          BY <3>5, <4>2 DEF Collective!vars, Stutters
      <3> QED
        BY <3>1, <3>3, <3>4, <3>5
    <2> QED
      BY <2>3, <2>4 DEF Next
  <1> QED
    BY <1>1, <1>2, Invariance, PTL DEF Spec, Collective!Safe

-----------------------------------------------------------------------------
(* The codec, for buffers of any length.                                   *)
(* A byte is its high nibble times 16 plus its low nibble.                 *)
LEMMA Nibbles ==
  ASSUME NEW b \in Byte
  PROVE  /\ b % 16 \in Letter /\ b \div 16 \in Letter
         /\ 16 * (b \div 16) + (b % 16) = b
  BY DEF Byte, Letter

(* The string of a buffer has two letters for each byte.                   *)
LEMMA EncodeShape ==
  ASSUME NEW buf \in Seq(Byte)
  PROVE  /\ Encode(buf) \in Seq(Letter)
         /\ Len(Encode(buf)) = 2 * Len(buf)
         /\ \A n \in 1 .. Len(buf) : /\ Encode(buf)[2 * n - 1] = buf[n] % 16
                                     /\ Encode(buf)[2 * n] = buf[n] \div 16
  <1> DEFINE L == Len(buf)
  <1>1. L \in Nat /\ 2 * L \in Nat
    OBVIOUS
  <1>2. ASSUME NEW n \in 1 .. 2 * L
        PROVE  Encode(buf)[n] \in Letter
    <2>1. CASE n % 2 = 1
      <3>1. (n + 1) \div 2 \in 1 .. L
        BY <1>1, <2>1
      <3>2. buf[(n + 1) \div 2] \in Byte
        BY <3>1
      <3> QED
        BY <2>1, <3>2, Nibbles DEF Encode
    <2>2. CASE n % 2 # 1
      <3>1. n \div 2 \in 1 .. L
        BY <1>1, <2>2
      <3>2. buf[n \div 2] \in Byte
        BY <3>1
      <3> QED
        BY <2>2, <3>2, Nibbles DEF Encode
    <2> QED
      BY <2>1, <2>2
  <1>3. Encode(buf) \in [1 .. 2 * L -> Letter]
    BY <1>2 DEF Encode
  <1>4. Encode(buf) \in Seq(Letter) /\ Len(Encode(buf)) = 2 * L
    BY <1>1, <1>3
  <1>5. ASSUME NEW n \in 1 .. L
        PROVE  /\ Encode(buf)[2 * n - 1] = buf[n] % 16
               /\ Encode(buf)[2 * n] = buf[n] \div 16
    <2>1. /\ 2 * n - 1 \in 1 .. 2 * L /\ (2 * n - 1) % 2 = 1 /\ (2 * n - 1 + 1) \div 2 = n
          /\ 2 * n \in 1 .. 2 * L /\ (2 * n) % 2 = 0 /\ (2 * n) \div 2 = n
      BY <1>1
    <2> QED
      BY <2>1 DEF Encode
  <1> QED
    BY <1>4, <1>5

(* gni_pmi_receive returns the bytes gni_pmi_send was given, for buffers   *)
(* of every length.                                                        *)
THEOREM CodecCorrect == \A buf \in Seq(Byte) : RoundTrip(buf)
  <1> TAKE buf \in Seq(Byte)
  <1> DEFINE L == Len(buf)
             e == Encode(buf)
  <1>1. L \in Nat /\ e \in Seq(Letter) /\ Len(e) = 2 * L
    BY EncodeShape
  <1>2. (2 * L) \div 2 = L
    BY <1>1
  <1>3. Decode(e) = [n \in 1 .. L |-> 16 * e[2 * n] + e[2 * n - 1]]
    BY <1>1, <1>2 DEF Decode
  <1>4. ASSUME NEW n \in 1 .. L
        PROVE  Decode(e)[n] = buf[n]
    <2>1. e[2 * n] = buf[n] \div 16 /\ e[2 * n - 1] = buf[n] % 16 /\ buf[n] \in Byte
      BY EncodeShape
    <2>2. Decode(e)[n] = 16 * (buf[n] \div 16) + (buf[n] % 16)
      BY <1>3, <2>1
    <2> QED
      BY <2>1, <2>2, Nibbles
  <1>5. Decode(e) = buf
    <2> HIDE DEF e
    <2>1. buf = [n \in 1 .. L |-> buf[n]]
      OBVIOUS
    <2>2. Decode(e) = [n \in 1 .. L |-> Decode(e)[n]]
      BY <1>3
    <2> QED
      BY <1>4, <2>1, <2>2
  <1> QED
    BY <1>1, <1>5 DEF RoundTrip, DecodeOutlen

-----------------------------------------------------------------------------
(* The data of the collectives                                             *)

(* What q publishes in the exchange that r is in                           *)
DataOf(r, q) == IF Kind(r) = "allg" /\ ~already_called[r] THEN Bytes(q) ELSE Input(ip[r], q)
Inputs(n) == [q \in Ranks |-> Input(n, q)]

SentData ==
  \A q \in Ranks : pc[q] \in {"sync", "wait"} /\ Writes(q, q) =>
    kvs[Key(q, q)].val = Encode(DataOf(q, q))

(* The entries of its own exchange, once a rank may read them              *)
Reads(r, q) == Writes(r, q) /\ (pc[r] = "get" \/ (pc[r] = "wait" /\ bleft[q] = bleft[r] + 1))
FoundData ==
  \A r, q \in Ranks : Reads(r, q) => kvs[Key(r, q)].val = Encode(DataOf(r, q))

(* What a rank has received so far, and what its last call returned        *)
Delivered(r, n, op) ==
  /\ op = "allgather" => out[r] = Inputs(n)
  /\ op = "allreduce" => out[r] = Reduce(Inputs(n))
  /\ op = "bcast" => out[r] = Input(n, 0)
LocalData(r) ==
  /\ pc[r] # "get" \/ Op(r) = "bcast" => got[r] = 0
  /\ already_called[r] => ivec[r] = order
  /\ pc[r] = "get" /\ Op(r) # "bcast" => \A j \in Ranks : j < got[r] => tmp[r][j] = DataOf(r, order[j])
  /\ pc[r] \in {"sync2", "wait2"} /\ Op(r) = "allreduce" => out[r] = Inputs(ip[r])
  /\ pc[r] \in {"sync2", "wait2"} /\ Op(r) = "bcast" /\ r # 0 => out[r] = Input(ip[r], 0)
  /\ pc[r] = "idle" /\ ip[r] > 0 => Delivered(r, ip[r] - 1, prog[ip[r]])

Buffers ==
  /\ ivec = [r \in Ranks |-> ivec[r]] /\ out = [r \in Ranks |-> out[r]]
  /\ tmp = [r \in Ranks |-> [j \in Ranks |-> tmp[r][j]]]

DInv == IInv /\ Buffers /\ SentData /\ FoundData /\ \A r \in Ranks : LocalData(r)

(* An int comes back from memory as it went there.                         *)
LEMMA IntBytes ==
  ASSUME NEW x \in Nat
  PROVE  /\ Bytes(x) \in Seq(Byte) /\ Len(Bytes(x)) = 4
         /\ x <= 2147483647 => Number(Bytes(x)) = x
  <1>1. /\ x % 256 \in Byte /\ (x \div 256) % 256 \in Byte /\ (x \div 65536) % 256 \in Byte
        /\ (x \div 16777216) % 256 \in Byte
    BY DEF Byte
  <1>2. Bytes(x) \in Seq(Byte) /\ Len(Bytes(x)) = 4
    BY <1>1 DEF Bytes
  <1>3. ASSUME x <= 2147483647 PROVE Number(Bytes(x)) = x
    <2>1. Number(Bytes(x)) = (x % 256) + 256 * ((x \div 256) % 256) + 65536 * ((x \div 65536) % 256)
                             + 16777216 * ((x \div 16777216) % 256)
      BY DEF Number, Bytes
    <2> DEFINE y == x \div 256
               z == y \div 256
               a == x % 256
               b == y % 256
               c == z % 256
               d == z \div 256
    <2>a. /\ a \in Nat /\ a < 256 /\ y \in Nat /\ x = 256 * y + a
      OBVIOUS
    <2>b. /\ b \in Nat /\ b < 256 /\ z \in Nat /\ y = 256 * z + b
      BY <2>a
    <2>c. /\ c \in Nat /\ c < 256 /\ d \in Nat /\ z = 256 * d + c
      BY <2>b
    <2> HIDE DEF y, z, a, b, c, d
    <2>d. x = a + 256 * b + 65536 * c + 16777216 * d
      BY <2>a, <2>b, <2>c
    <2>2. a \in Nat /\ b \in Nat /\ c \in Nat /\ d \in Nat /\ a < 256 /\ b < 256 /\ c < 256 /\ d < 128
      BY <1>3, <2>a, <2>b, <2>c, <2>d
    <2>3. x \div 256 = b + 256 * c + 65536 * d
      BY <2>2, <2>d
    <2>4. x \div 65536 = c + 256 * d
      BY <2>2, <2>d
    <2>5. x \div 16777216 = d
      BY <2>2, <2>d
    <2>6. x % 256 = a
      BY <2>2, <2>d
    <2>7. (x \div 256) % 256 = b
      BY <2>2, <2>3
    <2>8. (x \div 65536) % 256 = c
      BY <2>2, <2>4
    <2>9. (x \div 16777216) % 256 = d
      BY <2>2, <2>5
    <2> QED
      BY <2>1, <2>d, <2>6, <2>7, <2>8, <2>9
  <1> QED
    BY <1>2, <1>3

LEMMA InputBytes ==
  ASSUME NEW n \in Nat, NEW q \in Ranks
  PROVE  Input(n, q) \in Seq(Byte) /\ Len(Input(n, q)) = 4
  <1>1. n * NRanks + q \in Nat
    BY NRanksAssumption, RankTypes
  <1> QED
    BY <1>1, IntBytes DEF Input

(* An entry of the exchange a rank is in is the sender's data.             *)
LEMMA ReceivesData ==
  ASSUME IInv, FoundData, NEW r \in Ranks, NEW q \in Ranks, pc[r] = "get", Writes(r, q)
  PROVE  gni_pmi_receive(r, q) = DataOf(r, q)
  <1>1. kvs[Key(r, q)].val = Encode(DataOf(r, q))
    BY DEF FoundData, Reads
  <1>2. ip[r] \in Nat /\ q \in Nat
    BY RankTypes DEF IInv, Types
  <1>3. DataOf(r, q) \in Seq(Byte) /\ Len(DataOf(r, q)) = 4 /\ Len(Input(ip[r], r)) = 4
    BY <1>2, IntBytes, InputBytes DEF DataOf
  <1>4. /\ Decode(Encode(DataOf(r, q))) = DataOf(r, q)
        /\ DecodeOutlen(Encode(DataOf(r, q))) = 8
    <2> DEFINE d == DataOf(r, q)
    <2> HIDE DEF d
    <2>0. d \in Seq(Byte) /\ Len(d) = 4
      BY <1>3 DEF d
    <2>1. Decode(Encode(d)) = d
      BY <2>0, CodecCorrect DEF RoundTrip
    <2>2. Len(Encode(d)) = 8
      <3>1. Len(Encode(d)) = 2 * Len(d)
        BY <2>0, EncodeShape
      <3> QED
        BY <2>0, <3>1
    <2> USE DEF d
    <2> QED
      BY <2>1, <2>2 DEF DecodeOutlen
  <1>5. gni_pmi_receive(r, q) = SubSeq(DataOf(r, q), 1, 4)
    BY <1>1, <1>3, <1>4 DEF gni_pmi_receive
  <1>6. SubSeq(DataOf(r, q), 1, 4) = DataOf(r, q)
    BY <1>3
  <1> QED
    BY <1>5, <1>6

-----------------------------------------------------------------------------
LEMMA InitData == Init => DInv
  <1> SUFFICES ASSUME Init PROVE DInv
    OBVIOUS
  <1>1. IInv
    BY InitInv
  <1>2. Buffers
    BY DEF Init, Buffers, NoData
  <1>3. \A r \in Ranks : pc[r] = "boot" /\ got[r] = 0 /\ already_called[r] = FALSE
    BY DEF Init
  <1>4. SentData /\ FoundData /\ \A r \in Ranks : LocalData(r)
    BY <1>3 DEF SentData, FoundData, Reads, LocalData
  <1> QED
    BY <1>1, <1>2, <1>4 DEF DInv

(* The entries that are read from, and the rank's own, are kept.           *)
LEMMA ReadsKept ==
  ASSUME IInv, NEW r \in Ranks, Step(r), NEW q \in Ranks, NEW x \in Ranks,
         Reads(q, x) \/ (x = q /\ pc[q] \in {"sync", "wait"} /\ Writes(q, q))
  PROVE  kvs'[Key(q, x)] = kvs[Key(q, x)]
  <1>1. bleft[q] \in Nat /\ Op(q) # "barrier" /\ pc[q] \in {"sync", "wait", "get"}
    BY DEF IInv, Types, Reads, Writes
  <1>2. Key(q, x) \in Keys
    BY <1>1, OwnKey
  <1>3. kvs[Key(q, x)].at \in Nat
    <2>1. CASE Reads(q, x)
      BY <1>1, <2>1 DEF IInv, Found, Reads
    <2>2. CASE x = q /\ pc[q] \in {"sync", "wait"} /\ Writes(q, q)
      BY <1>1, <2>2 DEF IInv, Sent
    <2> QED
      BY <2>1, <2>2
  <1>4. kvs[Key(q, x)] # NoEntry
    BY <1>3 DEF NoEntry
  <1> QED
    BY <1>2, <1>4, Kept

LEMMA OthersData ==
  ASSUME NEW r \in Ranks, Others(r), NEW q \in Ranks, q # r
  PROVE  \A x \in Ranks : DataOf(q, x)' = DataOf(q, x)
  <1>1. Kind(q)' = Kind(q) /\ ip'[q] = ip[q] /\ already_called'[q] = already_called[q]
    BY OthersAt DEF Others
  <1> QED
    BY <1>1 DEF DataOf

(* How a step changes the exchange that the rank is in                     *)
Stays(r) == \A x \in Ranks : Key(r, x)' = Key(r, x) /\ Writes(r, x)' = Writes(r, x) /\ DataOf(r, x)' = DataOf(r, x)

(* What every step does to the exchange of its rank                        *)
LEMMA StepExchange ==
  ASSUME IInv, NEW r \in Ranks, Step(r)
  PROVE  /\ pc'[r] \in {"sync", "wait"} /\ Writes(r, r)' =>
              \/ pc[r] = "sync" /\ Stays(r)
              \/ pc[r] = "send" /\ Stays(r) /\ kvs'[Key(r, r)].val = Encode(DataOf(r, r))
         /\ pc'[r] = "get" => pc[r] \in {"get", "wait"} /\ Stays(r) /\ (pc[r] = "get" => bleft' = bleft)
         /\ pc'[r] = "get" /\ pc[r] = "wait" => \A q \in Ranks : bentered[r] <= bentered[q]
         /\ pc'[r] = "wait" => pc[r] = "sync" /\ bleft' = bleft
         /\ \/ bleft' = bleft
            \/ pc[r] \in Inside /\ bleft'[r] = bleft[r] + 1 /\ \A q \in Ranks : bentered[r] <= bentered[q]
  <1>1. /\ pc \in [Ranks -> Labels] /\ bleft \in [Ranks -> 0 .. 2 * MaxOps + 2]
        /\ already_called[r] \in BOOLEAN
    BY DEF IInv, Types
  <1>2. ASSUME prog' = prog, ip'[r] = ip[r], cnt'[r] = cnt[r], already_called'[r] = already_called[r]
        PROVE  Stays(r)
    <2>1. Op(r)' = Op(r)
      BY <1>2 DEF Op
    <2>2. Kind(r)' = Kind(r)
      BY <2>1 DEF Kind
    <2> QED
      BY <1>2, <2>1, <2>2 DEF Stays, Key, Writes, DataOf
  <1>3. CASE Call(r)
    <2>1. /\ prog' = prog /\ ip' = ip /\ bleft' = bleft
          /\ pc'[r] = IF Op(r) = "barrier" \/ (Op(r) = "bcast" /\ r # 0) THEN "sync" ELSE "send"
      BY <1>1, <1>3 DEF Call, Goto, jobVars, barVars
    <2>2. Op(r)' = Op(r)
      BY <2>1 DEF Op
    <2> QED
      BY <2>1, <2>2 DEF Writes
  <1>4. CASE gni_pmi_send(r)
    <2>1. /\ prog' = prog /\ ip' = ip /\ cnt' = cnt /\ already_called' = already_called /\ bleft' = bleft
          /\ pc[r] = "send" /\ pc'[r] = "sync"
          /\ kvs' = [kvs EXCEPT ![Key(r, r)] = [val |-> Encode(DataOf(r, r)), at |-> bentered[r]]]
      BY <1>1, <1>4 DEF gni_pmi_send, Goto, jobVars, barVars, gatherVars, DataOf
    <2>2. Key(r, r) \in Keys /\ kvs = [k \in Keys |-> kvs[k]]
      BY <2>1, SendKey DEF IInv, Entries
    <2>3. kvs'[Key(r, r)].val = Encode(DataOf(r, r))
      BY <2>1, <2>2
    <2> QED
      BY <1>2, <2>1, <2>3
  <1>5. CASE EnterBarrier(r)
    <2>1. /\ prog' = prog /\ ip' = ip /\ cnt' = cnt /\ already_called' = already_called /\ bleft' = bleft
          /\ pc'[r] \in {"wait", "booting", "wait2"} /\ (pc'[r] = "wait" => pc[r] = "sync")
      BY <1>1, <1>5 DEF EnterBarrier, Goto, jobVars, gatherVars, PMI!Enter
    <2> QED
      BY <1>2, <2>1
  <1>6. CASE Booted(r)
    <2>1. pc'[r] = "idle" /\ pc[r] = "booting" /\ PMI!Leave(r)
      BY <1>1, <1>6 DEF Booted, Goto
    <2> QED
      BY <1>1, <2>1 DEF PMI!Leave, Inside
  <1>7. CASE ctpm_Barrier(r)
    <2>1. pc'[r] = "idle" /\ pc[r] = "wait" /\ PMI!Leave(r)
      BY <1>1, <1>7 DEF ctpm_Barrier, Finish, Goto
    <2> QED
      BY <1>1, <2>1 DEF PMI!Leave, Inside
  <1>8. CASE Exchanged(r)
    <2>1. /\ prog' = prog /\ ip' = ip /\ cnt' = cnt /\ already_called' = already_called
          /\ pc[r] = "wait" /\ pc'[r] \in {"get", "sync2"} /\ PMI!Leave(r)
      BY <1>1, <1>8 DEF Exchanged, Goto, jobVars, gatherVars
    <2> QED
      BY <1>1, <1>2, <2>1 DEF PMI!Leave, Inside
  <1>9. CASE Synchronised(r)
    <2>1. pc'[r] = "idle" /\ pc[r] = "wait2" /\ PMI!Leave(r)
      BY <1>1, <1>9 DEF Synchronised, Finish, Goto
    <2> QED
      BY <1>1, <2>1 DEF PMI!Leave, Inside
  <1>10. CASE GatherStep(r)
    <2>1. /\ prog' = prog /\ ip' = ip /\ cnt' = cnt /\ already_called' = already_called /\ bleft' = bleft
          /\ pc[r] = "get" /\ pc' = pc
      BY <1>10 DEF GatherStep, jobVars, barVars
    <2> QED
      BY <1>2, <2>1
  <1>11. CASE GatherRanksEnd(r)
    <2>1. pc'[r] = "send" /\ bleft' = bleft
      BY <1>1, <1>11 DEF GatherRanksEnd, Goto, barVars
    <2> QED
      BY <2>1
  <1>12. CASE GatherDataEnd(r)
    <2>1. pc'[r] \in {"idle", "sync2"} /\ bleft' = bleft
      BY <1>1, <1>12 DEF GatherDataEnd, Goto, Finish, barVars
    <2> QED
      BY <2>1
  <1>13. CASE BcastReceive(r)
    <2>1. pc'[r] = "sync2" /\ bleft' = bleft
      BY <1>1, <1>13 DEF BcastReceive, Goto, barVars
    <2> QED
      BY <2>1
  <1> QED
    BY <1>3, <1>4, <1>5, <1>6, <1>7, <1>8, <1>9, <1>10, <1>11, <1>12, <1>13 DEF Step

LEMMA KeepsSent ==
  ASSUME IInv, SentData, NEW r \in Ranks, Step(r), Others(r)
  PROVE  SentData'
  <1> SUFFICES ASSUME NEW q \in Ranks, pc'[q] \in {"sync", "wait"}, Writes(q, q)'
               PROVE  kvs'[Key(q, q)'].val = Encode(DataOf(q, q)')
    BY DEF SentData
  <1>1. CASE q = r
    <2>1. CASE pc[r] = "sync" /\ Stays(r)
      <3>1. Key(r, r)' = Key(r, r) /\ Writes(r, r) /\ DataOf(r, r)' = DataOf(r, r)
        BY <1>1, <2>1 DEF Stays
      <3>2. kvs'[Key(r, r)] = kvs[Key(r, r)]
        BY <2>1, <3>1, ReadsKept
      <3>3. kvs[Key(r, r)].val = Encode(DataOf(r, r))
        BY <2>1, <3>1 DEF SentData
      <3> QED
        BY <1>1, <3>1, <3>2, <3>3
    <2>2. CASE Stays(r) /\ kvs'[Key(r, r)].val = Encode(DataOf(r, r))
      BY <1>1, <2>2 DEF Stays
    <2> QED
      BY <1>1, <2>1, <2>2, StepExchange
  <1>2. CASE q # r
    <2>1. Key(q, q)' = Key(q, q) /\ Writes(q, q) /\ pc[q] \in {"sync", "wait"} /\ DataOf(q, q)' = DataOf(q, q)
      BY <1>2, OthersAt, OthersData DEF Others
    <2>2. kvs'[Key(q, q)] = kvs[Key(q, q)]
      BY <2>1, ReadsKept
    <2>3. kvs[Key(q, q)].val = Encode(DataOf(q, q))
      BY <2>1 DEF SentData
    <2> QED
      BY <2>1, <2>2, <2>3
  <1> QED
    BY <1>1, <1>2

(* Who waits in the barrier of r's exchange has published its data there.  *)
LEMMA Published ==
  ASSUME IInv, SentData, NEW r \in Ranks, pc[r] = "wait", NEW q \in Ranks, pc[q] \in Inside,
         bleft[q] = bleft[r], Writes(r, q)
  PROVE  /\ kvs[Key(r, q)].val = Encode(DataOf(r, q))
         /\ pc[q] = "wait" /\ Writes(q, q) /\ Key(r, q) = Key(q, q)
  <1>1. /\ pc[q] = "wait" /\ ip[q] = ip[r] /\ Kind(q) = Kind(r) /\ already_called[q] = already_called[r]
        /\ Key(q, q) = Key(r, q) /\ Writes(q, q)
    BY SameExchange DEF IInv
  <1>2. DataOf(q, q) = DataOf(r, q)
    BY <1>1 DEF DataOf
  <1>3. kvs[Key(q, q)].val = Encode(DataOf(q, q))
    BY <1>1 DEF SentData
  <1> QED
    BY <1>1, <1>2, <1>3

LEMMA KeepsFound ==
  ASSUME IInv, SentData, FoundData, NEW r \in Ranks, Step(r), Others(r)
  PROVE  FoundData'
  <1> SUFFICES ASSUME NEW q \in Ranks, NEW x \in Ranks, Reads(q, x)'
               PROVE  kvs'[Key(q, x)'].val = Encode(DataOf(q, x)')
    BY DEF FoundData
  <1>1. \A y \in Ranks : /\ bleft[y] \in Int /\ bentered[y] \in Int /\ bleft[y] <= bentered[q]
                         /\ bentered[y] = bleft[y] + (IF pc[y] \in Inside THEN 1 ELSE 0)
    BY DEF IInv, Types, Meetings
  <1>2. Writes(q, x)' /\ (pc'[q] = "get" \/ (pc'[q] = "wait" /\ bleft'[x] = bleft'[q] + 1))
    BY DEF Reads
  (* Where nothing changed but that the entry may be read only now          *)
  <1>3. ASSUME Key(q, x)' = Key(q, x), DataOf(q, x)' = DataOf(q, x),
               Reads(q, x) \/ (pc[q] = "wait" /\ pc[x] \in Inside /\ bleft[x] = bleft[q] /\ Writes(q, x))
        PROVE  kvs'[Key(q, x)'].val = Encode(DataOf(q, x)')
    <2>1. CASE Reads(q, x)
      <3>1. kvs'[Key(q, x)] = kvs[Key(q, x)]
        BY <2>1, ReadsKept
      <3>2. kvs[Key(q, x)].val = Encode(DataOf(q, x))
        BY <2>1 DEF FoundData
      <3> QED
        BY <1>3, <3>1, <3>2
    <2>2. CASE pc[q] = "wait" /\ pc[x] \in Inside /\ bleft[x] = bleft[q] /\ Writes(q, x)
      <3>1. /\ kvs[Key(q, x)].val = Encode(DataOf(q, x))
            /\ pc[x] = "wait" /\ Writes(x, x) /\ Key(q, x) = Key(x, x)
        BY <2>2, Published
      <3>2. kvs'[Key(x, x)] = kvs[Key(x, x)]
        BY <3>1, ReadsKept
      <3> QED
        BY <1>3, <3>1, <3>2
    <2> QED
      BY <1>3, <2>1, <2>2
  <1>4. CASE q = r
    <2>1. pc'[r] # "wait"
      <3> SUFFICES ASSUME pc'[r] = "wait" PROVE FALSE
        OBVIOUS
      <3>1. pc[r] = "sync" /\ bleft' = bleft
        BY StepExchange
      <3>2. bleft[x] = bleft[r] + 1
        BY <1>2, <1>4, <3>1
      <3>3. bentered[r] = bleft[r] + 0 /\ bleft[x] <= bentered[r]
        BY <1>1, <1>4, <3>1 DEF Inside
      <3> QED
        BY <1>1, <3>2, <3>3
    <2>2. pc[r] \in {"get", "wait"} /\ Stays(r) /\ (pc[r] = "get" => bleft' = bleft)
      BY <1>2, <1>4, <2>1, StepExchange
    <2>3. Key(r, x)' = Key(r, x) /\ DataOf(r, x)' = DataOf(r, x) /\ Writes(r, x)
      BY <1>2, <1>4, <2>2 DEF Stays
    <2>4. CASE pc[r] = "get"
      BY <1>3, <1>4, <2>3, <2>4 DEF Reads
    <2>5. CASE pc[r] = "wait"
      <3>1. bleft[x] = bleft[r] + 1 \/ (bleft[x] = bleft[r] /\ pc[x] \in Inside)
        <4>1. bentered[r] = bleft[r] + 1 /\ bleft[x] <= bentered[r]
          BY <1>1, <1>4, <2>5 DEF Inside
        <4>2. bentered[r] <= bentered[x]
          BY <1>2, <1>4, <2>1, <2>5, StepExchange
        <4>3. /\ bentered[x] = bleft[x] + (IF pc[x] \in Inside THEN 1 ELSE 0)
              /\ bleft[x] \in Int /\ bleft[r] \in Int
          BY <1>1
        <4> QED
          BY <4>1, <4>2, <4>3
      <3> QED
        BY <1>3, <1>4, <2>3, <2>5, <3>1 DEF Reads
    <2> QED
      BY <2>2, <2>4, <2>5
  <1>5. CASE q # r
    <2>1. /\ pc'[q] = pc[q] /\ bleft'[q] = bleft[q] /\ Key(q, x)' = Key(q, x) /\ DataOf(q, x)' = DataOf(q, x)
          /\ Writes(q, x)
      BY <1>2, <1>5, OthersAt, OthersData DEF Others
    <2>2. CASE pc[q] = "get" \/ bleft'[x] = bleft[x]
      BY <1>2, <1>3, <2>1, <2>2 DEF Reads
    <2>3. CASE pc[q] = "wait" /\ bleft'[x] # bleft[x]
      <3>1. x = r
        BY <2>3 DEF Others
      <3>2. pc[r] \in Inside /\ bleft'[r] = bleft[r] + 1
        BY <2>3, <3>1, StepExchange
      <3>3. bleft'[x] = bleft[q] + 1
        BY <1>2, <2>1, <2>3
      <3>4. bleft[x] = bleft[q]
        BY <1>1, <3>1, <3>2, <3>3
      <3> QED
        BY <1>3, <2>1, <2>3, <3>1, <3>2, <3>4
    <2> QED
      BY <1>2, <2>1, <2>2, <2>3
  <1> QED
    BY <1>4, <1>5

(* A step touches the buffers of its rank only.                            *)
OthersBuffers(r) ==
  \A q \in Ranks \ {r} : got'[q] = got[q] /\ ivec'[q] = ivec[q] /\ tmp'[q] = tmp[q] /\ out'[q] = out[q]

LEMMA ReceivedShape ==
  ASSUME Buffers, Types, NEW r \in Ranks
  PROVE  /\ Received(r) = [j \in Ranks |-> Received(r)[j]]
         /\ Received(r)[got[r]] = gni_pmi_receive(r, order[got[r]])
         /\ \A j \in Ranks : j # got[r] => Received(r)[j] = tmp[r][j]
  <1>1. tmp[r] = [j \in Ranks |-> tmp[r][j]]
    BY DEF Buffers
  <1>2. got[r] \in Ranks
    BY DEF Types
  <1>3. Received(r) = [j \in Ranks |-> IF j = got[r] THEN gni_pmi_receive(r, order[got[r]]) ELSE tmp[r][j]]
    BY <1>1 DEF Received
  <1> QED
    BY <1>2, <1>3

LEMMA KeepsBuffers ==
  ASSUME Buffers, Types, NEW r \in Ranks, Step(r)
  PROVE  Buffers' /\ OthersBuffers(r)
  <1>1. got \in [Ranks -> Ranks]
    BY DEF Types
  <1>2. ivec = [q \in Ranks |-> ivec[q]] /\ out = [q \in Ranks |-> out[q]]
        /\ tmp = [q \in Ranks |-> [j \in Ranks |-> tmp[q][j]]]
    BY DEF Buffers
  <1>3. CASE ivec' = ivec /\ tmp' = tmp /\ got' = got /\ \/ out' = out
                                                         \/ \E e : out' = [out EXCEPT ![r] = e]
    <2>1. out' = [q \in Ranks |-> out'[q]] /\ \A q \in Ranks \ {r} : out'[q] = out[q]
      BY <1>2, <1>3
    <2> QED
      BY <1>2, <1>3, <2>1 DEF Buffers, OthersBuffers
  <1>4. CASE GatherStep(r)
    <2>1. /\ tmp' = [tmp EXCEPT ![r] = Received(r)] /\ got' = [got EXCEPT ![r] = @ + 1]
          /\ ivec' = ivec /\ out' = out
      BY <1>4 DEF GatherStep
    <2>2. Received(r) = [j \in Ranks |-> Received(r)[j]]
      BY ReceivedShape
    <2>3. tmp' = [q \in Ranks |-> [j \in Ranks |-> tmp'[q][j]]]
      BY <1>2, <2>1, <2>2
    <2>4. \A q \in Ranks \ {r} : tmp'[q] = tmp[q] /\ got'[q] = got[q]
      BY <1>1, <1>2, <2>1
    <2> QED
      BY <1>2, <2>1, <2>3, <2>4 DEF Buffers, OthersBuffers
  <1>5. CASE GatherRanksEnd(r)
    <2>1. /\ tmp' = [tmp EXCEPT ![r] = NoData] /\ got' = [got EXCEPT ![r] = 0]
          /\ out' = out /\ \E e : ivec' = [ivec EXCEPT ![r] = e]
      BY <1>5 DEF GatherRanksEnd
    <2>2. NoData = [j \in Ranks |-> NoData[j]]
      BY DEF NoData
    <2>3. tmp' = [q \in Ranks |-> [j \in Ranks |-> tmp'[q][j]]]
      BY <1>2, <2>1, <2>2
    <2>4. \A q \in Ranks \ {r} : tmp'[q] = tmp[q] /\ got'[q] = got[q] /\ ivec'[q] = ivec[q]
      BY <1>1, <1>2, <2>1
    <2>5. ivec' = [q \in Ranks |-> ivec'[q]]
      BY <1>2, <2>1
    <2> QED
      BY <1>2, <2>1, <2>3, <2>4, <2>5 DEF Buffers, OthersBuffers
  <1>6. CASE GatherDataEnd(r)
    <2>1. /\ tmp' = [tmp EXCEPT ![r] = NoData] /\ got' = [got EXCEPT ![r] = 0]
          /\ ivec' = ivec /\ \E e : out' = [out EXCEPT ![r] = e]
      BY <1>6 DEF GatherDataEnd, Finish
    <2>2. NoData = [j \in Ranks |-> NoData[j]]
      BY DEF NoData
    <2>3. tmp' = [q \in Ranks |-> [j \in Ranks |-> tmp'[q][j]]]
      BY <1>2, <2>1, <2>2
    <2>4. \A q \in Ranks \ {r} : tmp'[q] = tmp[q] /\ got'[q] = got[q] /\ out'[q] = out[q]
      BY <1>1, <1>2, <2>1
    <2>5. out' = [q \in Ranks |-> out'[q]]
      BY <1>2, <2>1
    <2> QED
      BY <1>2, <2>1, <2>3, <2>4, <2>5 DEF Buffers, OthersBuffers
  <1>7. ~GatherStep(r) /\ ~GatherRanksEnd(r) /\ ~GatherDataEnd(r) =>
          ivec' = ivec /\ tmp' = tmp /\ got' = got /\ (out' = out \/ \E e : out' = [out EXCEPT ![r] = e])
    BY DEF Step, Call, gni_pmi_send, EnterBarrier, Booted, ctpm_Barrier, Exchanged, Synchronised,
       BcastReceive, Finish, gatherVars
  <1> QED
    BY <1>3, <1>4, <1>5, <1>6, <1>7

LEMMA OthersLocal ==
  ASSUME NEW r \in Ranks, Others(r), OthersBuffers(r), NEW q \in Ranks, q # r, LocalData(q)
  PROVE  LocalData(q)'
  <1>1. /\ pc'[q] = pc[q] /\ ip'[q] = ip[q] /\ already_called'[q] = already_called[q]
        /\ prog' = prog /\ order' = order /\ Op(q)' = Op(q)
        /\ got'[q] = got[q] /\ ivec'[q] = ivec[q] /\ tmp'[q] = tmp[q] /\ out'[q] = out[q]
    BY OthersAt DEF Others, OthersBuffers
  <1>2. \A x \in Ranks : DataOf(q, x)' = DataOf(q, x)
    BY OthersData
  <1>3. \A j \in Ranks : DataOf(q, order[j])' = DataOf(q, order[j])
    BY <1>1 DEF DataOf, Kind, Op
  <1>4. Delivered(q, ip[q] - 1, prog[ip[q]])' = Delivered(q, ip[q] - 1, prog[ip[q]])
    BY <1>1 DEF Delivered
  <1> QED
    BY <1>1, <1>3, <1>4 DEF LocalData

(* The last round of the receive loop completes the gather.                *)
LEMMA Gathered ==
  ASSUME DInv, NEW r \in Ranks, pc[r] = "get", Op(r) # "bcast"
  PROVE  /\ \A j \in Ranks : j <= got[r] => Received(r)[j] = DataOf(r, order[j])
         /\ got[r] = NRanks - 1 => \A j \in Ranks : Received(r)[j] = DataOf(r, order[j])
  <1>1. got[r] \in Ranks /\ order \in [Ranks -> Ranks] /\ Ranks = 0 .. NRanks - 1 /\ NRanks \in Nat
    BY OrdersAssumption, NRanksAssumption DEF DInv, IInv, Types, Ranks
  <1>2. Op(r) # "barrier"
    BY DEF DInv, IInv, Places, PlaceOf
  <1>3. gni_pmi_receive(r, order[got[r]]) = DataOf(r, order[got[r]])
    BY <1>1, <1>2, ReceivesData DEF DInv, Writes
  <1>4. ASSUME NEW j \in Ranks, j <= got[r] PROVE Received(r)[j] = DataOf(r, order[j])
    <2>1. CASE j = got[r]
      BY <1>3, <2>1, ReceivedShape DEF DInv, IInv
    <2>2. CASE j # got[r]
      <3>1. j < got[r]
        BY <1>1, <1>4, <2>2
      <3>2. tmp[r][j] = DataOf(r, order[j])
        BY <3>1 DEF DInv, LocalData
      <3> QED
        BY <2>2, <3>2, ReceivedShape DEF DInv, IInv
    <2> QED
      BY <2>1, <2>2
  <1>5. got[r] = NRanks - 1 => \A j \in Ranks : j <= got[r]
    BY <1>1
  <1> QED
    BY <1>4, <1>5

(* The data comes back in rank order, whatever order it arrived in.        *)
LEMMA Unpacked ==
  ASSUME DInv, NEW r \in Ranks, pc[r] = "get", Op(r) # "bcast", already_called[r], got[r] = NRanks - 1
  PROVE  Unpack(r, Received(r)) = Inputs(ip[r])
  <1>1. order \in [Ranks -> Ranks] /\ \A q \in Ranks : \E j \in Ranks : order[j] = q
    BY OrdersAssumption DEF DInv, IInv, Types
  <1>2. ivec[r] = order
    BY DEF DInv, LocalData
  <1>3. ASSUME NEW q \in Ranks
        PROVE  Received(r)[CHOOSE j \in Ranks : ivec[r][j] = q] = Input(ip[r], q)
    <2> DEFINE j == CHOOSE j \in Ranks : ivec[r][j] = q
    <2>1. j \in Ranks /\ order[j] = q
      BY <1>1, <1>2
    <2> HIDE DEF j
    <2>2. Received(r)[j] = DataOf(r, order[j])
      BY <2>1, Gathered
    <2>3. DataOf(r, q) = Input(ip[r], q)
      BY DEF DataOf
    <2> QED
      BY <2>1, <2>2, <2>3 DEF j
  <1> QED
    BY <1>3 DEF Unpack, Inputs

(* What was gathered first is who comes where.                             *)
LEMMA RanksGathered ==
  ASSUME DInv, NEW r \in Ranks, pc[r] = "get", Op(r) # "bcast", ~already_called[r], got[r] = NRanks - 1
  PROVE  [j \in Ranks |-> Number(Received(r)[j])] = order
  <1>1. order \in [Ranks -> Ranks]
    BY OrdersAssumption DEF DInv, IInv, Types
  <1>2. Kind(r) = "allg"
    BY DEF Kind
  <1>3. ASSUME NEW j \in Ranks PROVE Number(Received(r)[j]) = order[j]
    <2>1. order[j] \in Nat /\ order[j] <= 2147483647
      <3>1. order[j] \in 0 .. NRanks - 1
        BY <1>1 DEF Ranks
      <3> QED
        BY <3>1, NRanksAssumption, IntAssumption
    <2>2. Received(r)[j] = Bytes(order[j])
      BY <1>2, Gathered DEF DataOf
    <2> QED
      BY <2>1, <2>2, IntBytes
  <1> QED
    BY <1>1, <1>3

LEMMA KeepsLocal ==
  ASSUME DInv, NEW r \in Ranks, Step(r)
  PROVE  LocalData(r)'
  <1>1. /\ pc \in [Ranks -> Labels] /\ ip \in [Ranks -> Nat] /\ already_called \in [Ranks -> BOOLEAN]
        /\ got \in [Ranks -> Ranks] /\ Ranks = 0 .. NRanks - 1 /\ NRanks \in Nat
    BY NRanksAssumption DEF DInv, IInv, Types, Ranks
  <1>2. /\ ivec = [q \in Ranks |-> ivec[q]] /\ out = [q \in Ranks |-> out[q]]
        /\ tmp = [q \in Ranks |-> [j \in Ranks |-> tmp[q][j]]]
    BY DEF DInv, Buffers
  <1>3. /\ pc[r] # "get" => got[r] = 0
        /\ already_called[r] => ivec[r] = order
    BY DEF DInv, LocalData
  <1>4. pc[r] \notin Outside => Op(r) \in Ops
    BY RankFacts DEF DInv, IInv
  (* Steps that leave the buffers alone                                     *)
  <1>5. ASSUME gatherVars' = gatherVars, order' = order, pc[r] # "get",
               pc'[r] \notin {"sync2", "wait2", "idle"}
        PROVE  LocalData(r)'
    <2>1. got'[r] = 0 /\ ivec' = ivec /\ already_called' = already_called
      BY <1>3, <1>5 DEF gatherVars
    <2>2. \A j \in Ranks : ~(j < got'[r])
      BY <1>1, <2>1
    <2>3. pc'[r] = "get" => \A j \in Ranks : j < got'[r] => tmp'[r][j] = DataOf(r, order[j])'
      BY <2>2
    <2> QED
      BY <1>3, <1>5, <2>1, <2>3 DEF LocalData
  (* Steps with which a call returns, or comes to its trailing barrier      *)
  <1>6. ASSUME got'[r] = 0, ivec' = ivec, already_called' = already_called, order' = order,
               pc'[r] \in {"sync2", "wait2", "idle"},
               pc'[r] \in {"sync2", "wait2"} /\ Op(r)' = "allreduce" => out'[r] = Inputs(ip[r])',
               pc'[r] \in {"sync2", "wait2"} /\ Op(r)' = "bcast" /\ r # 0 => out'[r] = Input(ip[r], 0)',
               pc'[r] = "idle" /\ ip'[r] > 0 => Delivered(r, ip[r] - 1, prog[ip[r]])'
        PROVE  LocalData(r)'
    BY <1>3, <1>6 DEF LocalData
  <1>7. CASE Call(r)
    <2>1. gatherVars' = gatherVars /\ order' = order /\ pc[r] = "idle" /\ pc'[r] \in {"sync", "send"}
      BY <1>1, <1>7 DEF Call, Goto, jobVars
    <2> QED
      BY <1>5, <2>1
  <1>8. CASE gni_pmi_send(r)
    <2>1. gatherVars' = gatherVars /\ order' = order /\ pc[r] = "send" /\ pc'[r] = "sync"
      BY <1>1, <1>8 DEF gni_pmi_send, Goto, jobVars
    <2> QED
      BY <1>5, <2>1
  <1>9. CASE EnterBarrier(r)
    <2>1. /\ gatherVars' = gatherVars /\ order' = order /\ prog' = prog /\ ip' = ip /\ out' = out
          /\ \/ pc[r] = "boot" /\ pc'[r] = "booting"
             \/ pc[r] = "sync" /\ pc'[r] = "wait"
             \/ pc[r] = "sync2" /\ pc'[r] = "wait2"
      BY <1>1, <1>9 DEF EnterBarrier, Goto, jobVars
    <2>2. CASE pc[r] = "sync2" /\ pc'[r] = "wait2"
      <3>1. got'[r] = 0 /\ ivec' = ivec /\ already_called' = already_called
        BY <1>3, <2>1, <2>2 DEF gatherVars
      <3>2. Op(r)' = Op(r)
        BY <2>1 DEF Op
      <3>3. /\ Op(r) = "allreduce" => out[r] = Inputs(ip[r])
            /\ Op(r) = "bcast" /\ r # 0 => out[r] = Input(ip[r], 0)
        BY <2>2 DEF DInv, LocalData
      <3>4. Inputs(ip[r])' = Inputs(ip[r]) /\ Input(ip[r], 0)' = Input(ip[r], 0)
        BY <2>1 DEF Inputs, Input
      <3> QED
        BY <1>6, <2>1, <2>2, <3>1, <3>2, <3>3, <3>4
    <2>3. CASE pc'[r] # "wait2"
      BY <1>5, <2>1, <2>3
    <2> QED
      BY <2>1, <2>2, <2>3
  <1>10. CASE Booted(r)
    <2>1. /\ gatherVars' = gatherVars /\ order' = order /\ pc[r] = "booting" /\ pc'[r] = "idle" /\ ip' = ip
      BY <1>1, <1>10 DEF Booted, Goto, jobVars
    <2>2. got'[r] = 0 /\ ivec' = ivec /\ already_called' = already_called
      BY <1>3, <2>1 DEF gatherVars
    <2>3. ip'[r] = 0
      BY <2>1 DEF DInv, IInv, Places, PlaceOf
    <2> QED
      BY <1>6, <2>1, <2>2, <2>3
  <1>11. CASE ctpm_Barrier(r)
    <2>1. /\ gatherVars' = gatherVars /\ order' = order /\ pc[r] = "wait" /\ pc'[r] = "idle"
          /\ ip'[r] = ip[r] + 1 /\ prog' = prog /\ Op(r) = "barrier"
      BY <1>1, <1>11 DEF ctpm_Barrier, Finish, Goto, jobVars
    <2>2. got'[r] = 0 /\ ivec' = ivec /\ already_called' = already_called
      BY <1>3, <2>1 DEF gatherVars
    <2>3. prog'[ip'[r]] = "barrier"
      BY <2>1 DEF Op
    <2>4. Delivered(r, ip[r] - 1, prog[ip[r]])'
      BY <2>3 DEF Delivered
    <2> QED
      BY <1>6, <2>1, <2>2, <2>4
  <1>12. CASE Exchanged(r)
    <2>1. /\ gatherVars' = gatherVars /\ order' = order /\ pc[r] = "wait" /\ prog' = prog /\ ip' = ip
          /\ Op(r) # "barrier"
          /\ pc'[r] = IF Op(r) = "bcast" /\ r = 0 THEN "sync2" ELSE "get"
      BY <1>1, <1>12 DEF Exchanged, Goto, jobVars
    <2>2. CASE Op(r) = "bcast" /\ r = 0
      <3>1. got'[r] = 0 /\ ivec' = ivec /\ already_called' = already_called /\ Op(r)' = Op(r)
        BY <1>3, <2>1 DEF gatherVars, Op
      <3> QED
        BY <1>6, <2>1, <2>2, <3>1
    <2>3. CASE ~(Op(r) = "bcast" /\ r = 0)
      BY <1>5, <2>1, <2>3
    <2> QED
      BY <2>2, <2>3
  <1>13. CASE Synchronised(r)
    <2>1. /\ gatherVars' = gatherVars /\ order' = order /\ pc[r] = "wait2" /\ pc'[r] = "idle"
          /\ ip'[r] = ip[r] + 1 /\ prog' = prog
          /\ out'[r] = CASE Op(r) = "allreduce" -> Reduce(out[r])
                         [] Op(r) = "bcast" /\ r = 0 -> Input(ip[r], 0)
                         [] OTHER -> out[r]
      BY <1>1, <1>2, <1>13 DEF Synchronised, Finish, Goto, jobVars
    <2>2. got'[r] = 0 /\ ivec' = ivec /\ already_called' = already_called
      BY <1>3, <2>1 DEF gatherVars
    <2>3. prog'[ip'[r]] = Op(r) /\ ip'[r] - 1 = ip[r]
      BY <1>1, <2>1 DEF Op
    <2>4. Op(r) \in {"allreduce", "bcast"}
      BY <2>1 DEF DInv, IInv, Places, PlaceOf
    <2>5. /\ Op(r) = "allreduce" => out[r] = Inputs(ip[r])
          /\ Op(r) = "bcast" /\ r # 0 => out[r] = Input(ip[r], 0)
      BY <2>1 DEF DInv, LocalData
    <2>6. /\ Op(r) = "allreduce" => out'[r] = Reduce(Inputs(ip[r]))
          /\ Op(r) = "bcast" => out'[r] = Input(ip[r], 0)
      BY <2>1, <2>4, <2>5
    <2>7. Delivered(r, ip[r] - 1, prog[ip[r]])'
      <3>1. Reduce(Inputs(ip[r] - 1))' = Reduce(Inputs(ip[r])) /\ Input(ip[r] - 1, 0)' = Input(ip[r], 0)
        BY <2>3 DEF Reduce, Inputs, Input
      <3> QED
        BY <2>3, <2>4, <2>6, <3>1 DEF Delivered
    <2> QED
      BY <1>6, <2>1, <2>2, <2>7
  <1>14. CASE GatherStep(r)
    <2>1. /\ pc[r] = "get" /\ Op(r) # "bcast" /\ pc' = pc /\ prog' = prog /\ order' = order /\ ip' = ip
          /\ already_called' = already_called /\ ivec' = ivec
          /\ tmp'[r] = Received(r) /\ got'[r] = got[r] + 1
      BY <1>1, <1>2, <1>14 DEF GatherStep, jobVars
    <2>2. Op(r)' = Op(r) /\ \A j \in Ranks : DataOf(r, order[j])' = DataOf(r, order[j])
      BY <2>1 DEF Op, Kind, DataOf
    <2>3. \A j \in Ranks : j < got'[r] => j <= got[r]
      BY <1>1, <2>1
    <2>4. \A j \in Ranks : j < got'[r] => tmp'[r][j] = DataOf(r, order[j])'
      BY <2>1, <2>2, <2>3, Gathered
    <2> QED
      BY <1>3, <2>1, <2>2, <2>4 DEF LocalData
  <1>15. CASE GatherRanksEnd(r)
    <2>1. /\ pc[r] = "get" /\ Op(r) # "bcast" /\ ~already_called[r] /\ got[r] = NRanks - 1
          /\ pc'[r] = "send" /\ order' = order /\ got'[r] = 0
          /\ ivec'[r] = [j \in Ranks |-> Number(Received(r)[j])]
      BY <1>1, <1>2, <1>15 DEF GatherRanksEnd, Goto, jobVars
    <2>2. ivec'[r] = order
      BY <2>1, RanksGathered
    <2> QED
      BY <2>1, <2>2 DEF LocalData
  <1>16. CASE GatherDataEnd(r)
    <2>1. /\ pc[r] = "get" /\ Op(r) # "bcast" /\ already_called[r] /\ got[r] = NRanks - 1
          /\ order' = order /\ prog' = prog /\ got'[r] = 0 /\ ivec' = ivec /\ already_called' = already_called
          /\ out'[r] = Unpack(r, Received(r))
      BY <1>1, <1>2, <1>16 DEF GatherDataEnd, Finish, jobVars
    <2>2. out'[r] = Inputs(ip[r])
      BY <2>1, Unpacked
    <2>3. CASE Op(r) = "allgather"
      <3>1. pc'[r] = "idle" /\ ip'[r] = ip[r] + 1
        BY <1>1, <1>16, <2>3 DEF GatherDataEnd, Finish, Goto
      <3>2. prog'[ip'[r]] = "allgather" /\ ip'[r] - 1 = ip[r]
        BY <1>1, <2>1, <2>3, <3>1 DEF Op
      <3>3. Inputs(ip[r] - 1)' = Inputs(ip[r])
        BY <3>2 DEF Inputs, Input
      <3>4. Delivered(r, ip[r] - 1, prog[ip[r]])'
        BY <2>2, <3>2, <3>3 DEF Delivered
      <3> QED
        BY <1>6, <2>1, <3>1, <3>4
    <2>4. CASE Op(r) # "allgather"
      <3>1. pc'[r] = "sync2" /\ ip' = ip
        BY <1>1, <1>16, <2>4 DEF GatherDataEnd, Goto
      <3>2. Op(r)' = Op(r) /\ Inputs(ip[r])' = Inputs(ip[r])
        BY <2>1, <3>1 DEF Op, Inputs, Input
      <3> QED
        BY <1>6, <2>1, <2>2, <3>1, <3>2
    <2> QED
      BY <2>3, <2>4
  <1>17. CASE BcastReceive(r)
    <2>1. /\ pc[r] = "get" /\ Op(r) = "bcast" /\ prog' = prog /\ order' = order /\ ip' = ip
          /\ gatherVars' = gatherVars /\ pc'[r] = "sync2" /\ out'[r] = gni_pmi_receive(r, 0)
      BY <1>1, <1>2, <1>17 DEF BcastReceive, Goto, jobVars
    <2>2. gni_pmi_receive(r, 0) = Input(ip[r], 0)
      <3>1. Writes(r, 0) /\ Kind(r) = "bcst"
        BY <2>1 DEF Writes, Kind
      <3> QED
        BY <2>1, <3>1, ReceivesData, RankTypes DEF DInv, DataOf
    <2>3. got'[r] = 0 /\ ivec' = ivec /\ already_called' = already_called /\ Op(r)' = Op(r)
      BY <2>1 DEF DInv, LocalData, gatherVars, Op
    <2>4. Input(ip[r], 0)' = Input(ip[r], 0)
      BY <2>1 DEF Input
    <2> QED
      BY <1>6, <2>1, <2>2, <2>3, <2>4
  <1> QED
    BY <1>7, <1>8, <1>9, <1>10, <1>11, <1>12, <1>13, <1>14, <1>15, <1>16, <1>17 DEF Step

(* Every collective delivers the data of its own call on every rank,       *)
(* whatever the program, the number of ranks and the order PMI_Allgather   *)
(* delivers in: the allgather all ranks' data in rank order, the allreduce *)
(* the fold of it, the broadcast the root's.                               *)
THEOREM DataDelivered == Spec => []DataOfThisCall
  <1>1. DInv /\ [Next]_vars => DInv'
    <2> SUFFICES ASSUME DInv, [Next]_vars PROVE DInv'
      OBVIOUS
    <2>1. IInv'
      BY NextInv DEF DInv
    <2>2. ASSUME NEW r \in Ranks, Step(r) PROVE DInv'
      <3>1. Others(r)
        BY <2>2, StepCounts DEF DInv
      <3>2. Buffers' /\ OthersBuffers(r)
        BY <2>2, KeepsBuffers DEF DInv, IInv
      <3>3. SentData' /\ FoundData'
        BY <2>2, <3>1, KeepsSent, KeepsFound DEF DInv
      <3>4. ASSUME NEW q \in Ranks PROVE LocalData(q)'
        <4>1. CASE q = r
          BY <2>2, <4>1, KeepsLocal
        <4>2. CASE q # r
          BY <3>1, <3>2, <4>2, OthersLocal DEF DInv
        <4> QED
          BY <4>1, <4>2
      <3> QED
        BY <2>1, <3>2, <3>3, <3>4 DEF DInv
    <2>3. CASE UNCHANGED vars
      <3>1. /\ prog' = prog /\ order' = order /\ pc' = pc /\ ip' = ip /\ cnt' = cnt /\ kvs' = kvs
            /\ already_called' = already_called /\ ivec' = ivec /\ got' = got /\ tmp' = tmp /\ out' = out
            /\ bleft' = bleft
        BY <2>3 DEF vars, jobVars, gatherVars, barVars
      <3>2. ASSUME NEW q \in Ranks
            PROVE  /\ Op(q)' = Op(q) /\ Kind(q)' = Kind(q)
                   /\ \A x \in Ranks : /\ Key(q, x)' = Key(q, x) /\ Writes(q, x)' = Writes(q, x)
                                       /\ DataOf(q, x)' = DataOf(q, x) /\ Reads(q, x)' = Reads(q, x)
        BY <3>1 DEF Op, Kind, Key, Writes, DataOf, Reads
      <3>3. SentData' /\ FoundData' /\ Buffers'
        BY <3>1, <3>2 DEF DInv, SentData, FoundData, Buffers
      <3>4. ASSUME NEW q \in Ranks PROVE LocalData(q)'
        <4>1. \A j \in Ranks : DataOf(q, order[j])' = DataOf(q, order[j])
          BY <3>1, <3>2 DEF DataOf
        <4>2. Delivered(q, ip[q] - 1, prog[ip[q]])' = Delivered(q, ip[q] - 1, prog[ip[q]])
          BY <3>1 DEF Delivered
        <4>3. LocalData(q)
          BY DEF DInv
        <4> QED
          BY <3>1, <3>2, <4>1, <4>2, <4>3 DEF LocalData
      <3> QED
        BY <2>1, <3>3, <3>4 DEF DInv
    <2> QED
      BY <2>2, <2>3 DEF Next
  <1>2. DInv => DataOfThisCall
    <2> SUFFICES ASSUME DInv, NEW r \in Ranks, pc[r] = "idle", ip[r] > 0
                 PROVE  /\ prog[ip[r]] = "allgather" => out[r] = Inputs(ip[r] - 1)
                        /\ prog[ip[r]] = "allreduce" => out[r] = Reduce(Inputs(ip[r] - 1))
                        /\ prog[ip[r]] = "bcast" => out[r] = Input(ip[r] - 1, 0)
      BY DEF DataOfThisCall, GatherCorrect, BcastCorrect, Inputs
    <2> QED
      BY DEF DInv, LocalData, Delivered
  <1> QED
    BY <1>1, <1>2, InitData, PTL DEF Spec
=============================================================================
