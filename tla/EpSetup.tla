------------------------------ MODULE EpSetup ------------------------------
(***************************************************************************)
(* How the multi-node programs open what they need before their test, and  *)
(* close it after: init_fabric, init_endpoint, alloc_ep_res, bind_ep_res,  *)
(* init_av, memory registration, credentials, and all their error paths.   *)
(*                                                                         *)
(* A program is a sequence of parts, a part a sequence of steps.  A step   *)
(* that may fail closes what its error path closes (the labels it jumps to *)
(* and those of its callers), and then its part decides how main goes on:  *)
(* it leaves main, it ignores the error and goes on with the next part, or *)
(* an assertion aborts the process.  Ranks meet in collectives, which, as  *)
(* in PmiColl, find each other by counting alone: after a failure a rank   *)
(* may meet the others in another collective than they think.              *)
(***************************************************************************)
EXTENDS Integers, Sequences, FiniteSets, FiniteSetsExt, SequencesExt, Functions

CONSTANTS
  Programs,       \* the programs that are run
  num_ranks,      \* rdm_one_sided and rdm_pingpong require two
  Threads,        \* tunables.threads
  MaxFailures     \* bound: calls that fail, over all ranks

AllPrograms ==
  {"rdm_one_sided", "rdm_pingpong", "rdm_mbw_mr", "rdm_mbw_mr_cntr",
   "random_access", "random_access_drc", "auth_key_test"}

ASSUME ProgramsAssumption == Programs \subseteq AllPrograms
ASSUME SizesAssumption == num_ranks \in Nat \ {0} /\ Threads \in Nat \ {0} /\ MaxFailures \in Nat

Ranks == 0 .. num_ranks - 1

-----------------------------------------------------------------------------
(* Steps: what a step uses must be open, or the process has undefined      *)
(* behaviour; drop is what it closes, a call only if it fails.             *)

Call(name, use, make, undo) ==
  [kind |-> "call", name |-> name, use |-> use, make |-> make, drop |-> undo]
Do(name, use, make, drop) ==
  [kind |-> "step", name |-> name, use |-> use, make |-> make, drop |-> drop]
Barrier == [kind |-> "barrier", name |-> "ctpm_Barrier", use |-> {}, make |-> {}, drop |-> <<>>]
Gather(name, use, make) ==
  [kind |-> "gather", name |-> name, use |-> use, make |-> make, drop |-> <<>>]
Close(h) == Do("fi_close", {h}, {}, <<h>>)
CloseIfSet(h) == Do("fi_close if set", {}, {}, <<h>>)

(* The labels of callers: steps whose error paths end by closing more      *)
Unwinding(steps, more) ==
  [k \in DOMAIN steps |->
     IF steps[k].kind = "call" THEN [steps[k] EXCEPT !.drop = @ \o more] ELSE steps[k]]

Part(on_error, steps) == [on_error |-> on_error, steps |-> steps]

(* Handles are named by their variables; those of a thread, or of a peer's *)
(* endpoint, are numbered.                                                 *)
fab == <<"fab", 0>>
dom == <<"dom", 0>>
av == <<"av", 0>>
waitset == <<"waitset", 0>>
scntr == <<"scntr", 0>>
rcntr == <<"rcntr", 0>>
addrs == <<"fi_addrs", 0>>
ep(t) == <<"ep", t>>
scq(t) == <<"scq", t>>
rcq(t) == <<"rcq", t>>
tav(t) == <<"av", t>>
taddrs(t) == <<"fi_addrs", t>>
s_buf(t) == <<"s_buf", t>>
l_mr(t) == <<"l_mr", t>>
r_mr(t) == <<"r_mr", t>>
descs(t) == <<"rbuf_descs", t>>
table_mr == <<"l_table_mr", 0>>
lock_mr == <<"l_lock_mr", 0>>
scratch_mr == <<"l_scratch_mr", 0>>
auth_mr == <<"l_auth_key_mr", 0>>

Fabric ==
  << Call("fi_getinfo", {}, {}, <<>>),
     Call("fi_fabric", {}, {fab}, <<>>),
     Call("fi_domain", {fab}, {dom}, <<fab>>) >>

(* init_av                                                                 *)
InitAv(label, endp, vector, dest) ==
  << Call("fi_getname", {endp}, {}, <<>>),
     Gather(label, {}, {}),
     Call("fi_av_insert", {vector}, {dest}, <<>>) >>

-----------------------------------------------------------------------------
(* rdm_one_sided and rdm_pingpong: an endpoint for each thread             *)

(* init_endpoint.  Its last label closes the domain, which is not its own. *)
ThreadEndpoint(t) ==
  Unwinding(
    << Call("fi_endpoint", {dom}, {ep(t)}, <<>>),
       Call("fi_cq_open", {dom}, {scq(t)}, <<ep(t)>>),
       Call("fi_cq_open", {dom}, {rcq(t)}, <<scq(t), ep(t)>>),
       Call("fi_av_open", {dom}, {tav(t)}, <<rcq(t), scq(t), ep(t)>>),
       Call("fi_ep_bind", {ep(t), scq(t), rcq(t), tav(t)}, {}, <<tav(t), rcq(t), scq(t), ep(t)>>) >>,
    <<dom>>)

Buffers(t) == Do("align buffers", {}, {s_buf(t)}, <<>>)
OneSidedBuffers(t) ==
  << Buffers(t),
     Call("fi_mr_reg r_buf", {dom}, {r_mr(t)}, <<>>),
     Gather("desc", {}, {descs(t)}),
     Call("fi_mr_reg s_buf", {dom}, {l_mr(t)}, <<>>) >>

(* main ignores the result of init_per_thread_data                         *)
InitThread(p, t) ==
  Part("next",
    ThreadEndpoint(t) \o InitAv("name", ep(t), tav(t), taddrs(t))
      \o IF p = "rdm_one_sided" THEN OneSidedBuffers(t) ELSE << Buffers(t) >>)

(* fini_per_thread_data                                                    *)
FiniThread(t) ==
  << CloseIfSet(l_mr(t)), CloseIfSet(r_mr(t)), Close(tav(t)), Close(rcq(t)), Close(scq(t)), Close(ep(t)) >>

(* What a thread's endpoint consists of; without l_mr, rank 0 of           *)
(* rdm_one_sided dereferences NULL.                                        *)
ThreadNeeds(p, r, t) ==
  {ep(t), scq(t), rcq(t), taddrs(t)}
    \cup (IF p = "rdm_one_sided" /\ r = 0 THEN {l_mr(t), descs(t)} ELSE {})

ThreadTest(p, r) ==
  LET over(f(_)) == FlattenSeq([t \in 1 .. Threads |-> f(t)])
      touch(t) == << Do("touch", {s_buf(t)}, {}, <<>>) >>
      final == IF p = "rdm_pingpong" THEN << Barrier >> ELSE <<>>
  IN  Part("abort",
        over(touch)
          \o << Barrier, Do("test", UNION {ThreadNeeds(p, r, t) : t \in 1 .. Threads}, {}, <<>>), Barrier >>
          \o final \o over(FiniThread) \o << Close(dom), Close(fab), Barrier >>)

ThreadProgram(p, r) ==
  << Part("leave", Fabric) >> \o [t \in 1 .. Threads |-> InitThread(p, t)] \o << ThreadTest(p, r) >>

-----------------------------------------------------------------------------
(* rdm_mbw_mr: one endpoint, with queues or with counters                  *)

(* alloc_ep_res.  The labels are those of the queues in either case.       *)
AllocCq ==
  << Call("fi_wait_open", {fab}, {waitset}, <<>>),
     Call("fi_cq_open", {dom}, {scq(0)}, <<>>),
     Call("fi_cq_open", {dom}, {rcq(0)}, <<scq(0)>>),
     Call("fi_av_open", {dom}, {av}, <<rcq(0), scq(0)>>) >>
AllocCntr ==
  << Call("fi_wait_open", {fab}, {waitset}, <<>>),
     Call("fi_cntr_open", {dom}, {scntr}, <<>>),
     Call("fi_cntr_open 2", {dom}, {rcntr}, <<scq(0)>>),
     Call("fi_av_open", {dom}, {av}, <<rcq(0), scq(0)>>) >>

MbwComps(p) == IF p = "rdm_mbw_mr" THEN <<rcq(0), scq(0)>> ELSE <<rcntr, scntr>>

MbwFabric(p) ==
  Fabric
    \o << Call("fi_endpoint", {dom}, {ep(0)}, <<dom, fab>>) >>
    \o Unwinding(
         (IF p = "rdm_mbw_mr" THEN AllocCq ELSE AllocCntr)
           \o << Call("fi_ep_bind", {ep(0), av} \cup ToSet(MbwComps(p)), {}, <<av>> \o MbwComps(p)) >>,
         <<ep(0), dom, fab>>)

(* Faulty variant: main goes on after an error of init_fabric or init_av   *)
MbwProgramGoesOn(p) ==
  << Part("next", MbwFabric(p) \o InitAv("name", ep(0), av, addrs)),
     Part("abort",
       << Barrier, Do("test", {ep(0), addrs} \cup ToSet(MbwComps(p)), {}, <<>>), Barrier, Close(av) >>
         \o [k \in 1 .. 2 |-> Close(MbwComps(p)[k])]
         \o << Close(ep(0)), Close(dom), Close(fab), Barrier >>) >>

MbwProgram(p) ==
  << Part("leave", MbwFabric(p)),
     Part("leave", InitAv("name", ep(0), av, addrs)),
     Part("abort",
       << Barrier, Do("test", {ep(0), addrs} \cup ToSet(MbwComps(p)), {}, <<>>), Barrier, Close(av) >>
         \o [k \in 1 .. 2 |-> Close(MbwComps(p)[k])]
         \o << Close(ep(0)), Close(dom), Close(fab), Barrier >>) >>

-----------------------------------------------------------------------------
(* random_access and auth_key_test: an endpoint for each peer              *)

PeerEndpoint(q) ==
  << Call("fi_endpoint", {dom}, {ep(q)}, <<>>),
     Call("fi_cq_open", {dom}, {scq(q)}, <<ep(q)>>),
     Call("fi_cq_open", {dom}, {rcq(q)}, <<scq(q), ep(q)>>),
     Call("fi_ep_bind", {ep(q), scq(q), rcq(q), av}, {}, <<rcq(q), scq(q), ep(q)>>) >>
PeerEndpoints == FlattenSeq([q \in 1 .. num_ranks |-> PeerEndpoint(q - 1)])

(* init_gnix_prov, whose result main ignores                               *)
InitProv ==
  Part("next",
    Fabric \o << Call("fi_av_open", {dom}, {av}, <<>>) >>
      \o PeerEndpoints \o InitAv("name", ep(0), av, addrs))

(* fini_gnix_prov                                                          *)
FiniPeer(q) == << Close(rcq(q)), Close(scq(q)), Close(ep(q)) >>
FiniProv ==
  FlattenSeq([q \in 1 .. num_ranks |-> FiniPeer(q - 1)])
    \o << CloseIfSet(av), CloseIfSet(dom), CloseIfSet(fab) >>

(* ct_allreduce_int_sum of the failed allocations, between barriers        *)
Allocated == << Barrier, Gather("abort", {}, {}), Barrier, Barrier >>

AccessTest ==
  << Barrier >> \o Allocated
    \o << Call("fi_mr_reg table", {dom}, {table_mr}, <<>>),
          Call("fi_mr_reg lock", {dom}, {lock_mr}, <<>>),
          Call("fi_mr_reg scratch", {dom}, {scratch_mr}, <<>>),
          Barrier, Gather("table_key", {}, {}), Barrier, Gather("lock_key", {}, {}), Barrier,
          Gather("table_addr", {}, {}), Barrier, Barrier, Gather("lock_addr", {}, {}), Barrier,
          Do("test", {scratch_mr} \cup UNION {{ep(q), scq(q)} : q \in Ranks}, {}, <<>>),
          Close(lock_mr), Close(table_mr), Close(scratch_mr), Barrier, Barrier >>

(* There is no test but the exchange itself.                               *)
AuthTest ==
  << Barrier >> \o Allocated
    \o << Call("fi_mr_regattr table", {dom}, {table_mr}, <<>>),
          Call("fi_mr_regattr auth", {dom}, {auth_mr}, <<>>),
          Barrier, Gather("table_key", {}, {}), Barrier, Gather("table_addr", {}, {}),
          Barrier, Barrier, Barrier,
          Do("test", {table_mr, auth_mr}, {}, <<>>),
          Close(table_mr), Close(auth_mr), Barrier, Barrier >>

(* Faulty variant: the head does not wait in the broadcast                 *)
BcastAlone(r) == IF r = 0 THEN << Barrier >> ELSE << Barrier, Barrier >>

(* ctpm_Bcast: an exchange barrier, and one at the end                     *)
Bcast(r) == << Barrier, Barrier >>

(* setup_authorization_key, and the same in main of auth_key_test          *)
Acquire(r) == IF r = 0 THEN << Call("drc_acquire", {}, {}, <<>>) >> ELSE <<>>
Access == << Call("drc_access", {}, {}, <<>>) >>
Release == << Do("drc_release", {}, {}, <<>>) >>

(* Every rank calls teardown_authorization_key                             *)
AccessProgram(p, r) ==
  LET drc == p = "random_access_drc"
  IN  (IF drc THEN << Part("abort", Acquire(r) \o Bcast(r) \o Access) >> ELSE <<>>)
        \o << InitProv,
              Part("abort", AccessTest \o FiniProv \o (IF drc THEN Release ELSE <<>>) \o << Barrier >>) >>

(* Faulty variant: the head releases the credential before the barrier     *)
AuthProgramEarly(r) ==
  << Part("leave", Acquire(r) \o Bcast(r) \o Access \o (IF r = 0 THEN Release ELSE <<>>)),
     InitProv,
     Part("abort", AuthTest \o FiniProv \o << Barrier >>) >>

(* Only the head releases, after its own fini_gnix_prov.                   *)
AuthProgram(r) ==
  << Part("leave", Acquire(r) \o Bcast(r) \o Access),
     InitProv,
     Part("abort", AuthTest \o FiniProv \o (IF r = 0 THEN Release ELSE <<>>) \o << Barrier >>) >>

Code ==
  [p \in AllPrograms |-> [r \in Ranks |->
     CASE p \in {"rdm_one_sided", "rdm_pingpong"} -> ThreadProgram(p, r)
       [] p \in {"rdm_mbw_mr", "rdm_mbw_mr_cntr"} -> MbwProgram(p)
       [] p \in {"random_access", "random_access_drc"} -> AccessProgram(p, r)
       [] p = "auth_key_test" -> AuthProgram(r)]]

-----------------------------------------------------------------------------
VARIABLES
  prog,       \* the program the job runs
  at, in,     \* a rank's part and step; whether it is inside a collective
  status,     \* "run", or how the rank ended
  open,       \* the handles of a rank that are open
  calls,      \* PMI_Barriers it has entered
  sent,       \* the labels of what it has put, one for each allgather
  mixed,      \* it has read data of another allgather than its own
  cred,       \* the DRC credential of the job: "none", "held" or "released"
  failed      \* history: the names of the calls that failed

progress == <<at, in, status>>
meetings == <<calls, sent, mixed>>
vars == <<prog, progress, open, meetings, cred, failed>>

Failures == SumFunctionOnSet([r \in Ranks |-> Len(failed[r])], Ranks)

TypeOK ==
  /\ prog \in Programs
  /\ \A r \in Ranks :
       /\ status[r] \in {"run", "done", "left", "aborted", "misuse", "bad close"}
       /\ status[r] = "run" => /\ at[r][1] \in DOMAIN Code[prog][r]
                               /\ at[r][2] \in DOMAIN Code[prog][r][at[r][1]].steps
       /\ calls[r] \in Nat
  /\ in \in [Ranks -> BOOLEAN] /\ mixed \in [Ranks -> BOOLEAN]
  /\ cred \in {"none", "held", "released"}
  /\ Failures \in 0 .. MaxFailures

Init ==
  /\ prog \in Programs
  /\ at = [r \in Ranks |-> <<1, 1>>]
  /\ in = [r \in Ranks |-> FALSE] /\ mixed = in
  /\ status = [r \in Ranks |-> "run"]
  /\ open = [r \in Ranks |-> {}]
  /\ calls = [r \in Ranks |-> 0]
  /\ sent = [r \in Ranks |-> <<>>] /\ failed = sent
  /\ cred = "none"

ThePart(r) == Code[prog][r][at[r][1]]
TheStep(r) == ThePart(r).steps[at[r][2]]
Kind(r, kind) == status[r] = "run" /\ TheStep(r).kind = kind

Ends(r, how) == status' = [status EXCEPT ![r] = how] /\ UNCHANGED at
NextPart(r) ==
  IF at[r][1] = Len(Code[prog][r])
    THEN Ends(r, "done")
    ELSE at' = [at EXCEPT ![r] = <<@[1] + 1, 1>>] /\ UNCHANGED status
NextStep(r) ==
  IF at[r][2] = Len(ThePart(r).steps)
    THEN NextPart(r)
    ELSE at' = [at EXCEPT ![r][2] = @ + 1] /\ UNCHANGED status

(* A NULL or closed handle is dereferenced                                 *)
Misuse(r) ==
  /\ Kind(r, "call") \/ Kind(r, "step")
  /\ ~(TheStep(r).use \subseteq open[r])
  /\ Ends(r, "misuse")
  /\ UNCHANGED <<prog, in, open, meetings, cred, failed>>

(* Credentials are the job's: acquired and released once, for all ranks.   *)
Accessible(r) == TheStep(r).name = "drc_access" => cred = "held"

Succeed(r) ==
  /\ Kind(r, "call") /\ TheStep(r).use \subseteq open[r]
  /\ Accessible(r)
  /\ open' = [open EXCEPT ![r] = @ \cup TheStep(r).make]
  /\ cred' = IF TheStep(r).name = "drc_acquire" THEN "held" ELSE cred
  /\ NextStep(r)
  /\ UNCHANGED <<prog, in, meetings, failed>>

(* The error path, which goes wrong if it closes what is not open.  In     *)
(* auth_key_test the head, and it alone, releases a credential that it     *)
(* cannot access.                                                          *)
Fail(r) ==
  LET drop == TheStep(r).drop
  IN  /\ Kind(r, "call") /\ TheStep(r).use \subseteq open[r]
      /\ IF Accessible(r)
           THEN Failures < MaxFailures /\ failed' = [failed EXCEPT ![r] = Append(@, TheStep(r).name)]
           ELSE UNCHANGED failed
      /\ open' = [open EXCEPT ![r] = @ \ ToSet(drop)]
      /\ cred' = IF TheStep(r).name = "drc_access" /\ prog = "auth_key_test" /\ r = 0
                   THEN "released" ELSE cred
      /\ IF ~(ToSet(drop) \subseteq open[r] /\ IsInjective(drop)) THEN Ends(r, "bad close")
         ELSE CASE ThePart(r).on_error = "leave" -> Ends(r, "left")
                [] ThePart(r).on_error = "abort" -> Ends(r, "aborted")
                [] ThePart(r).on_error = "next" -> NextPart(r)
      /\ UNCHANGED <<prog, in, meetings>>

(* Steps that cannot fail                                                  *)
Go(r) ==
  /\ Kind(r, "step") /\ TheStep(r).use \subseteq open[r]
  /\ open' = [open EXCEPT ![r] = (@ \cup TheStep(r).make) \ ToSet(TheStep(r).drop)]
  /\ cred' = IF TheStep(r).name = "drc_release" THEN "released" ELSE cred
  /\ NextStep(r)
  /\ UNCHANGED <<prog, in, meetings, failed>>

(* The first ctpm_Allgather of a rank gathers the ranks before the data.   *)
Label(r) == IF sent[r] = <<>> THEN "ranks" ELSE TheStep(r).name

Enter(r) ==
  /\ Kind(r, "barrier") \/ Kind(r, "gather")
  /\ ~in[r]
  /\ in' = [in EXCEPT ![r] = TRUE]
  /\ calls' = [calls EXCEPT ![r] = @ + 1]
  /\ sent' = IF Kind(r, "gather") THEN [sent EXCEPT ![r] = Append(@, Label(r))] ELSE sent
  /\ UNCHANGED <<prog, at, status, open, mixed, cred, failed>>

LeaveBarrier(r) ==
  /\ Kind(r, "barrier") /\ in[r]
  /\ \A q \in Ranks : calls[q] >= calls[r]
  /\ in' = [in EXCEPT ![r] = FALSE]
  /\ NextStep(r)
  /\ UNCHANGED <<prog, open, meetings, cred, failed>>

(* Faulty variant: what is not there is not noticed (the assertions of     *)
(* gni_pmi_receive are compiled out)                                       *)
LeaveGatherUnchecked(r) ==
  LET n == Len(sent[r])
  IN  /\ Kind(r, "gather") /\ in[r]
      /\ \A q \in Ranks : calls[q] >= calls[r]
      /\ in' = [in EXCEPT ![r] = FALSE]
      /\ mixed' = [mixed EXCEPT ![r] = @ \/ \E q \in Ranks : Len(sent[q]) < n \/ sent[q][n] # sent[r][n]]
      /\ open' = [open EXCEPT ![r] = @ \cup TheStep(r).make]
      /\ IF n = 1 THEN UNCHANGED <<at, status>> ELSE NextStep(r)
      /\ UNCHANGED <<prog, calls, sent, cred, failed>>

(* The n-th gather of a rank reads what the others put for their n-th one: *)
(* an assertion fails if that is not there yet.                            *)
LeaveGather(r) ==
  LET n == Len(sent[r])
  IN  /\ Kind(r, "gather") /\ in[r]
      /\ \A q \in Ranks : calls[q] >= calls[r]
      /\ in' = [in EXCEPT ![r] = FALSE]
      /\ IF \E q \in Ranks : Len(sent[q]) < n THEN Ends(r, "aborted") /\ UNCHANGED <<open, mixed>>
         ELSE /\ mixed' = [mixed EXCEPT ![r] = @ \/ \E q \in Ranks : sent[q][n] # sent[r][n]]
              /\ open' = [open EXCEPT ![r] = @ \cup TheStep(r).make]
              /\ IF n = 1 THEN UNCHANGED <<at, status>> ELSE NextStep(r)
      /\ UNCHANGED <<prog, calls, sent, cred, failed>>

RankStep(r) ==
  \/ Misuse(r) \/ Succeed(r) \/ Fail(r) \/ Go(r)
  \/ Enter(r) \/ LeaveBarrier(r) \/ LeaveGather(r)

Next == \E r \in Ranks : RankStep(r)

(* A rank that can go on does.                                             *)
Fairness == \A r \in Ranks : WF_vars(RankStep(r))

Spec == Init /\ [][Next]_vars /\ Fairness
-----------------------------------------------------------------------------
AtTest(r) == status[r] = "run" /\ TheStep(r).name = "test"

(* The two failures that no other rank notices: addresses that could not   *)
(* be inserted (random_access ignores it), and the local buffer of a       *)
(* thread of rdm_one_sided, registered after the keys are exchanged.       *)
Unnoticed == {"fi_av_insert", "fi_mr_reg s_buf"}

(* A rank whose own set-up went well begins the test only with all it      *)
(* needs, and with its peers' data in the place where it belongs.  If the  *)
(* set-up of another rank failed, this rank does not measure at all: it    *)
(* waits, or an assertion stops it, but for the two unnoticed failures.    *)
StartsReady ==
  /\ TypeOK
  /\ \A r \in Ranks :
       AtTest(r) /\ failed[r] = <<>> =>
         /\ TheStep(r).use \subseteq open[r]
         /\ ~mixed[r]
         /\ \A q \in Ranks : ToSet(failed[q]) \subseteq Unnoticed

(* Handles that are never closed, and plain memory                         *)
NeverClosed == {"waitset", "fi_addrs", "s_buf", "rbuf_descs"}
AllClosed(r) == \A h \in open[r] : h[1] \in NeverClosed

(* Error paths close what is open, each handle once: only those of         *)
(* alloc_ep_res of rdm_mbw_mr go wrong with counters, where they close the *)
(* queues that were never opened.  Programs that stop at an error never    *)
(* use a handle that is not open; those that ignore errors do so only on a *)
(* rank where a call has failed.                                           *)
BadCloses ==
  \A r \in Ranks : status[r] = "bad close" =>
    prog = "rdm_mbw_mr_cntr" /\ Last(failed[r]) \in {"fi_cntr_open 2", "fi_av_open"}
Misuses ==
  \A r \in Ranks : status[r] = "misuse" =>
    failed[r] # <<>> /\ prog \notin {"rdm_mbw_mr", "rdm_mbw_mr_cntr"}

(* Nothing stays open after the end of main, or after an error of the      *)
(* first part, but the wait set of rdm_mbw_mr.                             *)
ErrorPathsClean ==
  /\ BadCloses /\ Misuses
  /\ \A r \in Ranks : status[r] = "done" => AllClosed(r)
  /\ \A r \in Ranks : status[r] = "left" /\ at[r][1] = 1 => AllClosed(r)

(* auth_key_test: the credential is released only once no rank has memory  *)
(* registered with it any more, although it is the head alone that         *)
(* releases it, and does not ask the others.                               *)
CredentialOutlivesUse == \A r \in Ranks : auth_mr \in open[r] => cred = "held"

(* Without a failed call every program gets through its collectives to the *)
(* end, on all ranks.                                                      *)
Completes == <>(Failures > 0 \/ \A r \in Ranks : status[r] = "done")
=============================================================================
