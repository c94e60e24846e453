------------------------------ MODULE MCMbwMr ------------------------------
(* Model-checking instance of calc_bw: two calls, the first with two       *)
(* operations per window slot, the second with one.                        *)
EXTENDS MbwMr

MCCalls == << [type |-> "SEND_RECV", iov_cnt |-> 2], [type |-> "SENDV_RECVV", iov_cnt |-> 2] >>

(* A queue is read alike in all wait modes, and a counter that is waited   *)
(* for alike with FI_WAIT_UNSPEC and FI_WAIT_SET.                          *)
MCModes == {<<"CQ", "UNSPEC">>, <<"CNTR", "NONE">>, <<"CNTR", "SET">>}
=============================================================================
