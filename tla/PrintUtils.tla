----------------------------- MODULE PrintUtils -----------------------------
(***************************************************************************)
(* The buffered output of common/ct_print_utils.c.  Lines collect in tbuf  *)
(* and, converted to csv, in cbuf; a buffer that is full grows to twice    *)
(* its size, and where it cannot grow it is written out.  A line is the    *)
(* number of its bytes as a table row (n) and as a csv row (m).            *)
(* ct_print_data and ct_fini_info write what the buffers hold.             *)
(*                                                                         *)
(* A write may fail, MaxFails times; a write that succeeds is complete.    *)
(* __chk_write_err answers a failure with ct_fini_info and abort.  Where   *)
(* ct_fini_info itself could not write, it is thereby called again, and    *)
(* frees test_name twice: "undefined".  The next use of a buffer that its  *)
(* counter has outgrown is undefined as well, and ends the model.          *)
(***************************************************************************)
EXTENDS Integers

CONSTANTS
  InitLen, MaxLen,    \* INIT_BUF_LEN, MAX_BUF_LEN
  Lines,              \* the lines a test may add
  Paths,              \* csv_path: "null", or a file that is "missing",
                      \* "exists" or "unreadable"
  Calls,              \* the functions a test calls between init and fini
  CallLimit,          \* bound: how many such calls it makes
  MaxFails            \* bound: writes that fail

ASSUME BufferAssumption ==
  InitLen \in Nat \ {0} /\ MaxLen \in Nat /\ MaxLen >= InitLen /\ {CallLimit, MaxFails} \subseteq Nat
ASSUME LinesAssumption == \A l \in Lines : l.n \in Nat \ {0} /\ l.m \in 1 .. l.n
ASSUME CallsAssumption ==
  Paths \subseteq {"null", "missing", "exists", "unreadable"} /\ Calls \subseteq {"add", "print"}

VARIABLES
  call, calls,        \* the call in progress; calls made
  ending, fails,      \* how the program ends after ct_fini_info; failed writes
  csv_path, csv_fd,   \* csv_fd: -1, 0 (standard input) or 3 (the file)
  tbuf_sz, tbuf_cnt, tbuf,    \* tbuf: "live" or "freed"
  cbuf_sz, cbuf_cnt, cbuf,
  line, rest,         \* the line being added; its csv bytes not yet in cbuf
  added, csv_added,   \* history: bytes of the lines accepted so far
  stdout, csv_out,    \* history: bytes written to standard output, to csv_fd
  printed, csv_printed    \* history: those of them that ct_print_data wrote

tVars == <<tbuf_sz, tbuf_cnt, tbuf>>
cVars == <<cbuf_sz, cbuf_cnt, cbuf>>
prVars == <<printed, csv_printed>>
outVars == <<added, csv_added, stdout, csv_out, prVars>>
endVars == <<ending, fails>>
infoVars == <<call, calls, endVars, csv_path, csv_fd, tVars, cVars, line, rest, outVars>>

NoLine == [n |-> 0, m |-> 0]

InfoTypeOK ==
  /\ call \in {"idle", "format", "convert", "fini", "fini_csv", "done", "abort", "undefined", "null"}
  /\ ending \in {"done", "abort"} /\ fails \in 0 .. MaxFails
  /\ calls \in 0 .. CallLimit
  /\ csv_path \in Paths /\ csv_fd \in {-1, 0, 3}
  /\ {tbuf_sz, tbuf_cnt, cbuf_sz, cbuf_cnt, rest, added, csv_added, stdout, csv_out} \subseteq Nat
  /\ {tbuf_sz, cbuf_sz} \subseteq IF call \in {"fini", "fini_csv", "abort", "null"} THEN 0 .. MaxLen ELSE InitLen .. MaxLen
  /\ tbuf \in {"live", "freed"} /\ cbuf \in {"live", "freed"}
  /\ line \in Lines \cup {NoLine}

(* ct_init_info.  The structure is zeroed, and csv_fd is only set for a    *)
(* path; a file that does not exist is no error.  The first write, of the  *)
(* test's name, may fail; a file that cannot be opened gives a NULL.       *)
InfoInit ==
  /\ csv_path \in Paths
  /\ \/ /\ csv_path # "unreadable" /\ call = "idle" /\ ending = "done" /\ fails = 0
        /\ csv_fd = CASE csv_path = "null" -> 0 [] csv_path = "missing" -> -1 [] OTHER -> 3
     \/ /\ csv_path = "unreadable" /\ call = "null" /\ ending = "done" /\ fails = 0
        /\ csv_fd = -1
     \/ /\ MaxFails > 0 /\ call = "fini" /\ ending = "abort" /\ fails = 1
        /\ csv_fd = 0
  /\ calls = 0
  /\ tbuf_sz = (IF call = "idle" THEN InitLen ELSE 0) /\ tbuf_cnt = 0 /\ tbuf = "live"
  /\ cbuf_sz = tbuf_sz /\ cbuf_cnt = 0 /\ cbuf = "live"
  /\ line = NoLine /\ rest = 0
  /\ added = 0 /\ csv_added = 0 /\ stdout = 0 /\ csv_out = 0
  /\ printed = 0 /\ csv_printed = 0

(* __grow_buf.  It fails at MaxLen, and anywhere for want of memory, so    *)
(* that a buffer that could grow may be written out all the same.          *)
Grow(sz, sz_) == 2 * sz <= MaxLen /\ sz_ = 2 * sz

(* Call ct_fini_info, then leave the program this way                      *)
CallFini(how) == call' = "fini" /\ ending' = how

(* __chk_write_err after a write that failed                               *)
WriteFails ==
  /\ fails < MaxFails
  /\ fails' = fails + 1
  /\ IF call \in {"fini", "fini_csv"} THEN call' = "undefined" /\ UNCHANGED ending
                                    ELSE CallFini("abort")

-----------------------------------------------------------------------------
(* ct_add_line                                                             *)

AddLine ==
  /\ call = "idle" /\ "add" \in Calls /\ calls < CallLimit
  /\ tbuf_cnt <= tbuf_sz
  /\ line' \in Lines
  /\ calls' = calls + 1
  /\ call' = "format"
  /\ UNCHANGED <<endVars, csv_path, csv_fd, tVars, cVars, rest, outVars>>

(* The test for an exhausted tbuf: what vsnprintf would have written       *)
(* leaves no room at all (in size_t; more than the room is not 0 either)   *)
Exhausted(n) == tbuf_sz - tbuf_cnt - n = 0

GrowTbuf ==
  /\ call = "format" /\ Exhausted(line.n)
  /\ Grow(tbuf_sz, tbuf_sz')
  /\ UNCHANGED <<call, calls, endVars, csv_path, csv_fd, tbuf_cnt, tbuf, cVars, line, rest, outVars>>

FlushTbuf ==
  /\ call = "format" /\ Exhausted(line.n)
  /\ tbuf_cnt > 0
  /\ stdout' = stdout + tbuf_cnt
  /\ tbuf_cnt' = 0
  /\ UNCHANGED <<call, calls, endVars, csv_path, csv_fd, tbuf_sz, tbuf, cVars, line, rest, added, csv_added, csv_out, prVars>>

FlushTbufFails ==
  /\ call = "format" /\ Exhausted(line.n)
  /\ tbuf_cnt > 0
  /\ WriteFails
  /\ UNCHANGED <<calls, csv_path, csv_fd, tVars, cVars, line, rest, outVars>>

(* "va list too large or system out of memory"                             *)
TooLarge ==
  /\ call = "format" /\ Exhausted(line.n)
  /\ tbuf_cnt = 0
  /\ CallFini("abort")
  /\ UNCHANGED <<calls, fails, csv_path, csv_fd, tVars, cVars, line, rest, outVars>>

(* The line is in tbuf; without csv_fd that is all.  Of a line that is     *)
(* longer than the room only a part is there, but all of it is counted,    *)
(* and its conversion reads past the end of tbuf.                          *)
Formatted ==
  /\ call = "format" /\ ~Exhausted(line.n)
  /\ tbuf_cnt' = tbuf_cnt + line.n
  /\ added' = added + line.n
  /\ IF csv_fd # -1 /\ tbuf_cnt' <= tbuf_sz
       THEN call' = "convert" /\ rest' = line.m /\ csv_added' = csv_added + line.m
       ELSE /\ call' = IF csv_fd = -1 THEN "idle" ELSE "undefined"
            /\ UNCHANGED <<rest, csv_added>>
  /\ UNCHANGED <<calls, endVars, csv_path, csv_fd, tbuf_sz, tbuf, cVars, line, stdout, csv_out, prVars>>

(* Faulty variants: the loop runs one byte past the end of cbuf, or past   *)
(* the end of the line                                                     *)
FitsOneMore == IF rest <= cbuf_sz - cbuf_cnt + 1 THEN rest ELSE cbuf_sz - cbuf_cnt + 1
FitsRoom == cbuf_sz - cbuf_cnt

(* How many csv bytes the conversion loop puts into cbuf                   *)
Fits == IF rest <= cbuf_sz - cbuf_cnt THEN rest ELSE cbuf_sz - cbuf_cnt

(* The whole rest fits                                                     *)
Converted ==
  /\ call = "convert" /\ Fits = rest
  /\ cbuf_cnt' = cbuf_cnt + rest
  /\ rest' = 0
  /\ call' = "idle"
  /\ UNCHANGED <<calls, endVars, csv_path, csv_fd, tVars, cbuf_sz, cbuf, line, outVars>>

(* "Partial write": make room, then go on with the rest                    *)
GrowCbuf ==
  /\ call = "convert" /\ Fits < rest
  /\ cbuf_cnt' = cbuf_cnt + Fits
  /\ rest' = rest - Fits
  /\ Grow(cbuf_sz, cbuf_sz')
  /\ UNCHANGED <<call, calls, endVars, csv_path, csv_fd, tVars, cbuf, line, outVars>>

(* Faulty variant: the bytes that came before the full buffer are lost     *)
FlushCbufLate ==
  /\ call = "convert" /\ Fits < rest
  /\ csv_out' = csv_out + Fits
  /\ cbuf_cnt' = 0
  /\ rest' = rest - Fits
  /\ UNCHANGED <<call, calls, endVars, csv_path, csv_fd, tVars, cbuf_sz, cbuf, line, added, csv_added, stdout, prVars>>

FlushCbuf ==
  /\ call = "convert" /\ Fits < rest
  /\ csv_out' = csv_out + cbuf_cnt + Fits
  /\ cbuf_cnt' = 0
  /\ rest' = rest - Fits
  /\ UNCHANGED <<call, calls, endVars, csv_path, csv_fd, tVars, cbuf_sz, cbuf, line, added, csv_added, stdout, prVars>>

FlushCbufFails ==
  /\ call = "convert" /\ Fits < rest
  /\ cbuf_cnt' = cbuf_cnt + Fits
  /\ rest' = rest - Fits
  /\ WriteFails
  /\ UNCHANGED <<calls, csv_path, csv_fd, tVars, cbuf_sz, cbuf, line, outVars>>

-----------------------------------------------------------------------------
(* ct_print_data: both buffers are written, and stay as they are.  The     *)
(* first write may fail, or the second.                                    *)
Output(t, c) ==
  /\ stdout' = stdout + t /\ printed' = printed + t
  /\ csv_out' = csv_out + c /\ csv_printed' = csv_printed + c
CsvCnt == IF csv_fd # -1 THEN cbuf_cnt ELSE 0

PrintData ==
  /\ call = "idle" /\ "print" \in Calls /\ calls < CallLimit
  /\ tbuf_cnt <= tbuf_sz
  /\ calls' = calls + 1
  /\ \/ Output(tbuf_cnt, CsvCnt) /\ UNCHANGED <<call, endVars>>
     \/ tbuf_cnt > 0 /\ Output(0, 0) /\ WriteFails
     \/ CsvCnt > 0 /\ Output(tbuf_cnt, 0) /\ WriteFails
  /\ UNCHANGED <<csv_path, csv_fd, tVars, cVars, line, rest, added, csv_added>>

(* ct_fini_info: a buffer that holds something is written and freed.       *)
Fini ==
  /\ call = "idle" /\ tbuf_cnt <= tbuf_sz
  /\ CallFini("done")
  /\ UNCHANGED <<calls, fails, csv_path, csv_fd, tVars, cVars, line, rest, outVars>>

FiniTable ==
  /\ call = "fini"
  /\ stdout' = stdout + tbuf_cnt
  /\ tbuf' = IF tbuf_cnt > 0 THEN "freed" ELSE tbuf
  /\ call' = "fini_csv"
  /\ UNCHANGED <<calls, endVars, csv_path, csv_fd, tbuf_sz, tbuf_cnt, cVars, line, rest, added, csv_added, csv_out, prVars>>

FiniCsv ==
  /\ call = "fini_csv"
  /\ csv_out' = csv_out + cbuf_cnt
  /\ cbuf' = IF cbuf_cnt > 0 THEN "freed" ELSE cbuf
  /\ call' = ending
  /\ UNCHANGED <<calls, endVars, csv_path, csv_fd, tVars, cbuf_sz, cbuf_cnt, line, rest, added, csv_added, stdout, prVars>>

FiniFails ==
  /\ (call = "fini" /\ tbuf_cnt > 0) \/ (call = "fini_csv" /\ cbuf_cnt > 0)
  /\ WriteFails
  /\ UNCHANGED <<calls, csv_path, csv_fd, tVars, cVars, line, rest, outVars>>

AddStep ==
  \/ GrowTbuf \/ FlushTbuf \/ FlushTbufFails \/ TooLarge \/ Formatted
  \/ Converted \/ GrowCbuf \/ FlushCbuf \/ FlushCbufFails
FiniStep == FiniTable \/ FiniCsv \/ FiniFails

InfoNext == AddLine \/ AddStep \/ PrintData \/ Fini \/ FiniStep

(* One thread; a call runs to its end.                                     *)
InfoFairness == WF_infoVars(AddStep) /\ WF_infoVars(FiniStep)

InfoSpec == InfoInit /\ [][InfoNext]_infoVars /\ InfoFairness

-----------------------------------------------------------------------------
(* "tbuf_cnt: the number of valid bytes in tbuf"                           *)
TbufValid == tbuf_cnt <= tbuf_sz

(* "cbuf_cnt: the number of valid bytes in cbuf", in the middle of a line  *)
(* and after growing or writing out too                                    *)
CbufValid == cbuf_cnt <= cbuf_sz

(* Both buffers stay within their size while it is doubled, at the limit   *)
(* of MAX_BUF_LEN, and when they are written out instead.                  *)
BuffersValid == InfoTypeOK /\ TbufValid /\ CbufValid

(* What tbuf holds; vsnprintf has put a 0 behind a line that it cut off    *)
TbufBytes == IF TbufValid THEN tbuf_cnt ELSE tbuf_sz - 1

Pending(buf, cnt) == IF buf = "live" THEN cnt ELSE 0

(* No byte is lost, and none is written twice but by ct_print_data: the    *)
(* table rows are in tbuf or on standard output, and the csv rows in cbuf  *)
(* or in the file, also when a line finds a full buffer half-way.  What a  *)
(* failed write left in a buffer, ct_fini_info writes before the abort.    *)
EachByteOnce ==
  /\ stdout - printed + Pending(tbuf, TbufBytes) = added
  /\ csv_out - csv_printed + Pending(cbuf, cbuf_cnt) + rest = csv_added
  /\ call \in {"done", "abort"} => Pending(tbuf, tbuf_cnt) = 0 /\ Pending(cbuf, cbuf_cnt) = 0

(* Every call of ct_add_line ends: the line is accepted, or the program    *)
(* ends, after a failed write too.                                         *)
AddEnds == call \in {"format", "convert"} ~> call \in {"idle", "abort", "undefined"}
=============================================================================
