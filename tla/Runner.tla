------------------------------- MODULE Runner -------------------------------
(***************************************************************************)
(* scripts/run_cray_tests.py: the tests of its list are started in order,  *)
(* at most max_jobs at a time, and a batch is awaited before the next one  *)
(* is started.  Without a launcher the script polls the standard output of *)
(* its processes and looks at their deadlines itself; with aprun or srun   *)
(* it reads one process after the other to its end, and the launcher kills *)
(* a job that has used up its time.                                        *)
(***************************************************************************)
EXTENDS Integers, Sequences, FiniteSets, SequencesExt

CONSTANTS
  NumTests,       \* len(ctlist)
  max_jobs,       \* option -j
  Timeouts,       \* seconds that a test may be given
  MaxOutput,      \* bound: pieces of output of a test
  PipeSize        \* pieces that a pipe holds before its writer blocks

ASSUME RunnerAssumption ==
  /\ NumTests \in Nat \ {0} /\ max_jobs \in Nat \ {0}
  /\ Timeouts \subseteq Nat /\ MaxOutput \in Nat /\ PipeSize \in Nat \ {0}

TestNumbers == 1 .. NumTests

VARIABLES
  launcher,       \* "None" or "aprun" (srun is alike)
  stage,          \* "start", "now", "select", "scan", "communicate", "report", "end" or "crash"
  next,           \* the test of ctlist whose turn it is
  plist,          \* the tests of the batch
  state,          \* processes: "none", "failed" to start, "running" or "exited"
  remaining,      \* seconds to their end_time
  code,           \* their exit status: -1 while they run, 9 if killed by the launcher
  written, pipe,  \* pieces they have written, and those still to be read
  closed,         \* the tests whose output has been closed
  done, retvals, buffers,
  overdue, ready, \* the tests whose end_time <= now; ready_set
  k,              \* the process looked at by a loop over plist
  reports,        \* what has been printed: <<test, status, pieces of output>>
  failed_tests

script == <<stage, next, plist>>
procs == <<state, remaining, code, written, pipe, closed>>
results == <<done, retvals, buffers>>
polling == <<overdue, ready, k>>
outcome == <<reports, failed_tests>>
scriptVars == <<launcher, script, procs, results, polling, outcome>>

SIGALRM == 14
Started == {t \in TestNumbers : state[t] \in {"running", "exited"}}

ScriptTypeOK ==
  /\ launcher \in {"None", "aprun"} /\ next \in 1 .. NumTests + 1
  /\ stage \in {"start", "now", "select", "scan", "communicate", "report", "end", "crash"}
  /\ plist \in Seq(Started) /\ k \in 1 .. Len(plist) + 1
  /\ state \in [TestNumbers -> {"none", "failed", "running", "exited"}]
  /\ remaining \in [TestNumbers -> Nat] /\ code \in [TestNumbers -> {-1, 0, 1, 9}]
  /\ written \in [TestNumbers -> 0 .. MaxOutput] /\ pipe \in [TestNumbers -> 0 .. PipeSize]
  /\ closed \subseteq Started
  /\ done \in [TestNumbers -> BOOLEAN] /\ retvals \in [TestNumbers -> {-SIGALRM, 0, 1, 9}]
  /\ buffers \in [TestNumbers -> 0 .. MaxOutput]
  /\ overdue \subseteq TestNumbers /\ ready \subseteq TestNumbers /\ failed_tests \subseteq TestNumbers

ScriptInit ==
  /\ launcher \in {"None", "aprun"}
  /\ stage = "start" /\ next = 1 /\ plist = <<>>
  /\ state = [t \in TestNumbers |-> "none"] /\ code = [t \in TestNumbers |-> -1]
  /\ remaining = [t \in TestNumbers |-> 0] /\ written = remaining /\ pipe = remaining /\ buffers = remaining
  /\ done = [t \in TestNumbers |-> FALSE] /\ retvals = [t \in TestNumbers |-> -SIGALRM]
  /\ closed = {} /\ overdue = {} /\ ready = {} /\ k = 1
  /\ reports = <<>> /\ failed_tests = {}

-----------------------------------------------------------------------------
(* The processes                                                           *)

Write(t) ==
  /\ state[t] = "running" /\ t \notin closed
  /\ written[t] < MaxOutput /\ pipe[t] < PipeSize
  /\ written' = [written EXCEPT ![t] = @ + 1]
  /\ pipe' = [pipe EXCEPT ![t] = @ + 1]
  /\ UNCHANGED <<launcher, script, state, remaining, code, closed, results, polling, outcome>>

(* A test need not exit when it closes its standard output and error.      *)
CloseOutput(t) ==
  /\ state[t] = "running" /\ t \notin closed
  /\ closed' = closed \cup {t}
  /\ UNCHANGED <<launcher, script, state, remaining, code, written, pipe, results, polling, outcome>>

Exit(t, status) ==
  /\ state[t] = "running"
  /\ state' = [state EXCEPT ![t] = "exited"] /\ code' = [code EXCEPT ![t] = status]
  /\ closed' = closed \cup {t}
  /\ UNCHANGED <<launcher, script, remaining, written, pipe, results, polling, outcome>>

LauncherKills(t) == launcher = "aprun" /\ remaining[t] = 0 /\ Exit(t, 9)

Tick ==
  /\ \E t \in Started : remaining[t] > 0
  /\ remaining' = [t \in TestNumbers |-> IF remaining[t] > 0 THEN remaining[t] - 1 ELSE 0]
  /\ UNCHANGED <<launcher, script, state, code, written, pipe, closed, results, polling, outcome>>

-----------------------------------------------------------------------------
(* The loop of _main over ctlist, and start                                *)

(* Faulty variant: the end of the list does not end a batch                *)
BatchIsFull(jobs) == Len(jobs) = max_jobs
BatchIsComplete(jobs) == Len(jobs) = max_jobs \/ next = NumTests

StartFails ==
  /\ stage = "start" /\ next <= NumTests
  /\ state' = [state EXCEPT ![next] = "failed"]
  /\ next' = next + 1
  /\ UNCHANGED <<launcher, stage, plist, remaining, code, written, pipe, closed, results, polling, outcome>>

Start(timeout) ==
  LET jobs == Append(plist, next)
  IN  /\ stage = "start" /\ next <= NumTests
      /\ state' = [state EXCEPT ![next] = "running"]
      /\ remaining' = [remaining EXCEPT ![next] = timeout]
      /\ plist' = jobs /\ next' = next + 1
      /\ k' = 1
      /\ done' = [done EXCEPT ![next] = launcher # "None"]
      /\ stage' = IF BatchIsComplete(jobs) THEN "now" ELSE "start"
      /\ UNCHANGED <<launcher, code, written, pipe, closed, retvals, buffers, overdue, ready, outcome>>

-----------------------------------------------------------------------------
(* waitall                                                                 *)

Batch == ToSet(plist)

(* The head of the polling loop                                            *)
Now ==
  /\ stage = "now"
  /\ IF \A t \in Batch : done[t]
       THEN stage' = "communicate" /\ UNCHANGED overdue
       ELSE stage' = "select" /\ overdue' = {t \in Batch : remaining[t] = 0}
  /\ k' = 1
  /\ UNCHANGED <<launcher, next, plist, procs, results, ready, outcome>>

(* Readable: data, or end of file, also of what has been read to its end   *)
Readable == {t \in Batch : pipe[t] > 0 \/ t \in closed}

(* It returns when a stream is readable, or at the latest end_time.        *)
Select ==
  /\ stage = "select"
  /\ Readable # {} \/ \A t \in Batch : remaining[t] = 0
  /\ ready' = Readable
  /\ stage' = "scan"
  /\ UNCHANGED <<launcher, next, plist, procs, results, overdue, k, outcome>>

(* Faulty variant: deadlines are not looked at                             *)
NeverTimedOut(t) == FALSE
TimedOut(t) == t \in overdue

(* One round of the loop over the streams.  At the end of file the script  *)
(* waits for the process to exit, however long that takes, and skips the   *)
(* deadline of the stream.  The exception for a deadline cannot be raised, *)
(* as its name is not defined: the script ends, its processes running.     *)
Scan ==
  LET t == plist[k]
      eof == t \in ready /\ pipe[t] = 0
  IN  /\ stage = "scan" /\ k <= Len(plist)
      /\ IF eof
           THEN /\ state[t] = "exited"
                /\ done' = [done EXCEPT ![t] = TRUE] /\ retvals' = [retvals EXCEPT ![t] = code[t]]
                /\ UNCHANGED <<buffers, pipe>>
           ELSE IF t \in ready
           THEN /\ buffers' = [buffers EXCEPT ![t] = @ + pipe[t]] /\ pipe' = [pipe EXCEPT ![t] = 0]
                /\ UNCHANGED <<done, retvals>>
           ELSE UNCHANGED <<results, pipe>>
      /\ k' = k + 1
      /\ stage' = IF ~eof /\ TimedOut(t) THEN "crash" ELSE "scan"
      /\ UNCHANGED <<launcher, next, plist, state, remaining, code, written, closed, overdue, ready, outcome>>

ScanEnds ==
  /\ stage = "scan" /\ k > Len(plist)
  /\ stage' = "now" /\ k' = 1
  /\ UNCHANGED <<launcher, next, plist, procs, results, overdue, ready, outcome>>

(* p.communicate of one process of a launcher after the other: it reads    *)
(* until the end of file, and then waits.                                  *)
Communicate ==
  LET t == plist[k]
  IN  /\ stage = "communicate" /\ launcher # "None" /\ k <= Len(plist)
      /\ IF pipe[t] > 0
           THEN /\ buffers' = [buffers EXCEPT ![t] = @ + pipe[t]] /\ pipe' = [pipe EXCEPT ![t] = 0]
                /\ UNCHANGED <<retvals, k>>
           ELSE /\ state[t] = "exited"
                /\ retvals' = [retvals EXCEPT ![t] = code[t]] /\ k' = k + 1
                /\ UNCHANGED <<buffers, pipe>>
      /\ UNCHANGED <<launcher, script, state, remaining, code, written, closed, done, overdue, ready, outcome>>

WaitallEnds ==
  /\ stage = "communicate" /\ (launcher = "None" \/ k > Len(plist))
  /\ stage' = "report" /\ k' = 1
  /\ UNCHANGED <<launcher, next, plist, procs, results, overdue, ready, outcome>>

-----------------------------------------------------------------------------
(* _main: what is printed of a batch, and the end                          *)

Report ==
  /\ stage = "report"
  /\ reports' = reports \o [j \in DOMAIN plist |-> <<plist[j], retvals[plist[j]], buffers[plist[j]]>>]
  /\ failed_tests' = failed_tests \cup {t \in Batch : retvals[t] # 0}
  /\ plist' = <<>> /\ stage' = "start" /\ k' = 1
  /\ overdue' = {} /\ ready' = {}
  /\ UNCHANGED <<launcher, next, procs, results>>

(* It exits with 0 if failed_tests is empty. *)
End ==
  /\ stage = "start" /\ next > NumTests
  /\ stage' = "end"
  /\ UNCHANGED <<launcher, next, plist, procs, results, polling, outcome>>

-----------------------------------------------------------------------------
ScriptStep ==
  \/ StartFails \/ (\E timeout \in Timeouts : Start(timeout))
  \/ Now \/ Select \/ Scan \/ ScanEnds \/ Communicate \/ WaitallEnds
  \/ Report \/ End

ProcessStep(t) == Write(t) \/ CloseOutput(t) \/ Exit(t, 0) \/ Exit(t, 1) \/ LauncherKills(t)

ScriptNext == ScriptStep \/ (\E t \in TestNumbers : ProcessStep(t)) \/ Tick

(* The script runs, time passes, launchers keep their promise; a test      *)
(* itself may hang.                                                        *)
ScriptFairness ==
  /\ WF_scriptVars(ScriptStep) /\ WF_scriptVars(Tick)
  /\ \A t \in TestNumbers : WF_scriptVars(LauncherKills(t))

ScriptSpec == ScriptInit /\ [][ScriptNext]_scriptVars /\ ScriptFairness

-----------------------------------------------------------------------------
Reported == {reports[j][1] : j \in DOMAIN reports}

(* Started, and forgotten: the last tests of the list could not be started *)
(* and so nobody waits for the batch that was being filled.                *)
Forgotten == {t \in Started : state[NumTests] = "failed" /\ t \notin Reported}

(* Each report is of a process that has ended, with its own exit status    *)
(* and all that it has written, however reads, exits and deadlines         *)
(* interleave; tests are reported once and in the order of the list; at    *)
(* most max_jobs are unreported at any time; and when the script ends      *)
(* regularly all that were started are reported, but for a last batch that *)
(* was not filled, and it says 0 only if all that are reported exited so.  *)
ReportsExact ==
  /\ ScriptTypeOK
  /\ \A j \in DOMAIN reports :
       LET t == reports[j][1]
       IN  state[t] = "exited" /\ reports[j][2] = code[t] /\ reports[j][3] = written[t]
  /\ \A i, j \in DOMAIN reports : i < j => reports[i][1] < reports[j][1]
  /\ Cardinality(Started \ Reported) <= max_jobs
  /\ stage = "end" =>
       /\ Started = Reported \cup Forgotten
       /\ Cardinality(Forgotten) < max_jobs
       /\ failed_tests = {t \in Reported : code[t] # 0}

(* The script comes to an end, if only by an exception: no order of reads, *)
(* exits and deadlines leaves it waiting for a test that hangs.  The one   *)
(* wait without a deadline is for a test that has closed its output, which *)
(* therefore has to exit.                                                  *)
Ends ==
  (\A t \in TestNumbers : (t \in closed) ~> (state[t] = "exited"))
    => <>(stage \in {"end", "crash"})
=============================================================================
