# cray-tests in TLA+

cray-tests is a set of benchmarks and tests for libfabric, aimed at the GNI
provider. This directory holds TLA+ models of it, TLC configurations that check
them on small instances, and TLAPS proofs about those parts for which a proof
for every size is within reach. All source paths below are relative to the root
of the repository.

## 1. The system

A test is a job of several processes (ranks). Ranks talk in two ways: out of
band through PMI (barrier and key-value space), wrapped by `common/ct_utils.c`,
and through the fabric under test (endpoints, completion queues, remote memory).

| component | source | state | operations |
|---|---|---|---|
| thread barrier | `include/ct_tbarrier.h` | two shared counters and signals (C11 atomics); each thread's `phase[2]` and `slot` | `ct_tbarrier_init`, `ct_tbarrier` |
| out-of-band collectives | `common/ct_utils.c`, `include/ct_utils.h` | the static counters of `PMI_Allgather` and `PMI_Bcast`; `ivec_ptr`, `already_called`; the key-value space | `ctpm_Init`, `ctpm_Barrier`, `ctpm_Allgather`, `ctpm_Bcast`, `ct_allreduce_*`; `encode`, `decode` |
| one-sided test | `performance/multi-node/rdm_one_sided.c` | per thread an endpoint, two queues, `bytes_sent`, times; per rank the size, `loop`, `skip`, `window_size` | `main`, `thread_fn`, `wait_for_comp` |
| bandwidth and message rate test | `performance/multi-node/rdm_mbw_mr.c` | one endpoint per rank with queues or counters | `main`, `calc_bw`, `wait_for_comp` |
| ping-pong test | `performance/multi-node/rdm_pingpong.c` | per thread an endpoint and two queues | `main`, `thread_fn`, `wait_for_comp` |
| random access | `performance/multi-node/random_access.c` | the distributed table, locks, registrations, an endpoint per peer, one scratch word, the position in the random stream | `random_access`, `update_table`, `lf_atomic_xor`, `exchange_registration_data`, `generate_initial_xor_val` |
| result output | `common/ct_print_utils.c` | a table buffer and a csv buffer with size and count, a file descriptor | `ct_init_info`, `ct_add_line`, `ct_print_data`, `ct_fini_info` |
| lock test and clock | `performance/single-node/lock_tests.c`, `include/ct_utils.h` | `clock_lock`, `is_clock_lock_init`, `clock_started`, `start`, `end` | `rwlock_test`, `reader`, `writer`, `ct_start_clock`, `ct_stop_clock` |
| endpoint set-up | in the five multi-node programs | fabric, domain, endpoint, queues, address vector, registrations | `init_fabric`, `init_endpoint`, `alloc_ep_res`, `bind_ep_res`, `init_av`, `init_per_thread_data`, `init_gnix_prov` and their counterparts |
| runner | `scripts/run_cray_tests.py` | the batch of processes, their pipes and deadlines; failed tests | `start`, `waitall`, `_main` |
| authorization key test | `performance/multi-node/auth_key_test.c` | as random access without traffic, with a DRC credential | `main`, `random_access` |
| atomic timings, buddy driver | `performance/single-node/builtin_atomic_tests.c`, `contrib/buddy_test.c` | one thread, no shared state | `main` |

How they interact: the multi-node tests call the collectives, whose calls must
match across ranks; `rdm_one_sided` uses the thread barrier between the workers
of a rank; the single-node tests use the output module and the clock. `main`
and its workers share `thread_data` and the tunables, and hand over by
`pthread_create` and `pthread_join`. Ranks share memory through the fabric: one
side's buffer or table is written by the other's operations, some time after
they were posted.

What is hard: the reuse of a barrier's two slots; keys and barriers that are
told apart by counters alone; completions that arrive late, or with an error
that nobody handles; a shared counter that is set back to zero by hand; clocks
started in the middle of a loop; remote updates that must stay between two
barriers; failure of one rank only, whose next collective meets another one of
its peers; error paths that close what their callers close too; buffers at
their limit, and writes that fail while the buffers are torn down because a
write has failed; an unguarded flag; output, exits and deadlines of several
processes that race in one `select`.

What makes each part correct:

- thread barrier: nobody returns early, nobody stays behind, for any number of
  calls and any speed of the threads;
- collectives: each delivers the data of the same call, in rank order, on every
  rank; each synchronises; none hangs;
- the timing tests: the time printed is that of the messages counted, buffers
  are not touched while the fabric uses them, ranks agree on the message size;
- random access: an update reaches exactly the word it is meant for, while that
  word's table is live; the streams of all ranks compose to one stream; the
  verification reports exactly what was lost; all ranks abort or none does;
- output: no byte lost, none written twice, counts within sizes;
- clock: it runs whenever a thread works, and measures one test;
- set-up: a rank measures only with all it needs and with healthy peers; error
  paths close what is open, once; a credential outlives the memory it protects;
- runner: what is printed of a test is what its process did; no test is printed
  twice; the script does not wait for ever for a test that hangs.

## 2. Modules

| module | models | composed of |
|---|---|---|
| `Barrier` | what a reusable N-party barrier promises (abstract); also the external `PMI_Barrier` | |
| `ProcessThreads` | the threads of a process, the parameter that `TBarrier` and `LockTests` share | |
| `TBarrier` | `ct_tbarrier`, one action per atomic access | refines `Barrier` |
| `Codec` | `encode` / `decode` of key-value payloads | |
| `PmiColl` | `ctpm_*` and `CT_ALLREDUCE_FUNC` | `Codec`, `Barrier` as PMI; each collective refines `Barrier` |
| `OneSided` | the test loop of `rdm_one_sided.c` | uses the promise of `Barrier` twice |
| `MbwMr` | `calc_bw` of `rdm_mbw_mr.c` | uses the promise of `Barrier` |
| `Pingpong` | the test loop of `rdm_pingpong.c` | uses the promise of `Barrier` |
| `Partition` | distribution of the table, owner of an offset, table size | |
| `Lfsr` | random stream and the jump into it | |
| `RandomAccess` | `random_access()` to the end of `main` | `Partition`, `Lfsr`, the promise of `Barrier` |
| `PrintUtils` | `ct_print_utils.c` | |
| `LockTests` | `lock_tests.c` and the clock | |
| `EpSetup` | opening and closing in the five multi-node programs, `auth_key_test.c` | counts collectives as `PmiColl` does |
| `Runner` | `scripts/run_cray_tests.py` | |
| `MC*` | instances for TLC; `MCRandomAccess` also walks through the inputs of `Partition` and `Lfsr` | |
| `PmiColl_proofs`, `OneSided_proofs`, `Pingpong_proofs`, `MbwMr_proofs`, `RandomAccess_proofs` | theorems and proofs | the module they are named after and those it is composed of |
| `EpSetup_proofs` | theorem and proofs on the code of the seven programs that `EpSetup` models | `EpSetup` |
| `EpSetupRuns_proofs` | theorems and proofs on the ranks that run it | `EpSetup_proofs` |
| `Process_proofs` | theorems and proofs on what works within a process or a host | `TBarrier`, `LockTests`, `PrintUtils` and `Runner`, which therefore share no name but `pc` and `Threads` |

Definitions keep the names of the source where they stand for one function or
variable (`gni_pmi_send`, `wait_for_comp`, `njoiners`, `remote_pe`). A `pc`
variable holds a thread's or rank's place; an action is the code from one point
where others can interfere to the next. Loops that post a window without
looking at any queue are one step; every read of a queue, every atomic access,
every entry and exit of a barrier is a step of its own. Operators introduced by
"Faulty variant" are not part of the model: each is what a plausible slip in
the code would make of the definition that follows them, and is there to show
that a property would notice.

The correspondence per module:

- **TBarrier.** `counter`, `signal`: `tbar_counter`, `tbar_signal`; `phase`,
  `slot`: the thread's own struct. `Join` is the `atomic_fetch_add` with the
  test for the last joiner, `Reset` and `Toggle` its two stores, `Spin` the
  load that ends the loop. `entered`, `left`, `released` are history. Atomics
  are sequentially consistent, as in the code.
- **PmiColl.** `cnt` holds the static counters, `kvs` the key-value space with
  the barrier count at which an entry was committed. `GatherRanksEnd` is the
  nested gather of ranks of the first `ctpm_Allgather`. `order` lets
  `PMI_Allgather` deliver in another order, as vendor implementations may
  (`HAVE_CRAY_PMI_COLL`). Payloads are ints of four bytes, as the ranks and the
  data of the reductions are, different for each rank and call, so that any
  mix-up is visible. They travel through `Codec` and are cut as `memcpy` cuts them.
- **OneSided, Pingpong, MbwMr.** `scq`, `rcq`, `scomp`, `rcomp`: completion
  queues or counters; `sends`, `writes`, `net`, `posted`: operations the fabric
  has accepted. `WriteDone`, `SendDone`, `Arrive`, `RecvDone`, `Lose` are the
  fabric's steps. `ReadSend`, `WaitCq`, ... are one read inside `wait_for_comp`;
  an error entry ends the wait, and what follows ignores it as the callers do.
  `CreateFails` is `pthread_exit` of `main` after a failed `pthread_create`: the
  workers there are go on without it. `thread_sync` chooses the build of
  `rdm_pingpong.c`: with `THREAD_SYNC` thread 0 calls `ctpm_Barrier` and all
  workers of a rank `pthread_barrier_wait`, before and after the loop.
  `test_type` and `wait_type` are the options `-c` and `-m` of `rdm_mbw_mr.c`. Its
  `wait_for_comp` may also return before its count without an error entry
  (`GiveUp`): `fi_cq_read` or `fi_cq_sread` returns an error (191-197), or, when the
  program blocks, `fi_cq_sread`, `fi_cntr_wait` or `fi_wait` does (210-218). The
  operations it was waiting for stay outstanding, the callers go on, and in counter
  mode they set the counter back all the same (535, 542, 588, 594). Why these calls
  fail is left open.
- **RandomAccess.** `Script` lists the collectives in program order; a rank is
  inside one (`at`) or computes. `Decide` is the abort test, `PostXor` one
  round of `update_table` up to the wait, `Complete` the fabric carrying out
  the atomic, reading `scratch` only then. Words are sets of bits.
- **PrintUtils.** A line is its number of bytes in the table and in csv.
  `Formatted` ends the first loop of `ct_add_line`; `Converted`, `GrowCbuf` and
  `FlushCbuf` are the rounds of the second. `Grow` can also be refused below
  the limit, for `realloc` may fail. A write that succeeds is complete (see the
  list of section 3). One that fails enters `ct_fini_info` with `ending = "abort"`;
  if a write fails there as well, `ct_fini_info` is entered from within itself
  and frees `test_name` twice, which is where the model ends (`undefined`). Of a
  line that is longer than the room in `tbuf`, `vsnprintf` writes only what fits
  while `tbuf_cnt` counts all of it (187, 213): `TbufBytes` is what the buffer
  really holds, and the next use of the buffer, which reads past its end, is not
  modelled either.
- **LockTests.** Every access to `is_clock_lock_init` and every step inside the
  critical section is an action; initialising a held mutex leaves it free.
  Threads asleep on the mutex may then never be woken, which the absence of
  fairness covers.
- **EpSetup.** A program is a sequence of parts, the functions whose result
  `main` looks at or ignores, and a part a sequence of calls. Each call lists
  the handles it uses, the handles it opens, and those its error path closes:
  the labels of the function in which it stands and of its callers. `Fail` runs
  the whole path and continues where `main` does. Handles keep the names of
  their variables. Collectives are found by counting, as `PmiColl` shows that
  the code does, so that a rank which skipped one reads another's data
  (`mixed`) or fails the assertion of `gni_pmi_receive`.
- **Runner.** `plist` is the batch; `Now`, `Select`, `Scan` and `ScanEnds` are
  the polling loop of `waitall`, `Communicate` its loop for `aprun` and `srun`.
  Deadlines are kept as the seconds that are left (`remaining`), so that the clock
  needs no bound; `overdue` is the comparison with `now`, taken before `select`.
  A process writes into a pipe of `PipeSize` pieces and blocks when it is full. It
  may close its output and go on running (`CloseOutput`); the script then finds the
  end of file and waits for the exit, at 206 without a deadline (`Scan`).

## 3. Runs

| run | instance | checks | result |
|---|---|---|---|
| `tbarrier` | 4 threads, 4 calls | `IInv`, `NoEarlyReturn`, `ImplementsBarrier` | hold |
| `collectives` | 3 ranks, all programs of up to 2 calls, 2 delivery orders | `InStep` (keys found, barriers paired), `DataOfThisCall`, `WriteOnce`, `Completes`, `CollectivesSynchronise` | hold |
| `one_sided` | 2 workers per rank, 2 sizes, window 2, 1 failing write, 1 failing `pthread_create` | `SizesChangeAtRest` (buffers touched at rest, peers at the same size), `SurplusBounded`, `AnswerAfterWrites`, `BytesExact`, `Completes` | hold |
| `mbw_mr` | 5 ranks in 2 pairs, 2 calls, queues, polled and blocking counters, 1 receive that fails or wait that gives up | `NoWarmupTimed`, `AllReceived`, `ResetLosesNothing`, `SurplusBounded`, `RanksInStep` (collectives match, closed at rest), `Completes` | hold |
| `pingpong` | both builds, 2 workers per rank, 2 sizes, 1 failing receive, 1 lost message, 1 failing `pthread_create` | `WorkersInStep` (one operation outstanding, peers at the same size, closed at rest), `RoundTripsReal`, `Completes` | hold |
| `random_access` | 3 ranks, 4 words of 4 bits, failing allocations, 1 lost atomic; tables of up to 160 words on up to 12 ranks with every offset; 64 bits, `POLY` 0x7, the first 160 elements of the stream | `TargetsReady`, `StreamsCompose`, `ErrorsExact`, `RanksInStep` (abort agreed, collectives match), `Completes`; `TablesShared`, `JumpsToStream` | hold |
| `print_utils` | every kind of `csv_path`, buffers of 4 to 16 bytes, lines of 4 bytes, 6 calls, 2 failing writes | `BuffersValid` (both counts within their sizes), `EachByteOnce`, `AddEnds` | hold |
| `lock_tests` | 3 threads, 3 tests | `ClockRunsAtWork`, `TimesOfTest` | hold |
| `ep_setup` | 7 programs (5 sources, two of them with an option), 2 ranks, 2 threads, 2 failing calls | `StartsReady`, `ErrorPathsClean`, `CredentialOutlivesUse`, `Completes` | hold |
| `runner` | 3 tests, `max_jobs` 2, timeouts of 1 and 2, 2 pieces of output, a pipe of 1; with and without launcher | `ReportsExact`, `Ends` | hold |
| `print_utils_long_line` | lines that do not divide the buffer | `TbufValid` | violated |
| `lock_tests_clock` | 3 threads | `StartedBeforeWork` | violated |

Each component's type invariant is a conjunct of one of the invariants its run
checks: of `IInv` in `TBarrier`, `InStep`, `SizesChangeAtRest`, `RanksInStep`,
`WorkersInStep`, `BuffersValid`, `ClockRunsAtWork`, `StartsReady` and
`ReportsExact`. `TablesShared` and `JumpsToStream` are about operators without
state: they are stated of the initial states and TLC evaluates them there.

Why the bounds are enough:

- The barrier has two slots and two senses; four calls run through every
  combination of them and reuse each slot. Four threads give a last joiner, a
  fast thread, and several slow ones.
- Two collectives in a row show every pair of adjacent calls, which is as far
  as ranks can drift apart since each collective synchronises; the first
  `ctpm_Allgather` alone contains two gathers. Three ranks have a root and two
  that may disagree about order.
- Two sizes show the change from one to the next including the change of `loop`
  and `skip`; two workers show that one may lag. One iteration of warm-up and
  one or two timed ones show the boundary at `skip`. A window of two makes a
  wait end half-way. A second error only adds another surplus of the same kind.
- In `mbw_mr` the first call has two operations per slot of the window and the
  second has one, so leftovers of one call would be mistaken in the next; the
  surplus rank takes the third branch of `calc_bw`. The largest message
  is made of two iovecs (`IOV_CNT`, 8 in the code), the least for which a window
  has more operations than messages. `MCModes` leaves out modes that the model
  cannot tell from one it has: queues are read alike in all of them, and counters
  alike in the two that block. One failure (`MaxFailures`) on the ranks of the first
  pair (`Failing`), sender or receiver; the second pair stays healthy.
- Three ranks on four words exercise both branches of the distribution. Each
  rank makes four updates per word as in the code, 16 in all. The width of
  4 bits keeps states small; `JumpsToStream` takes the full 64 bits, and
  `TablesShared` tables of other sizes.
- Buffers of 4 bytes that may grow to 16 grow twice and then are flushed; six
  calls fill the largest. Lines of 4 bytes fill buffers without remainder, which
  is the case the code handles; those that do not are in
  `print_utils_long_line`. Two failing writes are the first failure and one on
  the way out after it, where the model ends.
- In `ep_setup` two threads or two peers show an error of the second after the
  first has been set up; the second failure may be on the same rank, after an
  ignored first one, or on the other.
- Three tests in batches of two make a full batch and one that the end of the
  list completes; two timeouts let the deadline of one process pass before that
  of another; a pipe of one piece blocks the writer of the second. Two pieces of
  output (`MaxOutput`) are the least for which a test is read in more than one round.
- Three threads are needed for the race of the clock: one in the critical
  section, one that initialises the mutex again, one that enters it then. The
  third test shows that the second leaves nothing behind.

`CHECK_DEADLOCK FALSE` stands in the configurations of programs that end. That
they end, rather than get stuck, is what `Completes`, `ImplementsBarrier`, `AddEnds`
and `Ends` say; `lock_tests` makes no such claim.

### Fairness

Weak fairness for each thread or rank as a whole: the operating system keeps
running it, and each has at most one continuation at a time. Weak fairness for
the fabric's steps: progress is automatic by the hints of `rdm_mbw_mr`
(`FI_PROGRESS_AUTO`), or made by the reads of the waiting threads, which spin
in `wait_for_comp`. In `MbwMr` ranks and fabric are fair together, which is weaker:
as long as one of them can move, one does. Losing a message, failing an operation
or giving up a wait is never required.
In `TBarrier` only threads inside the barrier are fair: whether a thread calls
it is its client's choice. In `Runner` the script runs, time passes and a
launcher kills the job that is out of time; a test itself may hang, write or
exit as it likes. `Ends` has one premise: a test that has closed its output exits,
for the wait at 206 has no deadline. In `EpSetup` a rank that can go on does. `LockTests` uses none.

`Completes` says of the failures that stop a program for good that they are the
only ones that do: a lost message, an error in counter mode, a missing thread, a
call of the set-up that failed. Where `main` has ended after a failed
`pthread_create`, it adds that both ranks stand at the same size.

### What the violated runs show

1. `print_utils_long_line`: an exhausted table buffer is only noticed on an
   exact fit (`ct_print_utils.c` 191); a longer line leaves `tbuf_cnt` above
   `tbuf_sz`.
2. `lock_tests_clock`: the "thread safe" clock can be restarted after a thread has
   begun to work. `ClockRunsAtWork` and `TimesOfTest` show that this is all that
   goes wrong: the time is still one of this test.

### Read in the code, visible in the models, and checked by no run

Memory, files and output:

- `random_access.c` 65-66 asks for a table of at most half of the memory; the
  loop at 768 takes the largest power of two that fits all of it
  (`log_table_size`). `TablesShared` takes no side: it only says that the table
  fits the memory.
- After a failed allocation the ranks free `hpcc_table` and skip the release of
  `hpcc_lock` (`random_access.c` 809-811; `Decide`).
- `-n`, the number of updates per PE, is parsed and never used
  (`random_access.c` 448, 840, 1068-1074; `iterations`).
- `ct_print_data` flushes and does not reset the counts, so the next flush
  writes the same bytes again (`ct_print_utils.c` 260; `PrintData`, and the
  `printed` that `EachByteOnce` subtracts).
- Without a path `csv_fd` is 0, not -1 (`ct_print_utils.c` 155; `InfoInit`), so that
  `ct_fini_info` closes standard input; empty buffers are not freed (286; `Fini`).
- A write that fails inside `ct_fini_info` calls it again by way of
  `__chk_write_err` (`ct_print_utils.c` 98), and `test_name` is freed twice. A
  write that is cut short is taken for a complete one.
- `ct_init_info` returns `NULL` for a csv file that cannot be read; its callers
  do not look.

Set-up and tear-down (`EpSetup`):

- With counters, `alloc_ep_res` of `rdm_mbw_mr.c` closes queues that were never
  opened (282-302), the one exception in `BadCloses`. The wait set is never
  closed, and after an error of `init_av` nothing is.
- `init_endpoint` of `rdm_one_sided.c` and `rdm_pingpong.c` closes the domain
  that all threads share, and `main` goes on with it: `Misuses` says what is
  true all the same.
- A rank of `rdm_one_sided.c` whose own `r_buf` could not be registered may begin
  to measure with data of another allgather. Two failures are noticed by no
  other rank: `fi_av_insert` in `random_access.c`, and the registration of
  `s_buf` (`Unnoticed`).
- Every rank of `random_access.c` releases the credential (302); in
  `auth_key_test.c` the head alone does.
- After a wait that gave up `rdm_mbw_mr.c` goes on, and sets the counter back to
  zero all the same (535; `GiveUp`). Completions that arrive later are then taken
  for those of the next window, or lost: `NoWarmupTimed`, `AllReceived` and
  `ResetLosesNothing` except this, `SurplusBounded` says how many there can be.

Runner:

- The exception for a timeout is looked up under a name that does not exist
  (`run_cray_tests.py` 210): the script ends with a `NameError`, without a report
  and with its processes running (`Scan`, `crash`). `Ends` counts that as an end.
- A test that closes its output and hangs stops the script for ever: the wait at
  206 has no deadline (`Scan`; the premise of `Ends`).
- The output and status reported of a test that the launcher killed, be it blocked
  on a pipe that nobody read, are those it had when it was killed: `ReportsExact`
  says no more of it.
- `select` waits for the latest deadline of the batch, not for the next.
- If the last test of the list cannot be started, the batch it would have
  completed is never awaited nor reported, and the script may exit with 0
  (`Forgotten`). The number printed as passed is that of the tests started.

## 4. Proofs

`Process_proofs`, the barrier (assumptions: a finite, non-empty set of threads, a bound in
`Nat`; nothing else):

- `Invariance`: `Safe => []IInv`. `NoEarlyReturn` is not inductive: it says
  nothing of a state with a counter too high, from which a thread could leave
  early. `IInv` adds, for each thread, that its private `phase` and `slot`
  either agree with the shared signals or lag by exactly the release it is
  about to notice (`ThreadInSync`); that a thread which resets or toggles is
  alone in doing so while all others spin (`LastIsAlone`); and that the current
  counter equals the number of threads inside (`CountersExact`). The proof has
  one lemma per action; `Join` needs the cardinality of the set of joiners to
  conclude that the last joiner is the last, the other actions only arithmetic
  on two slots.
- `BarrierSafety`: `Safe => []NoEarlyReturn`, for `left <= released <= entered`.
- `Refinement`: `Safe => Abstract!Safe`. A join is an entry, the steps that
  return are leaves, a reset is a stutter; `IInv` gives the guard of `Leave`.

`Process_proofs`, the clock: `ClockSafety` and `TimesCorrect`, for any number of
threads and tests. The properties are about threads at work and about printed times;
the invariant adds that a running clock runs for the test main is at
(`StartIsOfTest`), that who has been through `ct_start_clock` leaves the clock
running (`ClockLeftRunning`), and that main is done with a test only when all of
its threads have returned (`NobodyLeft`). The lock plays no part in the argument,
for the race destroys its promise: the clock is right because `clock_started` is
only set after `start`, and only cleared after all threads have been joined.

`PmiColl_proofs`, for any number of ranks, any set of programs and any order of
arrival:

- `StayInStep`: `Spec => []InStep`. No state names the barrier a rank is in, so
  the proof names it: `At(r)` is the barrier that `r` is in or comes to next, as
  a place in the program together with the values the statics have there, and
  `After` is the place that follows. `Segments` says that ranks which have left
  equally many barriers have the same `At`, and that a rank which has left one
  more is at the place after; an action moves `At` to `After(At)` if it leaves a
  barrier and leaves it alone otherwise. What is read is there because whoever
  waits in an exchange has sent (`Sent`), and what a rank reads was there when it
  left the exchange and is not overwritten (`Found`, `Unsent`).
- `KeysWrittenOnce`: `Spec => WriteOnce`, from `Unsent`: the key a rank is about
  to put has no entry yet.
- `DataDelivered`: `Spec => []DataOfThisCall`. `DataOf(r, q)` is what `q` publishes in
  the exchange `r` is in. `SentData` and `FoundData` say of values what `Sent` and
  `Found` say of presence: whoever waits in an exchange has published its data of
  that exchange, and what a rank may read is that data still. `LocalData` follows it
  through the rank's own buffers: the ranks that were gathered first are the order
  of arrival, so that `Unpack` puts each rank's data in its place.
- `CodecCorrect`: what `encode` makes of a byte string of any length is text that
  fits, and `decode` gives the string back.
- `CallsSynchronise`: `Spec => Collective!Safe`. The delicate case is
  `ctpm_Allgather`, which returns without a trailing barrier: a rank that has
  received the data is at most one barrier ahead of the others, so all of them
  have at least begun the call.

`OneSided_proofs`, for any number of workers, message sizes, windows and loop
counts, and any number of failing operations and calls of `pthread_create`:

- `SizesTogether`: `Spec => []SizesChangeAtRest`. Nothing in the code tells a worker
  which size its peer is at. The proof shows that it need not: the numbers of
  calls of the barriers, of `ctpm_Barrier` by main (`MainAt`) and of `ct_tbarrier`
  by a worker (`WorkerAt`), tell size and place, and a rank has entered what
  another has left. That nothing is under way when buffers are touched is the
  sum of three parts: workers have returned (`ControlInv`), messages sent,
  delivered and consumed are the same number (`Conserved`), and what a worker has
  outstanding is what it waits for (`Exact`).
- `SurplusStaysBounded`: `Spec => []SurplusBounded`. The bound is not inductive, for it
  does not say which errors are still in a queue. `Surplus` charges each error
  when it is read: until then it is outstanding as any other operation, and
  then at most all but one of a window are left behind.
- `AnswersAfterWrites`: `Spec => []AnswerAfterWrites`. A worker that has received
  has, by conservation, a peer that has sent at the same size, and a peer that has
  sent has waited for its writes (`Exact`) and left its loop (`Progress`).
- `BytesAreExact`: `Spec => []BytesExact`. `Progress` relates the byte count of a worker
  to its loop index in each iteration; when main of rank 0 has joined all workers
  each has counted the timed iterations, and the library's fold over the workers
  is a product, by well-founded induction over the sets of workers (`EqualTerms`).

`RandomAccess_proofs`, for any number of ranks, any table the code can ask for, any
width of the words and any polynomial with a constant term, and any number of
failed allocations and lost atomics:

- `UpdatesCorrect`, `TablesCorrect`: the distribution of the table, for every number
  of words and ranks, more ranks than words included, from lemmas about quotient
  and remainder. `TablesSharedHolds` is the property of the run, the loop that
  halves `total_mem` included.
- `JumpCorrect`: `generate_initial_xor_val(seed)` is element `seed` of the stream.
  Words are polynomials over GF(2), `Step` multiplies by x, and an element is a
  power of x. `Square` is right because squaring is additive: the mixed products
  of a square come in pairs (`SquareIsProduct`), so that `m2`, the even powers,
  is all the code needs (`EvensAreM2`, `SquarePower`). Walking down the bits of the
  seed then gives the power of each prefix of it.
- `RanksInStepHolds`: `Spec => []RanksInStep`. A rank's place follows from the number
  of collectives it has entered and from whether some rank could not allocate
  (`PlaceAfter`): the barriers before the reduction of `send_abort` make the
  latter final before anybody looks at it (`Abreast`, `Ownership`).
- `TargetsReadyHolds`: `Spec => []TargetsReady`. `DataInv` adds that a rank has one
  atomic under way at most, and only between the barriers of `update_table`,
  where by `ControlInv` all ranks are.
- `TableHolds`, and from it `ErrorsExactHolds` and `StreamsComposeHolds`:
  `Spec => []ErrorsExact`, `Spec => []StreamsCompose`. Neither is inductive, for both
  are about the end of a phase. `TableInv` says what each word holds in the
  middle of one: its initial value, xor-ed with the updates of a set (`Made`),
  which are those the loops have come to, the ones under way excepted; in the
  second phase those still to be taken out. If one was lost, some single update
  is in the set or out of it contrary to that (`Contents`). Xor is the parity of
  the number of updates that hit a bit (`WordOf`), so that their order does not
  matter, and an update that is missing shows in one word (`WordSingle`). The
  verification has counted the words that differ so far (`Counts`), and the sum
  over the ranks is one for the owner of that word. For `StreamsCompose` the
  updates of all ranks are put in bijection with the elements of the single
  stream (`At`), because each rank starts where the streams of the ranks before
  it end.

Properties of numbers are proved by an induction that is stated for sets
(`Induction`: a set of naturals with 0 and with every successor has them all),
because the library's induction takes an operator, which the provers cannot
instantiate. It follows from the library's theorem that finite sets are well
founded by inclusion. Recursive functions are first shown to exist (`Recursion`),
and powers of two are the numbers of subsets (`Powers`).

`MbwMr_proofs`, for any number of pairs and surplus ranks, calls, windows and loop
counts, all modes, any number of failing receives and any number of waits that give
up, on any ranks:

- `RanksInStepHolds`: `Spec => []RanksInStep`. The number of collectives a rank has
  entered determines its call of `calc_bw` and its place in it (`Places`), and all
  ranks have entered what one has left (`Passed`).
- `ResetLosesNothingHolds` and `SurplusBoundedHolds`: as long as no wait has given up,
  what is posted or completed on the side a rank waits on is what the wait is for
  (`SidesAt`); each failed receive leaves at most all but one of a window behind,
  and each wait that gives up at most a window, on the side it was for (`SurplusAt`).
- `NoWarmupTimedHolds` and `AllReceivedHolds`: while nothing has failed the messages that a
  rank has sent in its call and those that its peer has received differ by what
  is under way (`UnderWayAt`), the ones received and the receives that are posted
  add up to what the loop index says (`ReceivedAt`), and a pair is in different
  calls only while nothing is under way.

`Pingpong_proofs`: `RoundTrips` and `InStep`, `Spec => []RoundTripsReal` and
`Spec => []WorkersInStep`, in both builds (with `THREAD_SYNC` and without), for any
number of workers, sizes, errors and lost messages. That workers are at the same
size is not visible in the pair of them that exchanges messages; it follows from
the barriers. The invariant says that the numbers of calls of `ctpm_Barrier` and
of `pthread_barrier_wait` a worker has made determine its size and its place
(`Before`, `WaitsAtSize`), and that all ranks have entered a barrier of main
that one has left (`Passed`). `RoundTripsReal` rests on messages being conserved:
rounds done and receive completions add up to the messages that arrived, which
together with those under way are at most those sent, exactly so if none is lost
(`Conserved`), and on one outstanding operation at a time (`OneOutstanding`).
That endpoints close at rest follows from the sizes: a rank that has left a
barrier of main is not behind the other (`NotBehind`).

`Process_proofs`, the buffers of `ct_print_utils.c`:

- `NoByteLostSoFar`: `InfoSpec => [](TbufValid => EachByteOnce)`, for lines of any
  lengths and any number of failing writes. The sum of what is written, pending and
  still to be converted is not inductive alone: the invariant adds which buffers are
  live in each phase of `ct_fini_info` and of its calls from within itself (`Frees`),
  that the csv buffer is never overrun (`CbufValid`), and that nothing happens any
  more once a line has been too long for the table buffer (`Bytes`).
- `CountersWithinBuffers` and `NoByteLost`: `InfoSpec => []BuffersValid` and
  `InfoSpec => []EachByteOnce` if all lines have one length that divides
  `INIT_BUF_LEN`. That no line is ever too long needs such a condition, as
  `print_utils_long_line` shows: with it the count and the size of the table buffer
  remain multiples of the length. A line that is too long is cut off by `vsnprintf`,
  and its bytes are lost.

`Process_proofs`, the runner: `ReportsCorrect`, `ScriptSpec => []ReportsExact`, for any number of
tests, any `max_jobs`, timeouts and output. The invariant adds that the list is
worked off in order, each test being reported or in the batch (`InOrder`); that
the polling loop marks as done only what has exited and been read to its end
(`Polled`), and so does the loop over launchers for all before its place
(`InTurn`); that output is read once (`Pipes`); and how full a batch can be at
each place (`Filling`), from which the cardinalities in `ReportsExact` follow.

`EpSetup_proofs` and, for any number of failing calls, `EpSetupRuns_proofs`, with any
number of ranks, threads and peers:

- `EveryProgramSound` (`EpSetup_proofs`): each of the seven programs, its loops over threads and peers
  unrolled to any length, opens only what is closed and uses only what is open; the
  labels that a failing call runs through, its own and those of its callers, close
  what is open at that point and nothing else (`ClosesItsOwn`), the misuses listed
  excepted; and an error of the first part leaves nothing open (`FirstThorough`).
  The proof goes along the code: a fact per function about what its calls open,
  use and close (`Supplied`, `Neat`, `Makes`, `Closes`), and lemmas that compose them
  for a sequence of calls and for a loop.
- `ErrorPaths` (`EpSetupRuns_proofs`, as those that follow): `Spec => []ErrorPathsClean`. The invariant `Clean` says what a rank has
  open at its place: what the calls before it open (`HasItsOwn`, `HasAll`), and, as
  long as none has failed, nothing besides (`HasNoMore`). What a failing call
  closes is then read off the program.
- `CredentialIsHeld`: `Spec => []CredentialOutlivesUse`. The head asks nobody before it
  releases, so the proof counts barriers. The number of them a rank has entered
  determines its place (`Counted`), and all ranks have entered what one has left
  (`Abreast`). A rank with memory registered has entered at least 7 and at most 16; a head that
  has not got the credential, for want of access to it, stops at 2, and the
  head that has released it has entered at least 17 (`CredentialKept`).
- `ReadyToStart`: `Spec => []StartsReady`. The proof counts allgathers. Every step
  of a program has a number of them before it (`Counts`, `CountOf`, put together from
  one fact per function), the n-th gathers the same data on every rank
  (`Gathered`), and the test comes after all of them. A call whose failure others
  notice comes before an allgather that is then left out, so that such a rank has put
  one label too few from there on, for good (`SentN`). No rank gets ahead of
  another, because an assertion stops one that finds a peer's data missing
  (`Pairs`): a rank at its test has put all labels, so every other has put all labels, in their
  places, and what it has read is not `mixed` (`MixedSeen`).

All proofs assume only what the modules assume of their constants. For
`RandomAccess` that is a table below the period of the stream and local tables
whose offsets fit the `int` that `update_table` keeps them in, and a polynomial
with a constant term, which the code's 0x7 has. `PmiColl` assumes that a rank is an
int.

Only model-checked: all liveness (`Completes`, `AddEnds`, `Ends`, and the
liveness part of `ImplementsBarrier` and `CollectivesSynchronise`), which is out
of the prover's reach under fairness; and `JumpsToStream`, which is `JumpCorrect`
for the width and the polynomial of the code, evaluated.

## 5. Not modelled

- Option parsing, printing of results, build files: they only set the constants
  or format what the models keep as numbers. Likewise the parsing of the test
  list in `run_cray_tests.py`.
- `builtin_atomic_tests.c`: one thread without state; `buddy_test.c`: drives an
  allocator that is not part of the repository.
- `ctpm_Abort`, `ctpm_Exit` and `ctpm_Finalize`: single calls into PMI. A rank
  that aborts just stops in `EpSetup`; that PMI then kills the job is outside.
- Short writes: `write` fails or is complete.
- A completion queue that cannot be read at all (`fi_cq_read` returns an error other
  than `-FI_EAVAIL`) in `rdm_pingpong.c` (166-169), `rdm_one_sided.c` (184-187) and
  `random_access.c` (406-409): the wait ends with nothing consumed. `MbwMr` has
  the like of it (`GiveUp`).
- Times and bandwidths as numbers: the models keep what they are computed from.

## 6. State of the work

Modelled in this order: `Barrier`, `TBarrier`; `Codec`, `PmiColl`; `OneSided`;
`MbwMr`; `Partition`, `Lfsr`, `RandomAccess`; `PrintUtils`; `LockTests`;
`Pingpong`; `EpSetup`; `Runner`. Every component that keeps state is modelled.

Every safety property and action property that a run checks is also a theorem for
all values of the constants (`BuffersValid` and `EachByteOnce` for lines of one length,
a condition that `print_utils_long_line` shows to be needed), but for the two that are false of the
code as it is and `JumpsToStream`, which evaluates a theorem. What remains is
liveness.
