# A TLA+ verification of coresight-trace

This directory specifies and verifies the part of coresight-trace that decides
what a fuzzer sees: how `afl-cs-proxy` serves AFL++, traces each child through
CoreSight, decodes the trace on a second thread, chooses the CPU frequency, and
hands back a coverage map. The modules are written from the C sources. TLC
checks them on small instances, and TLAPS proves the main results for every
value of the constants. `PROJECT.json` lists runs, mutants, source lines,
hazards, findings and theorems.

Paths below are relative to the repository: `src/common.c` is the file the map
in `PROJECT.json` calls `src/src/common.c`.

## 1. The system

| Part | Source | State | Operations |
|---|---|---|---|
| AFL++ (external) | served by `cs-proxy.c` on FORKSRV_FD | pid it was told, phase of the request | request, timeout kill, read of the map |
| proxy, main thread | `src/cs-proxy.c` | position in the testcase, retry counters, calibration and broadcast flags | next testcase, calibration, start and resume, wait and stop, retries, edge pass, end of testcase |
| start and stop of a trace | `src/common.c` | event flags, `decoder_ready`, `child_pid`, `trace_buf`, map | `start_trace`, `stop_trace`, `fetch_trace`, `decode_trace`, callbacks |
| decoder thread | `src/common.c` | its position, `init_pos` | `decoder_worker`, `trace_sink_polling` with its drains |
| sinks and ETMs | `src/config.c` | sinks on or off, ETM registers, branch broadcast | configure, enable, disable (sinks only, or all), broadcast mode |
| forkserver in the target | `libforksrv/libforksrv.c` | two pipes, its child | hello, fork, report the pid, relay stops and the exit, parent-death signals |
| frequency governor | `src/freq_gov.c` | search position and evidence per mode, cpufreq policy, guard process | apply, result, retry and floor decisions, calibration, save and restore |
| hybrid coverage | `src/hybrid.c` | virgin maps, checksum filter, caches, purge counters | after path, after confirm, after sample |
| `cs-trace` | `src/cs-trace.c` | the traced program under ptrace | stand-alone front end to the same functions, then `fini_trace` |
| decoder glue | `src/stalker.c` | decoder's broadcast mode | init, decode, overflow query |
| utilities, boards | `src/utils.c`, `include/known-boards.h` | | CPU choice, code ranges, other parsing of `/proc` and sysfs, tables |

How they interact. AFL++ writes a request. The proxy passes it to the
forkserver, which forks a child that stops itself. `start_trace()` clears
buffers, publishes "not ready", programs ETM and sinks and signals the decoder
thread. The proxy tells AFL++ the pid and resumes the child. While it runs, its
trace moves through the ETF into the ETR. The upstream build pauses the child
when the ETR fills up, drains, and resumes it. When the forkserver relays the
exit, `stop_trace()` flushes and disables the sinks, signals the decoder and
waits for `decoder_ready`. Then the proxy either tries the same input again on
another child AFL++ never hears of (calibration, retry after an overflow,
hybrid's edge pass) or gives AFL++ the status.

What makes this hard to get right:

- four processes and two threads, joined by flags that outlive the attempt they
  belong to;
- AFL++ kills the child at any moment, in the middle of a drain too;
- calls that fail half way and leave flags, sinks or buffers as they are;
- several copies of one fact (branch broadcast in hardware, request and decoder;
  frequency in sysfs, cache and search; AFL++'s virgin map and its shadow);
- a cpufreq policy that must be put back although the proxy may die between any
  two writes.

Section 6 gives the properties that come out of this, and the `hazards` of
`PROJECT.json` the places in the code.

## 2. Modules

| Module | Models | Builds on |
|---|---|---|
| `TraceCore` | events, sinks, buffers, decoder thread, the child as the kernel shows it | |
| `TraceSession` | AFL++, proxy, forkserver around `TraceCore` | `TraceCore` |
| `AflContract` | abstract specification: what AFL++ relies on | |
| `CsTrace` | `cs-trace` and its program under ptrace around `TraceCore`, to the exported file | `TraceCore` |
| `TraceBuf` | ETR ring, trace buffer, decode and export, byte by byte | |
| `InitTrace` | choice of CPU and of code ranges, as pure operators | |
| `ProxyLife` | start-up, fork server protocol and the death of any process | `InitTrace` |
| `FreqGov` | the search of the frequency governor | |
| `EtmConfig` | what is programmed into the ETMs | |
| `ProxyLoop` | the attempts at a request, composed with governor and ETMs | `FreqGov`, `EtmConfig` |
| `FreqRestore` | the cpufreq policy, write by write, with signals and the guard | |
| `Hybrid` | hybrid coverage and the map AFL++ is shown | |
| `MCTraceSession`, `MCProxyLoop`, `MCHybrid` | instances for TLC | |
| `TraceSessionProofs`, `StalkerProofs` | proofs about `TraceSession` | |
| `ProxyLoopProofs`, `FreqRestoreProofs`, `HybridProofs`, `TraceBufProofs`, `CsTraceProofs` | proofs about the module each is named after | |
| `ProxyLifeProofs` | proofs about `ProxyLife`, and about both computations of `InitTrace` | |

The session and the loop are two views of the proxy. `TraceSession` has every
system call and critical section of one attempt, and lets further attempts
happen at will. `ProxyLoop` has the decisions between attempts, and takes an
attempt as two steps: up to SIGCONT, and from the exit on. `TraceSession` needs
from `ProxyLoop` only that the attempts at a request are bounded, which is
`AttemptsBounded` there. `ProxyLife` is a third view: it takes the trace calls
as steps that return, and has what the others leave out, the beginning and the
end of every process. `TraceBuf` is the same data path as in `TraceCore`, without
the threads and down to the byte. `TraceCore` treats a fetch and a decode as moves
of sets; the theorem `BytesMoveAsChunks` says that ring, buffer and pointers do
just that. The two state machines are not composed.

Operators whose comment begins with "Mutant" are not part of the specification.
They are deliberate mistakes, each of which must break a property.

## 3. How state and actions correspond to the code

**TraceCore, TraceSession.** Variables carry the names of the C variables. A
step is one critical section or one system call. Positions of the threads are
`dpc` (decoder), `ppc` (proxy) and `fpc` (forkserver). Trace data is a set of
chunks `<<pid, n>>`, so that a property can tell whose trace is where. A chunk
generated while the sinks are off never exists. `etf` counts chunks that a disable
still has to flush. The ETR is a ring of `EtrSize` chunks that overwrites its oldest
ones, and `rwp` is its write pointer with the wrap-around, because the drain test
compares it unsigned. `lost` (overwritten) and `unread` (met by a failing fetch) are
history variables of the attempt. `child`, `cstate`, `sigstop` and
`reported` are what `kill(2)` and `waitpid(2)` can observe: a zombie is found by
`kill(pid, 0)` and a reaped process is not, a SIGSTOP is acted on later, and a
SIGCONT cancels it. `st` is the pipe from the forkserver. `hidden` is the
`report_to_afl` argument of `start_and_resume()`. `Faults` says which calls may
fail. A failing `start_trace()` is modelled up to the point where it returns,
with what it has changed by then.

`decoding_on` is a state function: there is a decoder thread, or (with
`AFLCS_NO_DECODER`) none, from the initial state on.

**CsTrace.** `tpc` is the position in `parent()`, `stop_trace()` or
`fini_trace()`. Under ptrace a signal stops the program as "trapped", which only
PTRACE_CONT ends, and `parent()` sends that twice and never again. `how` is what
waitpid() would say. If the program is gone before its first SIGSTOP, or
`init_trace()` fails, which `parent()` does not look at, it goes on without an
initialised trace ("uninit"). The model stops there.

**TraceBuf.** A byte is its number in the trace of the attempt, so order and
completeness can be told. `ring`, `rwp` and `wrapped` are the ETR's memory, write
pointer and Full bit, pointers are offsets into `trace_buf`, and `clean` says
that no call has failed since the ETR was last empty. Opening the u-dma-buf,
mmap, mremap, reading the write pointer, a read, a decode and the export may fail. When
the write pointer cannot be read, the direct mode empties the ETR without having read
anything, and goes on. The three properties speak of clean
attempts, so what the run shows about failures is that they do not reach into
a later attempt that starts with an empty ETR. Where a stale pointer or a
negative size would be used, the model goes to "crashed".

**InitTrace, ProxyLife.** `TraceCpu` and `setup_map_info` are the computations of
`init_trace()`: a core list is read token by token, and a range counts as its
first CPU; `preferred_cpu` is assigned a comparison; the loop over the map lines is
a recursive function, `map_info` after each line. In `ProxyLife`, `ppc`, `fpc` and `cst` are the positions of proxy,
forkserver and child. `writers` is who holds the write end of the status pipe: a
read comes to the end of file when nobody does, and the child does until it is
continued for the first time. A child that loses its forkserver before it has
stopped is an "orphan", and "leaked" once it stops. `child_pid` is what the proxy read
as a pid; the status of a child that was gone too early is taken for one, and 0 ends
the loop of `main()`.

**FreqGov, EtmConfig, ProxyLoop.** `cur_idx`, the counters and `freq_interval`
are the statics of `freq_gov.c`; `freq` is what sysfs holds. `pc` is the position
in `__afl_next_testcase()` or in the loop of `main()`. `AttemptResult` is the
whole body of that loop: stop, restore the maximum, ask `should_retry()`, tell
`on_result()`, then ask `at_floor()`, in the order of the code. `etm` is the
programmed state (started, broadcast bit, context ID, filter), `synced` records
whether the ETM was started in this window, since that is where a decoder can
synchronise. `LoopFaults` are a failing fork, a failing broadcast switch and a failing
stop: the forkserver is gone (`fsrv_gone`), or the fetch of a `stop_trace()` without
decoder fails. In a ramp that counts as an overflow (`CalibrationShotFails`), elsewhere
it ends the proxy.

**FreqRestore.** Every write to one of the four sysfs files is a step. The kernel
refuses bounds that cross and speeds without the userspace governor, and the
code ignores refusals. The main thread, a signal handler on either thread, exit,
SIGKILL and the guard process interleave freely. `writers` is who has the write end of
the guard's pipe open: the guard itself has a copy from fork() until it closes its
files, and it wakes when there is no writer left. Until it ignores signals, one to the
process group may end it (`GuardSignalled`).

**Hybrid.** A raw path map is an element of `Maps` with a checksum in two halves
and the bits it classifies to; an edge map is a set of bits. A pass that loses trace
leaves the path map of another path, or one of the edge maps in `Partial`. After an
overflow packet `trace_did_overflow()` says so; a decode that fails without one and a
trace longer than the ETR pass for whole ("cut"). `shown`, `told` and `evicted` are
history variables on AFL++'s side; `path_cut` and `spoiled` record which cache slots
were filled after a cut pass.

## 4. Runs

| Run | Question | Result |
|---|---|---|
| `session_stalker` | Stalker build, with a decoder that may fail or without one, hidden attempts, timeouts: is every request answered with the trace of exactly its last attempt, all of it unless the decode failed or the ETR overwrote it? Does nothing of another attempt get in after a decode that failed half way? Is the decoder back in step? Is `AflContract` implemented? | holds (14619 states) |
| `session_drains` | upstream build with drains, targets that hang, kills in mid-drain: is the map of one attempt only, are the sinks collected, can somebody always take a step (`NobodyStuck`)? | holds (8706) |
| `session_faults` | every call may fail, in drains too: does the map move while AFL++ reads it? | holds (525329) |
| `loop_governor` | three coverage modes, with and without decoder, governor, calibration, PID filter; forks, stops and broadcast switches fail | holds (1046556) |
| `freq_restore` | death, signals, exit at any write to sysfs | holds (1295351) |
| `hybrid_maps` | steady and unsteady targets, overflows, traces cut without one, colliding slots and checksums, purges | holds (2102850), with the exceptions stated in the properties |
| `trace_buf` | wraps, growth, reuse, drains, failing calls: does the decoder, and the file, get exactly the bytes of the attempt in order? | holds for attempts without a failing call (80354) |
| `cs_trace` | signals, drains, failing calls: does `cs-trace` end, with the program's trace in the file? | holds (3717), with one exception stated in the property |
| `proxy_life` | any process dies at any point: does anybody stay behind, waiting or stopped? Is the CPU one the machine has, and are the ranges the right ones? | holds (473), with one exception stated in the properties |
| `session_stale_stop` | upstream build, a decode fails in a drain | finding 1 |
| `session_hidden_hang` | a hidden attempt hangs | finding 2 |
| `loop_floor` | is an overflow that is reported one at the floor? | finding 3 |

Run one with `tlc -workers 2 -config SessionStalker.cfg MCTraceSession`.

**Bounds.** Two pids suffice to tell one attempt's trace from another's, and
three allow a hidden attempt between two that AFL++ knows of. Up to three chunks
per child allow trace before, in and after a drain. The passing runs have an ETR of
two chunks, so that a child with three overwrites it and the write pointer wraps; the
two session findings have one of five, so that they owe nothing to overwriting. `DrainAt` is 0, so
a drain is possible after each chunk. Sessions are not bounded: AFL++ may go on
for ever, and the state space is finite all the same. The governor's counters
grow, so `ProxyLoop` stops taking requests after `MaxExecs` counted executions; eight are enough to use all
retries, run at the floor, complete windows and adapt their length. The table
has six rungs, so the last retry (`MaxRepetition` is 3) can end above, on and
one above the floor. `FreqRestore` has three frequencies, which is what it takes
for bounds to cross in both directions. `Hybrid` runs four inputs over three
keys and five path maps. One input slot makes all keys collide, and map 4 has the
two halves of its checksum from two other maps. `TraceBuf` has an ETR of two
frames, a default buffer of three and up to four frames per attempt, so that the
ring wraps once and twice and the buffer must grow. `CsTrace` drains above one
chunk and generates three. `ProxyLife` needs no bound. `InitTrace` is evaluated
for all machines of up to four CPUs with every partition into cores, every
affinity and every set of pinned CPUs, and for all mappings of up to four lines.

`loop_governor`, `loop_floor` and `hybrid_maps` stop when their bound of
executions is reached; in `session_faults` and `loop_governor` the proxy may die;
a policy that was restored stays restored; a trace that was exported, and a
process that is dead, stay so. `session_hidden_hang` is about a session that
stops. These runs do not check for deadlock. All other session runs do.

**Symmetry.** Pids are interchangeable; the runs that check safety only use it.

**Fairness.** Decoder, proxy and forkserver are scheduled (weak fairness), and a
SIGSTOP is delivered eventually. Whether `decide` leads to another attempt or to
the end of the request is open in `TraceSession`; strong fairness of
`ReportedAttempt` and `EndTestcase` says that attempts are finitely many, which
is `AttemptsBounded` in `ProxyLoop`. `TerminatingSpec` also lets targets
terminate. `HangingSpec` does not, and instead lets AFL++ kill what it was told
of. In `FreqRestore` only the guard is assumed to run: the proxy may stop
anywhere, with the guard not yet past its fork too. In `CsTrace` both threads are scheduled, and the program owes nobody an
exit. In `ProxyLife` the processes are scheduled and AFL++ sends requests as long
as it is there; deaths are never assumed. Of the hardware it is assumed that a disable flushes the ETF
into the ETR and that the ETR keeps the latest trace it was given; that a run fits the
ETR is not assumed.

## 5. Findings

1. **Stale stop event** (`common.c:239`). A decode that fails in a drain ends
   `trace_sink_polling()` without consuming the stop event of the attempt. The
   next attempt's decoder takes it for its own, fetches before the sinks are
   flushed, and publishes ready. Only the upstream build drains; `DecoderStaysInStep`
   proves that no event is left over in either build if such decodes, affinity
   changes and disables succeed.
2. **Hidden attempts have no timeout** (`cs-proxy.c:396`). AFL++ kills the pid it
   was told, never that of a hidden attempt, so one that hangs blocks the
   request for ever.
3. **No run at the floor** (`cs-proxy.c:730`). `at_floor()` is asked after
   `on_result()` has moved the search. If the last retry ran one rung above the
   floor and overflowed, the forced run is skipped.

Noted while modelling, without a run of their own: the forced run at the floor
still feeds `on_result()`, although the comment at `freq_gov.c:478` calls it no
evidence. It pins `freq_table[0]`, not `system_min`. A purge forgets paths in
`virgin_atom` but not in the checksum filter, so a filtered path is not confirmed
again. Every exit signals `suspend_pending`; the upstream build's next drain may
consume that instead of its own, and drain while the child still runs
(`TracedWhileRunning` is therefore claimed for the Stalker build only).
A failing `start_trace()` is not looked at by the proxy: the child then runs, and
`stop_trace()` waits for a decoder that was never started (`session_faults`
checks safety only).

The Stalker build never drains (`common.c:277`), so a run longer than the ETR
overwrites the beginning of its own trace. What is left decodes with success, and
neither `trace_did_overflow()` nor a return value tells the proxy: the overflow packets
it looks for come from the ETM's FIFO, not from the ETR. `CompleteMap`, `FileIsTrace` and
`AflContract` say how much is kept (at least the latest `EtrSize` chunks), and promise
the whole trace only for a run that fits.

"A truncated trace on either pass would pin the wrong edges to this path"
(`hybrid.c:376`) is guarded by the overflow flags alone. A pass cut in another way, by
a decode that failed or by the ETR, is cached; `CacheExact` excepts the slots filled
after one.

After an overflow in either pass of a confirmed input AFL++ is shown the edge map
but nothing remembers it (`hybrid.c:375`), so the re-run gets an empty map, which
the header of `hybrid.c` (lines 15-19) means to avoid; `RerunNotEmpty` therefore
excludes overflows and cut passes. It also supposes that every path has edges: an edge pass that
comes back empty is remembered like any other.

`__afl_next_testcase()` returns a `u32`: its -1, and the 1 of a failed read from
AFL++ ("Abort if read fails", `cs-proxy.c:510`), both keep `main()` in its loop,
where it waits for the status of a child nobody started. This is also what
happens after `init_trace()` fails.

`cs-trace` does not call `trace_child_exited_callback()`: a drain that begins when
the program exits leaves the decoder waiting, and `stop_trace()` for the decoder
(`TraceEnds`), although the repository's README has the trace generated "After the target
exited" (`README.md:79`) without exception. A drain stops the program for good, since SIGCONT does not end a
ptrace stop; a program killed by a signal leaves `parent()` in its loop.

`common.c:1034` assigns the comparison `find_free_cpu() < 0`, so CPU 0 is used
when there is a free CPU, whichever it is, and CPU 1 when there is none (the
warning says 0). `common.c:1088` falls back to CPU 1 when the decoder's CPU is the
traced one, even if that is CPU 1. `get_preferred_cpu()` returns a CPU outside
the groups of the process's CPUs. Its comment (`utils.c:329`, "in the same group") and
its caller's (`common.c:1084`, "The tracee process and the decoder thread should be in
the same CPU core group") want one inside; nor is it always outside, since of a range
"a-b" in a core list only a is read. `TraceCpuOnline` therefore claims neither,
and says only that the CPU exists. A positive result of
`pthread_create()` is returned as it is, and the callers test for `< 0`.

## 6. What is proved

TLAPS checks every proof in the eight proof modules. The assumptions are the
`ASSUME`s of the modules, which TLC evaluates in the runs of the modules that declare them.

**Session, every build, whatever fails** (`TraceSessionProofs`). The inductive
invariant `SessionInv` has five parts. `TypeOK` is the first. `Handshake`: the
decoder works exactly from the start event to `decoder_ready`, on this child.
`PipeInStep`: for every position of the proxy, what is in both pipes and what
state the child is in. `AflInStep`: AFL++ is idle only when the proxy is.
`EtfOfChild`: the ETF holds trace of the current child only. `MapFrozen` alone
is not inductive: that nobody writes the map while AFL++ reads it rests on the
handshake, the handshake on the pipes (who may be in `stop_trace()`), and the
pipes on the ETF, because a drain must not continue a child that has not been
started. Theorems: `TypeCorrect`, `MapStaysFrozen`.

**Session, every build, when events are kept** (`TraceSessionProofs`), with or
without drains and with or without a decoder. `EventsKept` assumes of the calls
that only resets and enables may fail, and decodes in the Stalker build. The
others leave something of an attempt to the next one: a decode that fails in a
drain leaves the stop event (finding 1), a disable that fails leaves trace in the
sinks, a fetch that fails leaves it in the ETR, and a failing change of affinity returns from `start_trace()` before buffer
and map are cleared. `OwnInv` adds to
`SessionInv` that a stop event is consumed by the decoder it was meant for
(`StopConsumed`), that the ETR is empty outside the attempt that fills it
(`EtrEmptied`), and that ETR, buffer and map hold chunks of the child only
(`OwnTrace`). `OwnTraceOnly` needs all three: the map is own if the buffer was, the
buffer if the ETR was, and the ETR because the last attempt's decoder did not leave
before its sinks were flushed, that is because it did not take an older stop.
Theorems: `MapIsOwn`, `SinksAreCollected`, `DecoderStaysInStep`.

**Nobody waits for ever on somebody who waits** (`TraceSessionProofs`).
`NoCircularWait` proves `NobodyStuck`: as long as AFL++ has no answer, the proxy,
the decoder, the forkserver or the child can take a step, in the middle of a drain
and after a kill too. The guards of the actions are written out (`ProxyMoves` and
so on), as ENABLED is outside the prover's reach. `SessionsStart` assumes that a
started attempt starts: after a failed `start_trace()` the proxy does wait for a
decoder that never began (section 5). `WaitInv` adds `HiddenInStep`,
`SuspendInStep` (a decoder that waits for the child's stop has a SIGSTOP, a report
or an event under way, whoever has killed the child meanwhile) and `EventsInStep`
(the decoder has been told of the attempt, and of its end). This is the safety half of `RequestAnswered`; that
steps which can be taken lead to the answer is checked by TLC.

**Session, Stalker build** (`StalkerProofs`), assuming `StalkerBuild` (the Stalker
decoder is built in, and only decodes may fail), with a decoder thread or without.
The invariant adds to the ones above `NeverDrains`, `SinksInStep` (on exactly from
enable to disable) and `TraceInStep` (the trace is in the ETR, then in `trace_buf`,
then in the map, but for what the ETR has overwritten, which is a prefix of the run).
Nothing is assumed about the length of a run. Theorems: `ChildIsTraced`, `SinksStayOff`,
`MapIsComplete` (all of the trace unless the decode failed or the ETR overwrote it, only
what `EtrSize` later chunks followed is overwritten, and nothing else gets in), and
`ContractIsImplemented`: every step of the session is a step of `AflContract` or
leaves it unchanged. These are not claimed for the build with drains, where the
sinks are off in the middle of a run and a drain may find the child running
(section 5).

**Loop** (`ProxyLoopProofs`), for every ascending table
of frequencies, every limit and all faults. `LoopInv` adds to the types
`Course` (which mode can be where, and that a proxy whose forkserver is gone runs
no further attempt), `Children`, `Etm`, `Broadcast`, `Attempts`,
`Frequency` and `Settled`. The frequency part is inductive only together with
the cache of `set_freq()` and the pending floor request, and `Settled` bounds
the sum of window positions so that its rounded mean is an index. Theorems:
`LoopTypeCorrect`, `OneChildPerAttempt`, `AttemptsAreBounded`, `EtmStaysInStep`,
`BroadcastFitsMode`, `FreqStaysInStep`, `RetriesAreSlower`, `GovernorStaysOff`,
`SettledIsInTable`.

**Policy** (`FreqRestoreProofs`), for every range of frequencies and every set of
governors. That the guard restores is a statement about the last of up to five
writes, each of which the kernel may refuse, made over whatever a dying proxy left
behind. `FreqInv` therefore says what holds half way: `Saved` (the list of writes
to undo is complete before anything is changed), `GuardAlone` (once the proxy is
dead only the guard writes, since a live proxy holds the pipe the guard waits on; which
fields are right after its n-th write), and
`MainAlone` (the same for the main thread's list, until a handler joins in). No
write of the list is refused, because it lowers the minimum to the system's first,
then sets the maximum, then the minimum. Theorems:
`FreqTypes`, `GuardRestoresPolicy`, `ExitRestoresPolicy`, `SkippedWritesAreDone`.

**Hybrid coverage** (`HybridProofs`), for every target, cache size and checksum
function, assuming finite maps (`BitsAssumption`) and ordered purge levels.
`HybridInv` adds `Kept` (which input and path are being confirmed, and whether the path
pass was cut), `EntriesOld`
(every map a cache may answer with consists of edges in `virgin_edge`, that is
shown before or in the map about to be shown),
`InputsKept` (an input AFL++ was told of stays remembered until its slot is taken)
and `PurgesCounted`. Theorems:
`HybridTypes`, `DiscardShowsNothingNew`, `ShadowFollowsAfl`, `CacheHoldsWholeMaps` (but for the
slots filled after a cut pass), `RerunKeepsEdges`, `PurgeIntervalInRange`.

**Trace buffer** (`TraceBufProofs`), for every alignment, frame, ETR and buffer
size with the ETR a whole number of frames and a frame a whole number of aligned
units. `BufInv`: in an attempt without a failed call the ring holds the last
captured bytes at the place the write pointer implies (`RingHolds`), `trace_buf`
holds without a gap those captured before (`BufHolds`), the decoder was given those
up to the decode pointer (`GivenOK`), and the caller is on no error path and has an
empty ETR from the last fetch on (`CallerOK`). `OneDoubling` shows that the growth loop of `fetch_trace()` ends
after one doubling. Theorems: `PointersStayInBuffer` (failed calls included),
`DecoderGetsWholeTrace`, `FileIsWholeTrace`, and the action property
`BytesMoveAsChunks`: no byte is in two places, a frame goes to the ETR, a fetch
moves all the ETR has to the buffer and a decode all of that to the decoder. With
`InEtr`, `InBuf` and `Decoded` for `etr`, `buf` and `bitmap` these are `fetch_trace`
and `decode_trace` of `TraceCore`.

**cs-trace** (`CsTraceProofs`), either build, drains included, whatever fails.
`FileIsTrace` is not inductive because of the drains, which move trace while the
program may still write some. `CsInv` rests on two facts: a drain begins only in a
program that stays stopped, or once `fini_trace()` has set its event (`Course`,
`Events`); and until the export every chunk of a started trace that left the ETF is
in the ETR, in `trace_buf` or decoded, was overwritten, or was met by a failing fetch,
unless the program is stuck or the flush failed (`Whole`). Theorem: `ExportIsTrace`.

**Life of the processes** (`ProxyLifeProofs`). `LifeInv` has who holds the status
pipe (`PipeHeld`), what is left when the forkserver is dead (`NobodyStranded`), and
for each place of the proxy the words the pipe may hold and the places of
forkserver and child that go with them (`WordsInStep`). The last is needed by the
others: a stop that belongs to another run would make the proxy continue a child
that still holds the pipe. Theorems: `DeathStrandsNobody`, the safety half of
`ForkserverDeathEnds` and `ProxyDeathEnds`, and `RunsStayApart`: at each request
the last run has left neither word nor child, and what is read as the pid is no
status of an older run.

**Computations of init_trace()** (`ProxyLifeProofs`). `TracesOnline`: on a machine
with any number of CPUs, any partition into cores and any affinity, `init_trace()`
chooses a CPU the machine has, although a comparison may stand in for it. `RangesStayExact`: for every
list of mappings and every `RANGE_MAX`, `map_info` holds the first executable files
and the library asked for. The loop of `setup_map_info()` is a recursive function;
`LoopRuns` shows that it exists and `EveryTurn` what it holds after each line, both
by a least line at which the claim fails. TLC evaluates both formulas for up to
four CPUs and four lines.

**Only model-checked.** Liveness (`RequestAnswered`, `EventuallyRestored`,
`TraceEnds`, `ForkserverDeathEnds`, `ProxyDeathEnds`) is outside what the prover
handles. Every invariant, action property and refinement that a passing run checks is also the
statement of a theorem, under the assumptions given above.

## 7. What is not modelled

- The rest of `init_trace()`: board look-up, trace ID, u-dma-buf, set-up of CSAL
  and of the decoders succeed or fail as one.
- Command line and environment of both programs, and what the target is passed
  (`CS_PASS_ENV`, `LD_PRELOAD`).
- A `stop_trace()` that fails inside a calibration ramp (`HiddenRunsAssumption` of
  `TraceSession`): the ramp goes on with the decoder still in its attempt.
- The `cs_shutdown()` of an `enable_cs_trace()` that fails (`common.c:765`): the sinks
  stay as they are.
- Stops by signals other than SIGSTOP. The forkserver takes one for the end of the
  child (`libforksrv.c:130`).
- A second proxy that starts while the guard of a killed one still restores.
- Reading sysfs, and sorting the table of frequencies: `FreqGov` takes a strictly
  ascending table. (The two-entry fallback is not strictly ascending if minimum
  and maximum are equal.)
- Register values, address ranges and formatter bits; the decoder itself; dumps,
  the export of decoder arguments and the ptrace helpers in `utils.c`; the board
  tables. They hold no state that an order of steps could disturb.

## 8. Plan

Done, in this order: `TraceCore`, `TraceSession`, `AflContract`; `FreqGov`,
`EtmConfig`, `ProxyLoop`; `FreqRestore`; `Hybrid`; the proofs of the session and
of the loop; `TraceBuf`; `CsTrace`; `InitTrace` and `ProxyLife`; the proofs of
`Hybrid`, `FreqRestore`, `TraceBuf`, `CsTrace` and of the choice of CPU; those of
the session with drains and without a decoder, of `NobodyStuck`, of the code ranges
and of the life of the processes.

Next:

1. Failures inside a calibration ramp in `TraceSession`, which need a weaker
   `Handshake`: the decoder is then left in the middle of an attempt.
2. A second proxy in `FreqRestore`.
