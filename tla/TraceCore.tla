------------------------------ MODULE TraceCore ------------------------------
(***************************************************************************)
(* The part of src/src/common.c that both front ends share: the event      *)
(* flags, the sinks, the trace buffer and the decoder thread               *)
(* (decoder_worker, trace_sink_polling), together with the traced child as *)
(* the kernel shows it to them.  The front ends that start and stop the    *)
(* trace are TraceSession (cs-proxy and the forkserver) and CsTrace.       *)
(*                                                                         *)
(* Trace data is a set of chunks <<pid, n>>: the n-th piece of trace the   *)
(* process pid generates.  A chunk passes through the ETF into the ETR     *)
(* (when the hardware gets to it, or when a disable flushes the ETF), from *)
(* there to trace_buf (fetch) and into the coverage map (decode); a chunk  *)
(* generated while the sinks are off never exists.  The ETR is a ring: it  *)
(* overwrites its oldest chunks when it is full.  A step is one critical   *)
(* section or one system call.                                             *)
(***************************************************************************)
EXTENDS Naturals, FiniteSets

CONSTANTS
  Pids,         \* process identifiers the kernel hands out
  MaxChunk,     \* most chunks of trace one process generates
  Stalker,      \* built with AFLCS_STALKER_DECODER
  DrainAt,      \* decoding_threshold in chunks (without Stalker)
  EtrSize,      \* how many chunks the ETR has room for
  Faults        \* which calls may fail

FaultKinds == {"affinity", "reset", "enable", "disable", "fetch", "decode"}

ASSUME TraceCoreAssumption ==
  /\ MaxChunk \in Nat
  /\ EtrSize \in Nat \ {0}
  /\ DrainAt \in Nat
  /\ Stalker \in BOOLEAN
  /\ Faults \subseteq FaultKinds

VARIABLES
  start_pending, suspend_pending, stop_pending, fini_pending, \* ev_mutex
  decoder_ready,  \* trace_decoder_mutex
  dpc,            \* where the decoder thread is
  child_pid,      \* common.c's child_pid, the process start_trace() was given
  init_pos,       \* trace_sink_polling()'s local init_pos
  sinks,          \* are the trace sinks enabled?
  etf,            \* how many of the child's latest chunks are still in the ETF
  rwp,            \* the ETR's write pointer, in chunks from the buffer base
  etr,            \* the chunks in the ETR
  buf,            \* the chunks between decoded_trace_buf and trace_buf_ptr
  bitmap,         \* the chunks counted in trace_bitmap
  lost,           \* history: the chunks the ETR overwrote, and ...
  unread,         \* ... those a failing fetch_trace() left or threw away
  child,          \* the process forked last
  cstate,         \* its state
  sigstop,        \* is a SIGSTOP pending for it?
  reported,       \* has its parent seen its current stop?
  emitted         \* how many chunks it has generated

eventVars == <<start_pending, suspend_pending, stop_pending, fini_pending>>
lossVars == <<lost, unread>>
dataVars == <<etf, rwp, etr, buf, bitmap, lossVars>>
childVars == <<child, cstate, sigstop, reported, emitted>>
coreVars == <<eventVars, decoder_ready, dpc, child_pid, init_pos, sinks,
              dataVars, childVars>>

Chunk == Pids \X (1..MaxChunk)
\* The map byte cs-proxy sets itself when there is no decoder.
Dummy == <<"dummy", 0>>
DecoderPc == {"none", "waitStart", "begin", "initPos", "poll", "sigstop",
              "waitSuspend", "disable", "fetch", "enable", "sigcont", "decode",
              "waitStop", "lastFetch", "lastDecode", "exit", "done"}
\* "trapped" is a stop that a tracer sees: SIGCONT does not end it.
ChildState == {"selfstopped", "running", "stopped", "trapped", "zombie", "reaped"}

CoreTypeOK ==
  /\ start_pending \in BOOLEAN /\ suspend_pending \in BOOLEAN
  /\ stop_pending \in BOOLEAN /\ fini_pending \in BOOLEAN
  /\ decoder_ready \in BOOLEAN
  /\ dpc \in DecoderPc
  /\ child_pid \in Pids
  /\ init_pos \in 0..EtrSize-1 /\ rwp \in 0..EtrSize-1
  /\ etf \in 0..MaxChunk
  /\ sinks \in BOOLEAN
  /\ etr \subseteq Chunk /\ buf \subseteq Chunk
  /\ bitmap \subseteq Chunk \cup {Dummy}
  /\ lost \subseteq Chunk /\ unread \subseteq Chunk
  /\ child \in Pids
  /\ cstate \in ChildState
  /\ sigstop \in BOOLEAN /\ reported \in BOOLEAN
  /\ emitted \in 0..MaxChunk

\* init_trace() creates the decoder thread exactly if decoding_on is set; without
\* it (AFLCS_NO_DECODER, cs-trace without -d) the trace is only fetched.
decoding_on == dpc # "none"

\* init_trace() has run: the decoder thread waits for its first start event.
CoreInit ==
  /\ start_pending = FALSE /\ suspend_pending = FALSE
  /\ stop_pending = FALSE /\ fini_pending = FALSE
  /\ dpc \in {"waitStart", "none"} /\ decoder_ready = ~decoding_on
  /\ child \in Pids /\ child_pid = child
  /\ sigstop = FALSE /\ reported = FALSE /\ emitted = 0
  /\ init_pos = 0 /\ etf = 0 /\ rwp = 0 /\ sinks = FALSE
  /\ etr = {} /\ buf = {} /\ bitmap = {} /\ lost = {} /\ unread = {}

MayFail(call) == call \in Faults

-----------------------------------------------------------------------------
(* The traced child, as kill(2) and waitpid(2) show it.                    *)

\* kill(pid, 0) and kill(pid, sig) find a zombie, but not a reaped process.
Exists(pid) == pid = child /\ cstate # "reaped"

Fork(pid) ==
  /\ child' = pid /\ cstate' = "selfstopped" /\ sigstop' = FALSE
  /\ reported' = TRUE /\ emitted' = 0

\* The child runs on: its trace enters the ETF if the sinks are on.
ChildRuns ==
  /\ cstate = "running" /\ emitted < MaxChunk
  /\ emitted' = emitted + 1
  /\ etf' = IF sinks THEN etf + 1 ELSE etf
  /\ UNCHANGED <<eventVars, decoder_ready, dpc, child_pid, init_pos, sinks, rwp,
                 etr, buf, bitmap, lossVars, child, cstate, sigstop, reported>>

\* Chunk c was written to the ETR before chunk d.
Older(c, d) == IF c[1] = d[1] THEN c[2] < d[2] ELSE d[1] = child

\* What the ETR may hold of the chunks that were written to it: the latest ones.
Latest(written) ==
  IF Cardinality(written) <= EtrSize THEN {written}
  ELSE {s \in SUBSET written : /\ Cardinality(s) = EtrSize
                                /\ \A c \in written \ s, d \in s : ~Older(d, c)}

\* Mutant: the write pointer runs past the end of the ETR.
DrainWithoutWrap(n) ==
  LET written == etr \cup ({child} \X (emitted - etf + 1 .. emitted - etf + n))
  IN  /\ etr' \in Latest(written) /\ lost' = lost \cup (written \ etr')
      /\ rwp' = rwp + n /\ etf' = etf - n

\* The oldest n chunks of the ETF reach the ETR.
Drain(n) ==
  LET written == etr \cup ({child} \X (emitted - etf + 1 .. emitted - etf + n))
  IN  /\ etr' \in Latest(written) /\ lost' = lost \cup (written \ etr')
      /\ rwp' = (rwp + n) % EtrSize /\ etf' = etf - n

EtfDrains ==
  /\ etf > 0 /\ Drain(1)
  /\ UNCHANGED <<eventVars, decoder_ready, dpc, child_pid, init_pos, sinks, buf,
                 bitmap, unread, childVars>>

\* A signal is acted on some time after kill() returned.
ChildStops ==
  /\ cstate = "running" /\ sigstop
  /\ cstate' = "stopped" /\ sigstop' = FALSE /\ reported' = FALSE
  /\ UNCHANGED <<eventVars, decoder_ready, dpc, child_pid, init_pos, sinks,
                 dataVars, child, emitted>>

Die ==
  /\ cstate' = "zombie" /\ sigstop' = FALSE /\ UNCHANGED <<child, reported, emitted>>

ChildExits ==
  /\ cstate = "running" /\ Die
  /\ UNCHANGED <<eventVars, decoder_ready, dpc, child_pid, init_pos, sinks, dataVars>>

SendStop ==
  /\ sigstop' = (cstate = "running")
  /\ UNCHANGED <<child, cstate, reported, emitted>>

\* SIGCONT discards a pending SIGSTOP; a stop nobody has seen yet is forgotten.
SendCont ==
  /\ cstate' = IF cstate \in {"selfstopped", "stopped"} THEN "running" ELSE cstate
  /\ sigstop' = FALSE
  /\ UNCHANGED <<child, reported, emitted>>

-----------------------------------------------------------------------------
(* Helpers of common.c, used by the decoder thread and by the front ends.  *)

signal_event(flag) == flag' = TRUE

\* wait_event(): blocks until the flag or fini_pending is set, consumes the flag.
wait_event(flag) == (flag \/ fini_pending) /\ flag' = FALSE

\* Setting the ETR up may or may not keep what was left in it: the code never
\* relies on either.
enable_cs_trace ==
  /\ sinks' = TRUE
  /\ UNCHANGED <<etr, rwp>> \/ (etr' = {} /\ rwp' = 0)
  /\ UNCHANGED <<etf, buf, bitmap, lossVars>>

\* Errors are counted after the ETR was enabled, or before.
enable_cs_trace_fails ==
  MayFail("enable") /\ sinks' \in {sinks, TRUE} /\ UNCHANGED dataVars

\* Mutant: the capture is stopped without a flush.
DisableWithoutFlush == sinks' = FALSE /\ UNCHANGED dataVars

\* Flushes what is on its way, then stops the capture.
disable_cs_trace == Drain(etf) /\ sinks' = FALSE /\ UNCHANGED <<buf, bitmap, unread>>

\* Every one of the TRACE_DISABLE_TRIAL trials reported errors.
disable_cs_trace_fails ==
  MayFail("disable") /\ (disable_cs_trace \/ UNCHANGED <<sinks, dataVars>>)

\* Reads and empties the ETR.  A read that fails or comes back short is reported,
\* and a success all the same.
fetch_trace ==
  /\ \E part \in IF MayFail("fetch") THEN SUBSET etr ELSE {etr} :
       buf' = buf \cup part /\ unread' = (unread \cup etr) \ part
  /\ etr' = {} /\ rwp' = 0
  /\ UNCHANGED <<etf, bitmap, lost>>

\* The ETR cannot be mapped, or trace_buf cannot grow: the ETR keeps its chunks.
fetch_trace_fails ==
  /\ MayFail("fetch") /\ unread' = unread \cup etr
  /\ UNCHANGED <<etf, rwp, etr, buf, bitmap, lost>>

decode_trace ==
  /\ bitmap' = bitmap \cup buf /\ buf' = {}
  /\ UNCHANGED <<etf, rwp, etr, lossVars>>

\* The decoder stopped part of the way; decoded_trace_buf does not advance.
decode_trace_fails ==
  /\ MayFail("decode")
  /\ \E part \in SUBSET buf : bitmap' = bitmap \cup part
  /\ UNCHANGED <<etf, rwp, etr, buf, lossVars>>

-----------------------------------------------------------------------------
(* The decoder thread: decoder_worker() and trace_sink_polling().          *)

DecoderAt(from, to) == dpc = from /\ dpc' = to

decoder_worker ==
  /\ DecoderAt("waitStart", IF start_pending THEN "begin" ELSE "done")
  /\ wait_event(start_pending)
  /\ UNCHANGED <<suspend_pending, stop_pending, fini_pending, decoder_ready,
                 child_pid, init_pos, sinks, dataVars, childVars>>

PollingBegins ==
  /\ DecoderAt("begin", "initPos")
  /\ decoder_ready' = FALSE
  /\ UNCHANGED <<eventVars, child_pid, init_pos, sinks, dataVars, childVars>>

ReadInitPos ==
  /\ DecoderAt("initPos", "poll")
  /\ init_pos' = rwp
  /\ UNCHANGED <<eventVars, decoder_ready, child_pid, sinks, dataVars, childVars>>

\* curr_offset is unsigned: a write pointer behind init_pos is a huge offset.
AboveThreshold == ~Stalker /\ (rwp > init_pos + DrainAt \/ rwp < init_pos)

\* Mutant: the loop does not look whether the child is still there.
PollForever ==
  /\ dpc = "poll"
  /\ dpc' = IF AboveThreshold THEN "sigstop" ELSE "poll"
  /\ UNCHANGED <<eventVars, decoder_ready, child_pid, init_pos, sinks, dataVars,
                 childVars>>

Poll ==
  /\ dpc = "poll"
  /\ dpc' = IF ~Exists(child_pid) THEN "waitStop"
            ELSE IF AboveThreshold THEN "sigstop" ELSE "poll"
  /\ UNCHANGED <<eventVars, decoder_ready, child_pid, init_pos, sinks, dataVars,
                 childVars>>

SuspendChild ==
  /\ DecoderAt("sigstop", IF Exists(child_pid) THEN "waitSuspend" ELSE "waitStop")
  /\ IF Exists(child_pid) THEN SendStop ELSE UNCHANGED childVars
  /\ UNCHANGED <<eventVars, decoder_ready, child_pid, init_pos, sinks, dataVars>>

WaitSuspend ==
  /\ DecoderAt("waitSuspend", "disable")
  /\ wait_event(suspend_pending)
  /\ UNCHANGED <<start_pending, stop_pending, fini_pending, decoder_ready,
                 child_pid, init_pos, sinks, dataVars, childVars>>

DrainDisables ==
  /\ \/ DecoderAt("disable", "fetch") /\ disable_cs_trace
     \/ DecoderAt("disable", "exit") /\ disable_cs_trace_fails
  /\ UNCHANGED <<eventVars, decoder_ready, child_pid, init_pos, childVars>>

\* The drain looks neither at what fetch_trace() returns ...
DrainFetches ==
  /\ DecoderAt("fetch", "enable")
  /\ fetch_trace \/ fetch_trace_fails
  /\ init_pos' = rwp'
  /\ UNCHANGED <<eventVars, decoder_ready, child_pid, sinks, childVars>>

\* ... nor at what enable_cs_trace() does.
DrainEnables ==
  /\ DecoderAt("enable", "sigcont")
  /\ enable_cs_trace \/ enable_cs_trace_fails
  /\ UNCHANGED <<eventVars, decoder_ready, child_pid, init_pos, childVars>>

ContinueChild ==
  /\ DecoderAt("sigcont", IF Exists(child_pid) THEN "decode" ELSE "waitStop")
  /\ IF Exists(child_pid) THEN SendCont ELSE UNCHANGED childVars
  /\ UNCHANGED <<eventVars, decoder_ready, child_pid, init_pos, sinks, dataVars>>

DrainDecodes ==
  /\ \/ DecoderAt("decode", "poll") /\ decode_trace
     \/ DecoderAt("decode", "exit") /\ decode_trace_fails
  /\ UNCHANGED <<eventVars, decoder_ready, child_pid, init_pos, sinks, childVars>>

\* Mutant: the child's death is taken for the stop event.
SkipWaitStop ==
  /\ DecoderAt("waitStop", "lastFetch")
  /\ UNCHANGED <<eventVars, decoder_ready, child_pid, init_pos, sinks, dataVars,
                 childVars>>

WaitStop ==
  /\ DecoderAt("waitStop", "lastFetch")
  /\ wait_event(stop_pending)
  /\ UNCHANGED <<start_pending, suspend_pending, fini_pending, decoder_ready,
                 child_pid, init_pos, sinks, dataVars, childVars>>

LastFetch ==
  /\ DecoderAt("lastFetch", "lastDecode")
  /\ fetch_trace \/ fetch_trace_fails
  /\ UNCHANGED <<eventVars, decoder_ready, child_pid, init_pos, sinks, childVars>>

LastDecode ==
  /\ DecoderAt("lastDecode", "exit")
  /\ decode_trace \/ decode_trace_fails
  /\ UNCHANGED <<eventVars, decoder_ready, child_pid, init_pos, sinks, childVars>>

PollingEnds ==
  /\ DecoderAt("exit", "waitStart")
  /\ decoder_ready' = TRUE
  /\ UNCHANGED <<eventVars, child_pid, init_pos, sinks, dataVars, childVars>>

DecoderStep ==
  \/ decoder_worker \/ PollingBegins \/ ReadInitPos \/ Poll
  \/ SuspendChild \/ WaitSuspend \/ DrainDisables \/ DrainFetches
  \/ DrainEnables \/ ContinueChild \/ DrainDecodes
  \/ WaitStop \/ LastFetch \/ LastDecode \/ PollingEnds

ChildStep == ChildRuns \/ EtfDrains \/ ChildStops \/ ChildExits
=============================================================================
