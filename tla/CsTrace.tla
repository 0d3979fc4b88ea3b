-------------------------------- MODULE CsTrace --------------------------------
(***************************************************************************)
(* cs-trace: one program, traced once.  parent() of src/src/cs-trace.c     *)
(* runs the program under ptrace(2), with start_trace(), stop_trace() and  *)
(* fini_trace() of common.c, next to the decoder thread of TraceCore.      *)
(*                                                                         *)
(* Under ptrace every signal stops the program until the tracer continues  *)
(* it: "trapped" in TraceCore, where SIGCONT has no effect.  parent()      *)
(* continues it twice, after execve() and after the SIGSTOP that           *)
(* libforksrv raises, and never again.                                     *)
(***************************************************************************)
EXTENDS TraceCore

VARIABLES
  tpc,      \* where cs-trace's main thread is
  how,      \* how the program ended, or the signal it is trapped by
  started,  \* did start_trace() succeed?
  flushed,  \* did the disable in stop_trace() succeed?
  file      \* cstrace.bin

frontVars == <<tpc, how, started, flushed, file>>
vars == <<coreVars, frontVars>>

\* The program was forked and stops at execve().
Init ==
  /\ CoreInit /\ cstate = "trapped"
  /\ tpc = "exec" /\ how = ""
  /\ started = FALSE /\ flushed = FALSE /\ file = {}

-----------------------------------------------------------------------------
(* The program, as waitpid(2) shows it to its tracer.                      *)

\* A signal arrives, the decoder's SIGSTOP among them.
ProgramTraps ==
  /\ cstate = "running" /\ cstate' = "trapped" /\ reported' = FALSE
  /\ \/ how' \in {"SIGSTOP", "signal"} /\ UNCHANGED sigstop
     \/ sigstop /\ sigstop' = FALSE /\ how' = "SIGSTOP"
  /\ UNCHANGED <<eventVars, decoder_ready, dpc, child_pid, init_pos, sinks, dataVars,
                 child, emitted, tpc, started, flushed, file>>

\* It exits, or SIGKILL ends it.
ProgramEnds ==
  /\ cstate = "running" /\ Die
  /\ how' \in {"exit", "signal"}
  /\ UNCHANGED <<eventVars, decoder_ready, dpc, child_pid, init_pos, sinks, dataVars,
                 tpc, started, flushed, file>>

ProgramRuns == (ChildRuns \/ EtfDrains) /\ UNCHANGED frontVars

-----------------------------------------------------------------------------
(* parent().                                                               *)

At(from, to) == tpc = from /\ tpc' = to

\* Two waits, a continue and init_trace().  If the program is gone before its
\* SIGSTOP, or init_trace() fails, parent() goes on without an initialised trace.
WaitForSigstop ==
  /\ At("exec", "init") \/ At("exec", "uninit")
  /\ UNCHANGED <<coreVars, how, started, flushed, file>>

\* start_trace(): the program is trapped and the decoder waits for its event.
StartTrace ==
  /\ tpc = "init" /\ tpc' = "cont" /\ UNCHANGED <<init_pos, stop_pending, dpc>>
  /\ UNCHANGED <<suspend_pending, fini_pending, childVars, how, flushed, file>>
  /\ \/ /\ enable_cs_trace /\ child_pid' = child
        /\ decoder_ready' = ~decoding_on
        /\ signal_event(start_pending) /\ started' = TRUE
     \/ /\ MayFail("affinity") \/ (MayFail("reset") /\ decoding_on) \/ MayFail("enable")
        /\ sinks' \in {sinks, MayFail("enable")}
        /\ UNCHANGED <<start_pending, decoder_ready, child_pid, dataVars, started>>

\* PTRACE_CONT: whatever start_trace() returned.
ContinueProgram ==
  /\ At("cont", "wait") /\ cstate' = "running"
  /\ UNCHANGED <<eventVars, decoder_ready, dpc, child_pid, init_pos, sinks, dataVars,
                 child, sigstop, reported, emitted, how, started, flushed, file>>

\* The loop: an exit ends it, a SIGSTOP is passed to the decoder, another stop is
\* left alone, and after a death by signal waitpid() fails for ever.
WaitForProgram ==
  /\ tpc = "wait"
  /\ \/ /\ cstate = "zombie" /\ cstate' = "reaped"
        /\ tpc' = IF how = "exit" THEN "disable" ELSE "spin"
        /\ UNCHANGED <<suspend_pending, reported>>
     \/ /\ cstate = "trapped" /\ ~reported /\ reported' = TRUE
        /\ suspend_pending' = (suspend_pending \/ how = "SIGSTOP")
        /\ UNCHANGED <<cstate, tpc>>
  /\ UNCHANGED <<start_pending, stop_pending, fini_pending, decoder_ready, dpc, child_pid,
                 init_pos, sinks, dataVars, child, sigstop, emitted, how, started,
                 flushed, file>>

\* stop_trace(): its result is not looked at, fini_trace() follows.
StopDisables ==
  /\ \/ At("disable", "signalStop") /\ disable_cs_trace /\ flushed' = TRUE
     \/ At("disable", "fini") /\ disable_cs_trace_fails /\ UNCHANGED flushed
  /\ UNCHANGED <<eventVars, decoder_ready, dpc, child_pid, init_pos, childVars, how,
                 started, file>>

StopSignals ==
  /\ decoding_on /\ At("signalStop", "waitReady")
  /\ signal_event(stop_pending)
  /\ UNCHANGED <<start_pending, suspend_pending, fini_pending, decoder_ready, dpc,
                 child_pid, init_pos, sinks, dataVars, childVars, how, started,
                 flushed, file>>

StopWaits ==
  /\ At("waitReady", "fini") /\ decoder_ready
  /\ UNCHANGED <<coreVars, how, started, flushed, file>>

\* Without a decoder both stop_trace() and fini_trace() fetch.
FetchesItself ==
  /\ ~decoding_on
  /\ At("signalStop", "fini") \/ At("fini", "export")
  /\ fetch_trace \/ fetch_trace_fails
  /\ UNCHANGED <<eventVars, decoder_ready, dpc, child_pid, init_pos, sinks, childVars,
                 how, started, flushed, file>>

\* Mutant: fini_trace() leaves the decoder to find out by itself.
FiniWithoutSignal ==
  /\ decoding_on /\ At("fini", "join")
  /\ UNCHANGED <<coreVars, how, started, flushed, file>>

\* fini_trace() with a decoder: the event stays set, every wait_event() returns.
FiniSignals ==
  /\ decoding_on /\ At("fini", "join")
  /\ signal_event(fini_pending)
  /\ UNCHANGED <<start_pending, suspend_pending, stop_pending, decoder_ready, dpc,
                 child_pid, init_pos, sinks, dataVars, childVars, how, started,
                 flushed, file>>

FiniJoins ==
  /\ At("join", "export") /\ dpc = "done"
  /\ UNCHANGED <<coreVars, how, started, flushed, file>>

\* export_trace() writes all that was fetched, decoded or not; then everything is
\* released.
FiniExports ==
  /\ At("export", "done")
  /\ file' = bitmap \cup buf
  /\ etr' = {} /\ rwp' = 0 /\ buf' = {}
  /\ UNCHANGED <<eventVars, decoder_ready, dpc, child_pid, init_pos, sinks, etf, bitmap, lossVars,
                 childVars, how, started, flushed>>

ParentStep ==
  \/ WaitForSigstop \/ StartTrace \/ ContinueProgram \/ WaitForProgram
  \/ StopDisables \/ StopSignals \/ StopWaits \/ FetchesItself
  \/ FiniSignals \/ FiniJoins \/ FiniExports

Next ==
  \/ DecoderStep /\ UNCHANGED frontVars
  \/ ProgramRuns \/ ProgramTraps \/ ProgramEnds
  \/ ParentStep

\* Both threads are scheduled; the program owes nobody an exit.
Spec ==
  /\ Init /\ [][Next]_vars
  /\ WF_vars(DecoderStep /\ UNCHANGED frontVars) /\ WF_vars(ParentStep)

-----------------------------------------------------------------------------
\* "After the target exited, it generates the raw CoreSight trace binary": once
\* start_trace() has succeeded, a program that exits has its trace exported and
\* the decoder thread is joined, even if the disable or the decode fails.  The one
\* exception is a drain that began when the program was about to exit: parent()
\* does not call trace_child_exited_callback(), and the decoder waits for good.
TraceEnds ==
  started /\ cstate = "zombie" /\ how = "exit" ~> tpc = "done" \/ [](dpc = "waitSuspend")

\* The exported file is the trace of the program: when the trace was started and
\* the sinks could be flushed, all of it but what the ETR overwrote (before the
\* latest EtrSize chunks) and what only failing fetches found in it, whether a decoder
\* ran or not, whether it failed or not, and although the ETR is fetched up to twice.
FileIsTrace ==
  tpc = "done" =>
    LET ran == {child} \X (1..emitted)
    IN  /\ file \subseteq ran
        /\ started /\ flushed => file = ran \ (lost \cup unread)
        /\ \A c \in lost : c[2] + EtrSize <= emitted
=============================================================================
