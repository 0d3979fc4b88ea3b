----------------------------- MODULE TraceSession -----------------------------
(***************************************************************************)
(* One fuzzing session: AFL++, afl-cs-proxy's main thread (cs-proxy.c with *)
(* start_trace() and stop_trace() of common.c), the forkserver inside the  *)
(* target (libforksrv.c), the decoder thread and the child (TraceCore).    *)
(*                                                                         *)
(* Each request of AFL++ is one or more attempts: under Stalker the proxy  *)
(* also runs the input on children that AFL++ never hears of (calibration  *)
(* before the reported one; the frequency governor's retries and the       *)
(* hybrid mode's second pass after it).  FreqGov says when; here a hidden  *)
(* attempt is simply possible, if HiddenRuns is TRUE.                      *)
(* A child always reaches the SIGSTOP it raises after fork().  What the    *)
(* hybrid mode does to the map between two attempts is not part of this    *)
(* module: the map here is the decoder's.                                  *)
(***************************************************************************)
EXTENDS TraceCore, Sequences

CONSTANT HiddenRuns  \* may the proxy run hidden attempts?

\* Calibration takes a stop_trace() that fails for an overflow and goes on, where
\* every other attempt ends main(): with hidden runs the disable does not fail.
ASSUME HiddenRunsAssumption ==
  /\ HiddenRuns \in BOOLEAN
  /\ HiddenRuns => Stalker /\ "disable" \notin Faults

VARIABLES
  afl,      \* AFL++: "idle" (reads the map), "requested", "running" (has a pid)
  aflPid,   \* the pid AFL++ read last
  ppc,      \* where the proxy's main thread is
  hidden,   \* is this attempt not reported to AFL++?
  ctl,      \* is there a request in the pipe to the forkserver?
  st,       \* the pipe from the forkserver
  fpc       \* where the forkserver is

proxyVars == <<ppc, hidden>>
aflVars == <<afl, aflPid>>
pipeVars == <<ctl, st, fpc>>
vars == <<coreVars, proxyVars, aflVars, pipeVars>>

ProxyPc == {"idle", "askPid", "clear", "unready", "enable", "signalStart",
            "report", "cont", "wait", "disable", "signalStop", "waitReady", "decide",
            "dead"}
Message == [type : {"pid"}, pid : Pids] \cup [type : {"stopped", "exited"}]

TypeOK ==
  /\ CoreTypeOK
  /\ afl \in {"idle", "requested", "running"}
  /\ aflPid \in Pids
  /\ ppc \in ProxyPc
  /\ hidden \in BOOLEAN
  /\ ctl \in BOOLEAN
  /\ st \in Seq(Message)
  /\ fpc \in {"read", "wait"}

Init ==
  /\ CoreInit /\ cstate = "reaped"
  /\ afl = "idle" /\ aflPid = child
  /\ ppc = "idle" /\ hidden = FALSE
  /\ ctl = FALSE /\ st = <<>> /\ fpc = "read"

-----------------------------------------------------------------------------
(* AFL++, outside src/: it writes a request, reads a pid and a status, and *)
(* kills the pid it was given when the run takes too long.                 *)

AflRequest ==
  /\ afl = "idle" /\ afl' = "requested"
  /\ UNCHANGED <<coreVars, proxyVars, aflPid, pipeVars>>

AflTimeout ==
  /\ afl = "running" /\ aflPid = child
  /\ cstate \in {"selfstopped", "running", "stopped"} /\ Die
  /\ UNCHANGED <<eventVars, decoder_ready, dpc, child_pid, init_pos, sinks,
                 dataVars, proxyVars, aflVars, pipeVars>>

-----------------------------------------------------------------------------
(* The forkserver inside the target.                                       *)

\* fork(), wait for the child's SIGSTOP, tell the proxy its pid.  Pids come back
\* only after many forks: not while AFL++ still knows one.
ForkserverForks ==
  /\ fpc = "read" /\ ctl
  /\ \E pid \in Pids \ {child, aflPid} :
       /\ Fork(pid)
       /\ st' = Append(st, [type |-> "pid", pid |-> pid])
  /\ ctl' = FALSE /\ fpc' = "wait"
  /\ UNCHANGED <<eventVars, decoder_ready, dpc, child_pid, init_pos, sinks,
                 dataVars, proxyVars, aflVars>>

\* waitpid() returns a stop, or reaps the child; the status goes to the proxy.
ForkserverRelays ==
  /\ fpc = "wait"
  /\ \/ /\ cstate = "stopped" /\ ~reported
        /\ reported' = TRUE
        /\ st' = Append(st, [type |-> "stopped"])
        /\ UNCHANGED <<cstate, fpc>>
     \/ /\ cstate = "zombie"
        /\ cstate' = "reaped"
        /\ st' = Append(st, [type |-> "exited"])
        /\ fpc' = "read"
        /\ UNCHANGED reported
  /\ UNCHANGED <<eventVars, decoder_ready, dpc, child_pid, init_pos, sinks,
                 dataVars, child, sigstop, emitted, proxyVars, aflVars, ctl>>

-----------------------------------------------------------------------------
(* The proxy's main thread.                                                *)

ProxyAt(from, to) == ppc = from /\ ppc' = to

\* __afl_next_testcase(): the outer request becomes an inner one.
NextTestcase ==
  /\ ProxyAt("idle", "askPid") /\ afl = "requested"
  /\ hidden' \in {FALSE, HiddenRuns} /\ ctl' = TRUE
  /\ UNCHANGED <<coreVars, aflVars, st, fpc>>

ReadPid ==
  /\ ProxyAt("askPid", "clear")
  /\ st # <<>> /\ Head(st).type = "pid" /\ st' = Tail(st)
  /\ UNCHANGED <<coreVars, hidden, aflVars, ctl, fpc>>

\* Mutant: the map keeps what the last attempt left in it.
StartKeepsMap ==
  /\ ProxyAt("clear", "unready") /\ buf' = {} /\ lost' = {} /\ unread' = {}
  /\ UNCHANGED <<eventVars, decoder_ready, dpc, child_pid, init_pos, sinks, etf,
                 rwp, etr, bitmap, childVars, hidden, aflVars, pipeVars>>

\* start_trace(): affinity, then an empty trace_buf and an empty map.
StartClears ==
  /\ \/ /\ ProxyAt("clear", "unready")
        /\ buf' = {} /\ bitmap' = {} /\ lost' = {} /\ unread' = {}
     \/ /\ ProxyAt("clear", "report") /\ MayFail("affinity")
        /\ UNCHANGED <<buf, bitmap, lossVars>>
  /\ UNCHANGED <<eventVars, decoder_ready, dpc, child_pid, init_pos, sinks, etf,
                 rwp, etr, childVars, hidden, aflVars, pipeVars>>

\* Mutant: decoder_ready is left to the decoder thread.
StartLeavesReady ==
  /\ ProxyAt("unready", "enable")
  /\ UNCHANGED <<coreVars, hidden, aflVars, pipeVars>>

\* Mutant: the sinks are not enabled.
StartWithoutEnable ==
  /\ ProxyAt("unready", "signalStart")
  /\ decoder_ready' = (decoder_ready /\ ~decoding_on)
  /\ UNCHANGED <<eventVars, dpc, child_pid, init_pos, sinks, dataVars, childVars,
                 hidden, aflVars, pipeVars>>

\* Not ready is published before the child runs; the decoder is reset.
StartUnready ==
  /\ \/ ProxyAt("unready", "enable")
     \/ ProxyAt("unready", "report") /\ decoding_on /\ MayFail("reset")
  /\ decoder_ready' = (decoder_ready /\ ~decoding_on)
  /\ UNCHANGED <<eventVars, dpc, child_pid, init_pos, sinks, dataVars, childVars,
                 hidden, aflVars, pipeVars>>

StartEnables ==
  /\ \/ ProxyAt("enable", "signalStart") /\ enable_cs_trace
     \/ ProxyAt("enable", "report") /\ enable_cs_trace_fails
  /\ child_pid' = child
  /\ UNCHANGED <<eventVars, decoder_ready, dpc, init_pos, childVars, hidden,
                 aflVars, pipeVars>>

StartSignals ==
  /\ ProxyAt("signalStart", "report")
  /\ signal_event(start_pending)
  /\ UNCHANGED <<suspend_pending, stop_pending, fini_pending, decoder_ready, dpc,
                 child_pid, init_pos, sinks, dataVars, childVars, hidden,
                 aflVars, pipeVars>>

\* start_and_resume(): whatever start_trace() returned, the pid goes to AFL++
\* unless the attempt is hidden, ...
ReportPid ==
  /\ ProxyAt("report", "cont")
  /\ IF hidden THEN UNCHANGED aflVars ELSE afl' = "running" /\ aflPid' = child
  /\ UNCHANGED <<coreVars, hidden, pipeVars>>

\* ... and the child gets SIGCONT.  If that fails, a hidden attempt ends main();
\* for the reported one __afl_next_testcase() returns (u32)-1, which is positive.
ContinueRun ==
  /\ ProxyAt("cont", IF hidden /\ ~Exists(child) THEN "dead" ELSE "wait")
  /\ SendCont
  /\ UNCHANGED <<eventVars, decoder_ready, dpc, child_pid, init_pos, sinks,
                 dataVars, hidden, aflVars, pipeVars>>

\* Mutant: AFL++ gets the status as soon as the proxy has it.
StatusForwarded ==
  /\ ppc = "wait"
  /\ st # <<>> /\ st' = Tail(st)
  /\ ppc' = IF Head(st).type = "stopped" THEN "wait" ELSE "disable"
  /\ afl' = IF Head(st).type = "stopped" \/ hidden THEN afl ELSE "idle"
  /\ signal_event(suspend_pending)
  /\ UNCHANGED <<start_pending, stop_pending, fini_pending, decoder_ready, dpc,
                 child_pid, init_pos, sinks, dataVars, childVars, hidden,
                 aflPid, ctl, fpc>>

\* Mutant: the decoder hears of the child's exit, not of its stops.
StopNotPassedOn ==
  /\ ppc = "wait"
  /\ st # <<>> /\ st' = Tail(st)
  /\ ppc' = IF Head(st).type = "stopped" THEN "wait" ELSE "disable"
  /\ suspend_pending' = (suspend_pending \/ Head(st).type = "exited")
  /\ UNCHANGED <<start_pending, stop_pending, fini_pending, decoder_ready, dpc,
                 child_pid, init_pos, sinks, dataVars, childVars, hidden,
                 aflVars, ctl, fpc>>

\* wait_for_child_and_stop_trace() reads one status: a stop or the exit, either
\* callback sets suspend_pending.
ReadStatus ==
  /\ ppc = "wait"
  /\ st # <<>> /\ st' = Tail(st)
  /\ ppc' = IF Head(st).type = "stopped" THEN "wait" ELSE "disable"
  /\ signal_event(suspend_pending)
  /\ UNCHANGED <<start_pending, stop_pending, fini_pending, decoder_ready, dpc,
                 child_pid, init_pos, sinks, dataVars, childVars, hidden,
                 aflVars, ctl, fpc>>

\* stop_trace(); when it fails the proxy's main() returns.
StopDisables ==
  /\ \/ ProxyAt("disable", "signalStop") /\ disable_cs_trace
     \/ ProxyAt("disable", "dead") /\ disable_cs_trace_fails
  /\ UNCHANGED <<eventVars, decoder_ready, dpc, child_pid, init_pos, childVars,
                 hidden, aflVars, pipeVars>>

StopSignals ==
  /\ decoding_on /\ ProxyAt("signalStop", "waitReady")
  /\ signal_event(stop_pending)
  /\ UNCHANGED <<start_pending, suspend_pending, fini_pending, decoder_ready, dpc,
                 child_pid, init_pos, sinks, dataVars, childVars, hidden,
                 aflVars, pipeVars>>

StopFetches ==
  /\ ~decoding_on
  /\ \/ ProxyAt("signalStop", "decide") /\ fetch_trace
     \/ ProxyAt("signalStop", "dead") /\ fetch_trace_fails
  /\ UNCHANGED <<eventVars, decoder_ready, dpc, child_pid, init_pos, sinks,
                 childVars, hidden, aflVars, pipeVars>>

StopWaits ==
  /\ ProxyAt("waitReady", "decide") /\ decoder_ready
  /\ UNCHANGED <<coreVars, hidden, aflVars, pipeVars>>

\* fork_fresh_child(): another hidden attempt at the same request.
HiddenAttempt ==
  /\ HiddenRuns /\ ProxyAt("decide", "askPid")
  /\ hidden' = TRUE /\ ctl' = TRUE
  /\ UNCHANGED <<coreVars, aflVars, st, fpc>>

\* Calibration is over: the child that takes its place is the reported one.
ReportedAttempt ==
  /\ ProxyAt("decide", "askPid") /\ afl = "requested"
  /\ hidden' = FALSE /\ ctl' = TRUE
  /\ UNCHANGED <<coreVars, aflVars, st, fpc>>

\* __afl_end_testcase(): AFL++ gets the status and owns the map.
EndTestcase ==
  /\ ProxyAt("decide", "idle")
  /\ afl = "running" /\ afl' = "idle"
  /\ bitmap' = IF decoding_on THEN bitmap ELSE bitmap \cup {Dummy}
  /\ UNCHANGED <<eventVars, decoder_ready, dpc, child_pid, init_pos, sinks, etf,
                 rwp, etr, buf, lossVars, childVars, hidden, aflPid, pipeVars>>

ProxyStep ==
  \/ NextTestcase \/ ReadPid \/ StartClears \/ StartUnready \/ StartEnables
  \/ StartSignals \/ ReportPid \/ ContinueRun \/ ReadStatus
  \/ StopDisables \/ StopSignals \/ StopFetches \/ StopWaits
  \/ HiddenAttempt \/ ReportedAttempt \/ EndTestcase

ForkserverStep == ForkserverForks \/ ForkserverRelays

sessionVars == <<proxyVars, aflVars, pipeVars>>

Next ==
  \/ DecoderStep /\ UNCHANGED sessionVars
  \/ ChildStep /\ UNCHANGED sessionVars
  \/ ProxyStep
  \/ ForkserverStep
  \/ AflRequest
  \/ AflTimeout

Spec == Init /\ [][Next]_vars

(***************************************************************************)
(* Every process and thread is scheduled.  The attempts at one request are *)
(* finitely many (FreqGov bounds them), so an attempt that may be the last *)
(* one is so eventually.                                                   *)
(***************************************************************************)
Scheduling ==
  /\ WF_vars(DecoderStep /\ UNCHANGED sessionVars)
  /\ WF_vars(ChildStops /\ UNCHANGED sessionVars)
  /\ WF_vars(ProxyStep)
  /\ SF_vars(ReportedAttempt) /\ SF_vars(EndTestcase)
  /\ WF_vars(ForkserverStep)

\* Targets that terminate when they are left to run.
TerminatingSpec == Spec /\ Scheduling /\ WF_vars(ChildExits /\ UNCHANGED sessionVars)

\* Targets that may hang: AFL++ kills the process it was told of.
HangingSpec == Spec /\ Scheduling /\ WF_vars(AflTimeout)

-----------------------------------------------------------------------------
\* The trace the current child has generated.
Ran == {child} \X (1..emitted)

\* What AFL++ is given is the trace of the child whose run it is told about: when
\* an attempt is over (stop_trace() has returned), nothing else is in the map, and
\* everything the child generated is, unless the decoder gave up before the end of
\* trace_buf or the ETR, which this build never drains while the child runs,
\* overwrote it; without a decoder it is in trace_buf.  Only what EtrSize or more
\* later chunks followed is overwritten: a run that fits the ETR is complete.
CompleteMap ==
  ppc = "decide" =>
    /\ IF decoding_on THEN bitmap \subseteq Ran /\ (buf = {} => bitmap = Ran \ lost)
       ELSE buf = Ran \ lost
    /\ \A c \in lost : c[2] + EtrSize <= emitted

\* No attempt's coverage leaks into another's: whenever AFL++ may read the map, and
\* when a hidden attempt ends, it has no chunk of another child, although a decode
\* may stop half way and leave the rest of its trace in trace_buf ("a partial
\* failed decode cannot contaminate its replacement", start_trace()).  In the build
\* that drains while the child runs this holds as long as no decode fails: after
\* one the ETR is not fetched, and the next attempt may find its chunks there.
OwnTraceOnly == ppc = "decide" \/ afl = "idle" => bitmap \subseteq Ran \cup {Dummy}

\* When stop_trace() returns after a decode that did not fail, the sinks hold
\* nothing more of the attempt: the decoder did not finish early on an event
\* left over from another attempt.
CollectedWhenReported == ppc = "decide" /\ buf = {} => etr = {} /\ etf = 0

\* AFL++ reads a map that does not move: between the status and the next
\* request neither the decoder thread nor the proxy writes trace_bitmap.
MapFrozen == [][afl = "idle" => bitmap' = bitmap]_vars

\* The child never executes while the sinks are off: it is resumed after they
\* are enabled and they are disabled after it is gone.
TracedWhileRunning == cstate = "running" => sinks

\* "Stop trace session" (stop_trace()): between the disable and the next
\* start_trace() nobody turns the sinks on.
SinksOffBetweenRuns ==
  ppc \in {"signalStop", "waitReady", "decide", "idle", "askPid", "clear",
           "unready", "enable"} => ~sinks

\* Between two attempts the decoder thread is back at its wait for start_pending
\* and no event of the finished attempt is left for the next one to consume.
DecoderInStep ==
  decoding_on /\ ppc \in {"decide", "idle", "askPid", "clear", "unready", "enable"}
    => dpc = "waitStart" /\ ~start_pending /\ ~stop_pending

\* Every request of AFL++ is answered with a status: the proxy, the forkserver
\* and the decoder never wait for one another in a circle.
RequestAnswered == afl = "requested" ~> afl = "idle"

\* Who can take its next step, other than looking again or being forked anew.
ProxyMoves ==
  \/ ppc = "idle" /\ afl = "requested"
  \/ ppc \in {"askPid", "wait"} /\ st # <<>>
  \/ ppc \in {"clear", "unready", "enable", "signalStart", "report", "cont",
             "disable", "signalStop"}
  \/ ppc = "waitReady" /\ decoder_ready
  \/ ppc = "decide" /\ afl # "idle"
DecoderMoves ==
  \/ dpc = "waitStart" /\ start_pending
  \/ dpc = "waitSuspend" /\ suspend_pending
  \/ dpc = "waitStop" /\ stop_pending
  \/ dpc = "poll" /\ (~Exists(child_pid) \/ AboveThreshold)
  \/ dpc \notin {"none", "waitStart", "waitSuspend", "waitStop", "poll", "done"}
ForkserverMoves ==
  \/ fpc = "read" /\ ctl
  \/ fpc = "wait" /\ (cstate = "zombie" \/ (cstate = "stopped" /\ ~reported))
ChildMoves == cstate = "running"

\* While AFL++ waits for an answer somebody can go on: the proxy's read of a pipe
\* and wait for decoder_ready, the decoder's wait_event() calls, the forkserver's
\* read and waitpid() and a stopped child never wait for one another in a circle.
NobodyStuck ==
  afl # "idle" => ProxyMoves \/ DecoderMoves \/ ForkserverMoves \/ ChildMoves

\* AFL++'s view of the session, refined below.
Contract == INSTANCE AflContract
              WITH phase <- afl, pid <- child, len <- emitted,
                   over <- cstate \in {"zombie", "reaped"},
                   map <- IF afl = "idle" THEN bitmap \ {Dummy} ELSE {},
                   whole <- afl = "idle" => buf = {} /\ emitted <= EtrSize

\* The proxy, the forkserver and the decoder thread together implement the
\* contract AFL++ relies on: one status per request, after the run is over, with
\* the map of exactly that run: of all of it, if the decoder did not fail and the
\* run fitted the ETR.
ImplementsContract == Contract!Spec
=============================================================================
