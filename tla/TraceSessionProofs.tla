-------------------------- MODULE TraceSessionProofs --------------------------
(***************************************************************************)
(* Proofs about TraceSession for every set of pids, every amount of trace, *)
(* every build and threshold, and (unless an assumption says otherwise)    *)
(* whatever calls fail.                                                    *)
(***************************************************************************)
EXTENDS TraceSession, TLAPS

-----------------------------------------------------------------------------
(* What the ring and a fetch do to the chunks.                             *)

\* The ETR keeps only what was written to it.
LEMMA LatestOf == ASSUME NEW w, NEW s \in Latest(w) PROVE s \subseteq w
BY DEF Latest

\* The trace the ETF hands on is in the ETR, or counted as overwritten.
LEMMA DrainMoves ==
  ASSUME NEW n, Drain(n)
  PROVE  LET written == etr \cup ({child} \X (emitted - etf + 1 .. emitted - etf + n))
         IN  etr' \subseteq written /\ lost' = lost \cup (written \ etr')
BY LatestOf, Zenon DEF Drain

\* fetch_trace(), whether it succeeds, comes up short or fails: bytes leave the
\* ETR only, for trace_buf or for nothing.
LEMMA FetchMoves ==
  fetch_trace \/ fetch_trace_fails =>
    /\ UNCHANGED <<etf, bitmap, lost>>
    /\ etr' = etr \/ etr' = {}
    /\ rwp' = rwp \/ rwp' = 0
    /\ buf' \subseteq buf \cup etr
    /\ unread' \subseteq unread \cup etr
<1>1. CASE fetch_trace
  <2>1. PICK part \in SUBSET etr :
          buf' = buf \cup part /\ unread' = (unread \cup etr) \ part
    BY <1>1, Zenon DEF fetch_trace
  <2>2. buf' \subseteq buf \cup etr /\ unread' \subseteq unread \cup etr
    BY <2>1, Zenon
  <2>3. QED
    BY <1>1, <2>2, Zenon DEF fetch_trace
<1>2. CASE fetch_trace_fails
  BY <1>2, Zenon DEF fetch_trace_fails
<1>3. QED
  BY <1>1, <1>2, Zenon

\* Where fetch_trace() cannot fail it empties the ETR into trace_buf.
LEMMA FetchTakesAll ==
  ~MayFail("fetch") /\ (fetch_trace \/ fetch_trace_fails) =>
    /\ UNCHANGED <<etf, bitmap, lost>>
    /\ buf' = buf \cup etr /\ etr' = {} /\ rwp' = 0
BY Zenon DEF fetch_trace, fetch_trace_fails

-----------------------------------------------------------------------------
(* The inductive invariant, in parts.                                      *)

\* Where the proxy is between two attempts, as far as the decoder can tell.
BetweenAttempts ==
  {"decide", "idle", "askPid", "clear", "unready", "enable", "signalStart"}

\* The decoder thread works on an attempt exactly from the proxy's start event
\* to the moment it publishes decoder_ready.
Handshake ==
  /\ fini_pending = FALSE
  /\ dpc # "done"
  /\ decoding_on /\ start_pending => dpc = "waitStart"
  /\ decoding_on /\ decoder_ready => dpc = "waitStart" /\ ~start_pending
  /\ decoding_on /\ ppc \in BetweenAttempts => dpc = "waitStart" /\ ~start_pending
  /\ decoding_on /\ ppc \in {"enable", "signalStart"} => ~decoder_ready
  /\ decoding_on /\ (start_pending \/ dpc # "waitStart" \/ ppc = "signalStart")
       => child_pid = child

\* AFL++ is idle only while the proxy waits for its request, and it does not
\* know a child that has not been resumed.
AflInStep ==
  /\ afl = "idle" => ppc = "idle"
  /\ afl = "running" /\ cstate = "selfstopped" /\ ppc # "cont" => aflPid # child

\* What the statuses still in the pipe say: stops, and the exit last.
Statuses ==
  IF cstate = "reaped"
    THEN /\ fpc = "read" /\ st # <<>>
         /\ \A i \in 1..Len(st) : st[i].type = IF i = Len(st) THEN "exited" ELSE "stopped"
    ELSE /\ fpc = "wait"
         /\ \A i \in 1..Len(st) : st[i].type = "stopped"

\* The inner fork server protocol never gets out of step.
PipeInStep ==
  /\ ppc \in {"idle", "disable", "signalStop", "waitReady", "decide"}
       => ~ctl /\ st = <<>> /\ fpc = "read" /\ cstate = "reaped"
  /\ ppc = "askPid"
       => IF ctl THEN st = <<>> /\ fpc = "read" /\ cstate = "reaped"
          ELSE /\ st = <<[type |-> "pid", pid |-> child]>>
               /\ fpc = "wait" /\ cstate = "selfstopped"
  /\ ppc \in {"clear", "unready", "enable", "signalStart", "report"}
       => ~ctl /\ st = <<>> /\ fpc = "wait" /\ cstate = "selfstopped"
  /\ ppc \in {"cont", "wait"} => ~ctl /\ Statuses
  /\ ppc = "wait" => cstate # "selfstopped"
  /\ ppc = "dead" => ~ctl

\* The ETF holds trace of the current child only, and none while it waits to be
\* resumed: so the decoder sees no reason to drain, and does not continue it.
EtfOfChild ==
  /\ etf <= emitted
  /\ ppc \in BetweenAttempts \cup {"report", "signalStop", "waitReady"} => etf = 0
  /\ cstate = "selfstopped" =>
       /\ emitted = 0
       /\ dpc \in {"none", "waitStart", "begin", "initPos", "poll"}
       /\ dpc = "poll" => init_pos = rwp

SessionInv == TypeOK /\ Handshake /\ AflInStep /\ PipeInStep /\ EtfOfChild

-----------------------------------------------------------------------------
(* The invariant holds initially and every step preserves it.              *)

\* The invariant holds after init_trace(), before the first request of AFL++.
LEMMA InitInv == Init => SessionInv
<1> SUFFICES ASSUME Init PROVE SessionInv
  BY Zenon
<1> USE DEF Init, CoreInit, decoding_on
<1>1. TypeOK
  <2>1. decoder_ready \in BOOLEAN
    BY Zenon
  <2>2. /\ etf \in 0..MaxChunk /\ emitted \in 0..MaxChunk
        /\ rwp \in 0..EtrSize-1 /\ init_pos \in 0..EtrSize-1
    BY TraceCoreAssumption
  <2>3. CoreTypeOK
    BY <2>1, <2>2, TraceCoreAssumption, Zenon DEF CoreTypeOK, DecoderPc, ChildState
  <2>4. st \in Seq(Message)
    OBVIOUS
  <2>5. QED
    BY <2>3, <2>4, Zenon DEF TypeOK, CoreTypeOK, ProxyPc
<1>2. Handshake /\ AflInStep
  BY TraceCoreAssumption, Zenon DEF Handshake, AflInStep, BetweenAttempts
<1>3. PipeInStep /\ EtfOfChild
  BY DEF PipeInStep, EtfOfChild, BetweenAttempts
<1>4. QED
  BY <1>1, <1>2, <1>3, Zenon DEF SessionInv

\* Handshake is preserved: signal_event() hands an attempt to the decoder thread,
\* decoder_ready hands it back.
LEMMA HandshakeStep == SessionInv /\ [Next]_vars => Handshake'
<1> SUFFICES ASSUME SessionInv, [Next]_vars PROVE Handshake'
  BY Zenon
<1> USE DEF decoding_on, SessionInv, Handshake, BetweenAttempts, eventVars, childVars,
        coreVars, aflVars, pipeVars, proxyVars, sessionVars, DecoderAt, ProxyAt
<1>1. CASE DecoderStep /\ UNCHANGED sessionVars
  <2>1. CASE decoder_worker
    BY <1>1, <2>1, Zenon DEF decoder_worker, TypeOK, CoreTypeOK, wait_event
  <2>2. CASE PollingBegins
    BY <1>1, <2>2, Zenon DEF PollingBegins, TypeOK, CoreTypeOK
  <2>3. CASE ReadInitPos
    BY <1>1, <2>3, Zenon DEF ReadInitPos, TypeOK, CoreTypeOK
  <2>4. CASE Poll
    BY <1>1, <2>4, Zenon DEF Poll, TypeOK, CoreTypeOK
  <2>5. CASE SuspendChild
    BY <1>1, <2>5, Zenon DEF SuspendChild, TypeOK, CoreTypeOK, SendStop
  <2>6. CASE WaitSuspend
    BY <1>1, <2>6, Zenon DEF WaitSuspend, TypeOK, CoreTypeOK, wait_event
  <2>7. CASE DrainDisables
    BY <1>1, <2>7, Zenon DEF DrainDisables, TypeOK, CoreTypeOK
  <2>8. CASE DrainFetches
    BY <1>1, <2>8, Zenon DEF DrainFetches, TypeOK, CoreTypeOK
  <2>9. CASE DrainEnables
    BY <1>1, <2>9, Zenon DEF DrainEnables, TypeOK, CoreTypeOK
  <2>10. CASE ContinueChild
    BY <1>1, <2>10, Zenon DEF ContinueChild, TypeOK, CoreTypeOK, SendCont
  <2>11. CASE DrainDecodes
    BY <1>1, <2>11, Zenon DEF DrainDecodes, TypeOK, CoreTypeOK
  <2>12. CASE WaitStop
    BY <1>1, <2>12, Zenon DEF WaitStop, TypeOK, CoreTypeOK, wait_event
  <2>13. CASE LastFetch
    BY <1>1, <2>13, Zenon DEF LastFetch, TypeOK, CoreTypeOK
  <2>14. CASE LastDecode
    BY <1>1, <2>14, Zenon DEF LastDecode, TypeOK, CoreTypeOK
  <2>15. CASE PollingEnds
    BY <1>1, <2>15, Zenon DEF PollingEnds, TypeOK, CoreTypeOK
  <2>16. QED
    BY <1>1, <2>1, <2>2, <2>3, <2>4, <2>5, <2>6, <2>7, <2>8, <2>9, <2>10, <2>11,
       <2>12, <2>13, <2>14, <2>15, Zenon DEF DecoderStep
<1>2. CASE ChildStep /\ UNCHANGED sessionVars
  BY <1>2 DEF ChildStep, ChildRuns, EtfDrains, ChildStops, ChildExits, Die
<1>3. CASE ForkserverStep
  BY <1>3 DEF ForkserverStep, ForkserverForks, ForkserverRelays, PipeInStep,
     Fork, Statuses,
     TypeOK, ProxyPc
<1>4. CASE AflRequest \/ AflTimeout
  BY <1>4, SMTT(30) DEF AflRequest, AflTimeout, Die
<1>5. CASE ProxyStep
  <2>1. CASE NextTestcase
    BY <1>5, <2>1, Zenon DEF NextTestcase, TypeOK, CoreTypeOK
  <2>2. CASE ReadPid
    BY <1>5, <2>2, Zenon DEF ReadPid, TypeOK, CoreTypeOK
  <2>3. CASE StartClears
    BY <1>5, <2>3, Zenon DEF StartClears, TypeOK, CoreTypeOK
  <2>4. CASE StartUnready
    BY <1>5, <2>4, Zenon DEF StartUnready, TypeOK, CoreTypeOK
  <2>5. CASE StartEnables
    BY <1>5, <2>5, Zenon DEF StartEnables, TypeOK, CoreTypeOK
  <2>6. CASE StartSignals
    BY <1>5, <2>6, Zenon DEF StartSignals, TypeOK, CoreTypeOK, signal_event
  <2>7. CASE ReportPid
    BY <1>5, <2>7, Zenon DEF ReportPid, TypeOK, CoreTypeOK
  <2>8. CASE ContinueRun
    BY <1>5, <2>8, Zenon DEF ContinueRun, TypeOK, CoreTypeOK, SendCont
  <2>9. CASE ReadStatus
    BY <1>5, <2>9, Zenon DEF ReadStatus, TypeOK, CoreTypeOK, signal_event
  <2>10. CASE StopDisables
    BY <1>5, <2>10, Zenon DEF StopDisables, TypeOK, CoreTypeOK
  <2>11. CASE StopSignals
    BY <1>5, <2>11, Zenon DEF StopSignals, TypeOK, CoreTypeOK, signal_event
  <2>12. CASE StopFetches
    BY <1>5, <2>12, Zenon DEF StopFetches, TypeOK, CoreTypeOK
  <2>13. CASE StopWaits
    BY <1>5, <2>13, Zenon DEF StopWaits, TypeOK, CoreTypeOK
  <2>14. CASE HiddenAttempt
    BY <1>5, <2>14, Zenon DEF HiddenAttempt, TypeOK, CoreTypeOK
  <2>15. CASE ReportedAttempt
    BY <1>5, <2>15, Zenon DEF ReportedAttempt, TypeOK, CoreTypeOK
  <2>16. CASE EndTestcase
    BY <1>5, <2>16, Zenon DEF EndTestcase, TypeOK, CoreTypeOK
  <2>17. QED
    BY <1>5, <2>1, <2>2, <2>3, <2>4, <2>5, <2>6, <2>7, <2>8, <2>9, <2>10, <2>11,
       <2>12, <2>13, <2>14, <2>15, <2>16, Zenon DEF ProxyStep
<1>6. CASE UNCHANGED vars
  BY <1>6, Zenon DEF vars
<1>7. QED
  BY <1>1, <1>2, <1>3, <1>4, <1>5, <1>6, ZenonT(40) DEF Next

\* AflInStep is preserved: AFL++ learns a pid in start_and_resume() only, and the
\* status is the last thing the proxy does for a request.
LEMMA AflInStepStep == SessionInv /\ [Next]_vars => AflInStep'
<1> SUFFICES ASSUME SessionInv, [Next]_vars PROVE AflInStep'
  BY Zenon
<1> USE DEF SessionInv, AflInStep, eventVars, childVars, coreVars, aflVars,
        pipeVars, proxyVars, sessionVars, DecoderAt, ProxyAt
<1>1. CASE DecoderStep /\ UNCHANGED sessionVars
  BY <1>1, Zenon DEF DecoderStep, decoder_worker, PollingBegins, ReadInitPos, Poll,
     SuspendChild, WaitSuspend, DrainDisables, DrainFetches, DrainEnables,
     ContinueChild, DrainDecodes, WaitStop, LastFetch, LastDecode, PollingEnds,
     SendStop, SendCont
<1>2. CASE ChildStep /\ UNCHANGED sessionVars
  BY <1>2, Zenon DEF ChildStep, ChildRuns, EtfDrains, ChildStops, ChildExits, Die
<1>3. CASE ForkserverStep
  BY <1>3, Zenon DEF ForkserverStep, ForkserverForks, ForkserverRelays, Fork
<1>4. CASE AflRequest \/ AflTimeout
  BY <1>4, Zenon DEF AflRequest, AflTimeout, Die, PipeInStep
<1>5. CASE ProxyStep
  BY <1>5, Zenon DEF ProxyStep, NextTestcase, ReadPid, StartClears, StartUnready,
     StartEnables, StartSignals, ReportPid, ContinueRun, ReadStatus,
     StopDisables, StopSignals, StopFetches, StopWaits, HiddenAttempt,
     ReportedAttempt, EndTestcase, SendCont, PipeInStep
<1>6. CASE UNCHANGED vars
  BY <1>6, Zenon DEF vars
<1>7. QED
  BY <1>1, <1>2, <1>3, <1>4, <1>5, <1>6, Zenon DEF Next

\* EtfOfChild is preserved: stop_trace() flushes the ETF before the next fork.
LEMMA EtfOfChildStep == SessionInv /\ [Next]_vars => EtfOfChild'
<1> SUFFICES ASSUME SessionInv, [Next]_vars PROVE EtfOfChild'
  BY Zenon
<1> USE TraceCoreAssumption DEF decoding_on, SessionInv, EtfOfChild, BetweenAttempts,
        eventVars, dataVars, childVars, coreVars, aflVars, pipeVars, proxyVars,
        sessionVars, DecoderAt, ProxyAt
<1>1. CASE DecoderStep /\ UNCHANGED sessionVars
  <2>1. CASE decoder_worker
    BY <1>1, <2>1, Zenon DEF decoder_worker, TypeOK, CoreTypeOK, Handshake, wait_event
  <2>2. CASE PollingBegins
    BY <1>1, <2>2, Zenon DEF PollingBegins, TypeOK, CoreTypeOK, Handshake
  <2>3. CASE ReadInitPos
    BY <1>1, <2>3, Zenon DEF ReadInitPos, TypeOK, CoreTypeOK, Handshake
  <2>4. CASE Poll
    BY <1>1, <2>4 DEF Poll, TypeOK, CoreTypeOK, Handshake, AboveThreshold,
       Exists
  <2>5. CASE SuspendChild
    BY <1>1, <2>5, Zenon DEF SuspendChild, TypeOK, CoreTypeOK, Handshake, SendStop
  <2>6. CASE WaitSuspend
    BY <1>1, <2>6, Zenon DEF WaitSuspend, TypeOK, CoreTypeOK, Handshake
  <2>7. CASE DrainDisables
    BY <1>1, <2>7 DEF DrainDisables, TypeOK, CoreTypeOK, Handshake,
       disable_cs_trace, disable_cs_trace_fails, Drain
  <2>8. CASE DrainFetches
    BY <1>1, <2>8, FetchMoves, Zenon DEF DrainFetches, TypeOK, CoreTypeOK, Handshake
  <2>9. CASE DrainEnables
    BY <1>1, <2>9, Zenon DEF DrainEnables, TypeOK, CoreTypeOK, Handshake,
       enable_cs_trace, enable_cs_trace_fails
  <2>10. CASE ContinueChild
    BY <1>1, <2>10, Zenon DEF ContinueChild, TypeOK, CoreTypeOK, Handshake, SendCont
  <2>11. CASE DrainDecodes
    BY <1>1, <2>11, Zenon DEF DrainDecodes, TypeOK, CoreTypeOK, Handshake,
       decode_trace, decode_trace_fails
  <2>12. CASE WaitStop
    BY <1>1, <2>12, Zenon DEF WaitStop, TypeOK, CoreTypeOK, Handshake
  <2>13. CASE LastFetch
    BY <1>1, <2>13, FetchMoves, Zenon DEF LastFetch, TypeOK, CoreTypeOK, Handshake
  <2>14. CASE LastDecode
    BY <1>1, <2>14, Zenon DEF LastDecode, TypeOK, CoreTypeOK, Handshake, decode_trace,
       decode_trace_fails
  <2>15. CASE PollingEnds
    BY <1>1, <2>15, Zenon DEF PollingEnds, TypeOK, CoreTypeOK, Handshake
  <2>16. QED
    BY <1>1, <2>1, <2>2, <2>3, <2>4, <2>5, <2>6, <2>7, <2>8, <2>9, <2>10, <2>11,
       <2>12, <2>13, <2>14, <2>15, Zenon DEF DecoderStep
<1>2. CASE ChildStep /\ UNCHANGED sessionVars
  <2>1. CASE ChildRuns
    BY <1>2, <2>1 DEF ChildRuns, TypeOK, CoreTypeOK, PipeInStep
  <2>2. CASE EtfDrains
    BY <1>2, <2>2 DEF EtfDrains, TypeOK, CoreTypeOK, PipeInStep, Drain
  <2>3. CASE ChildStops
    BY <1>2, <2>3, Zenon DEF ChildStops, TypeOK, CoreTypeOK, PipeInStep
  <2>4. CASE ChildExits
    BY <1>2, <2>4, Zenon DEF ChildExits, TypeOK, CoreTypeOK, PipeInStep, Die
  <2>5. QED
    BY <1>2, <2>1, <2>2, <2>3, <2>4, Zenon DEF ChildStep
<1>3. CASE ForkserverStep
  <2>1. CASE ForkserverForks
    BY <1>3, <2>1 DEF ForkserverForks, TypeOK, CoreTypeOK, PipeInStep,
       Handshake, Statuses, ProxyPc, Fork
  <2>2. CASE ForkserverRelays
    BY <1>3, <2>2, Zenon DEF ForkserverRelays, TypeOK, CoreTypeOK, PipeInStep,
       Handshake, Statuses, ProxyPc
  <2>3. QED
    BY <1>3, <2>1, <2>2, Zenon DEF ForkserverStep
<1>4. CASE AflRequest \/ AflTimeout
  BY <1>4, SMTT(30) DEF AflRequest, AflTimeout, Die
<1>5. CASE ProxyStep
  <2>1. CASE NextTestcase
    BY <1>5, <2>1, Zenon DEF NextTestcase, TypeOK, CoreTypeOK, PipeInStep, Handshake
  <2>2. CASE ReadPid
    BY <1>5, <2>2, Zenon DEF ReadPid, TypeOK, CoreTypeOK, PipeInStep, Handshake
  <2>3. CASE StartClears
    BY <1>5, <2>3, Zenon DEF StartClears, TypeOK, CoreTypeOK, PipeInStep, Handshake
  <2>4. CASE StartUnready
    BY <1>5, <2>4, Zenon DEF StartUnready, TypeOK, CoreTypeOK, PipeInStep, Handshake
  <2>5. CASE StartEnables
    <3>1. ppc = "enable" /\ ppc' \in {"signalStart", "report"} /\ etf' = etf
      BY ONLY <2>5, ZenonT(40) DEF StartEnables, enable_cs_trace, enable_cs_trace_fails
    <3>2. QED
      BY <1>5, <2>5, <3>1, Zenon DEF StartEnables, TypeOK, CoreTypeOK, PipeInStep, Handshake
  <2>6. CASE StartSignals
    BY <1>5, <2>6, Zenon DEF StartSignals, TypeOK, CoreTypeOK, PipeInStep, Handshake
  <2>7. CASE ReportPid
    BY <1>5, <2>7, Zenon DEF ReportPid, TypeOK, CoreTypeOK, PipeInStep, Handshake
  <2>8. CASE ContinueRun
    BY <1>5, <2>8, Zenon DEF ContinueRun, TypeOK, CoreTypeOK, PipeInStep, Handshake,
       SendCont
  <2>9. CASE ReadStatus
    BY <1>5, <2>9, Zenon DEF ReadStatus, TypeOK, CoreTypeOK, PipeInStep, Handshake
  <2>10. CASE StopDisables
    BY <1>5, <2>10 DEF StopDisables, TypeOK, CoreTypeOK, PipeInStep, Handshake,
       disable_cs_trace, disable_cs_trace_fails, Drain
  <2>11. CASE StopSignals
    BY <1>5, <2>11, Zenon DEF StopSignals, TypeOK, CoreTypeOK, PipeInStep, Handshake
  <2>12. CASE StopFetches
    BY <1>5, <2>12, FetchMoves, Zenon DEF StopFetches, TypeOK, CoreTypeOK, PipeInStep,
       Handshake
  <2>13. CASE StopWaits
    BY <1>5, <2>13, Zenon DEF StopWaits, TypeOK, CoreTypeOK, PipeInStep, Handshake
  <2>14. CASE HiddenAttempt
    BY <1>5, <2>14, Zenon DEF HiddenAttempt, TypeOK, CoreTypeOK, PipeInStep, Handshake
  <2>15. CASE ReportedAttempt
    BY <1>5, <2>15, Zenon DEF ReportedAttempt, TypeOK, CoreTypeOK, PipeInStep,
       Handshake
  <2>16. CASE EndTestcase
    BY <1>5, <2>16, Zenon DEF EndTestcase, TypeOK, CoreTypeOK, PipeInStep, Handshake
  <2>17. QED
    BY <1>5, <2>1, <2>2, <2>3, <2>4, <2>5, <2>6, <2>7, <2>8, <2>9, <2>10, <2>11,
       <2>12, <2>13, <2>14, <2>15, <2>16, SMTT(30) DEF ProxyStep
<1>6. CASE UNCHANGED vars
  BY <1>6, SMTT(30) DEF vars
<1>7. QED
  BY <1>1, <1>2, <1>3, <1>4, <1>5, <1>6, Zenon DEF Next

\* PipeInStep is preserved: the forkserver answers a request by a pid, then by
\* stops, then by one exit, and the proxy reads all of them.
LEMMA PipeInStepStep == SessionInv /\ [Next]_vars => PipeInStep'
<1> SUFFICES ASSUME SessionInv, [Next]_vars PROVE PipeInStep'
  BY Zenon
<1> USE DEF SessionInv, PipeInStep, Statuses, eventVars, childVars, coreVars,
        aflVars, pipeVars, proxyVars, sessionVars, DecoderAt, ProxyAt
<1>1. CASE DecoderStep /\ UNCHANGED sessionVars
  <2>1. cstate' = cstate \/ (cstate = "stopped" /\ cstate' = "running")
    BY <1>1, ZenonT(40) DEF DecoderStep, decoder_worker, PollingBegins, ReadInitPos, Poll,
       SuspendChild, WaitSuspend, DrainDisables, DrainFetches, DrainEnables,
       ContinueChild, DrainDecodes, WaitStop, LastFetch, LastDecode,
       PollingEnds, SendStop, SendCont, EtfOfChild
  <2>2. child' = child
    BY <1>1, ZenonT(40) DEF DecoderStep, decoder_worker, PollingBegins, ReadInitPos, Poll,
       SuspendChild, WaitSuspend, DrainDisables, DrainFetches, DrainEnables,
       ContinueChild, DrainDecodes, WaitStop, LastFetch, LastDecode,
       PollingEnds, SendStop, SendCont
  <2>3. QED
    BY <1>1, <2>1, <2>2, SMTT(30)
<1>2. CASE ChildStep /\ UNCHANGED sessionVars
  BY <1>2, Zenon DEF ChildStep, ChildRuns, EtfDrains, ChildStops, ChildExits, Die
<1>3. CASE ForkserverStep
  <2>1. CASE ForkserverForks
    <3>1. ppc = "askPid" /\ st = <<>>
      BY <2>1, ZenonT(40) DEF ForkserverForks, TypeOK, ProxyPc
    <3>2. PICK pid \in Pids : Fork(pid) /\ st' = Append(st, [type |-> "pid",
       pid |-> pid])
      BY <2>1, Zenon DEF ForkserverForks
    <3>3. st' = <<[type |-> "pid", pid |-> child']>>
      BY <3>1, <3>2, SMTT(30) DEF Fork
    <3>4. QED
      BY <2>1, <3>1, <3>2, <3>3, SMTT(30) DEF ForkserverForks, Fork
  <2>2. CASE ForkserverRelays
    <3>1. ppc \in {"cont", "wait", "dead"}
      BY <2>2, Zenon DEF ForkserverRelays, TypeOK, ProxyPc
    <3>2. ppc' = ppc /\ ~ctl /\ ctl' = ctl
      BY <2>2, <3>1, Zenon DEF ForkserverRelays
    <3>3. st \in Seq(Message)
      BY Zenon DEF TypeOK
    <3>4. ASSUME NEW m \in Message, st' = Append(st, m), ppc # "dead",
       cstate # "reaped"
          PROVE  /\ Len(st') = Len(st) + 1 /\ st' # <<>> /\ Len(st) \in Nat
                 /\ st'[Len(st) + 1] = m
                 /\ \A i \in 1..Len(st) : st'[i].type = "stopped"
      BY <3>1, <3>3, <3>4, SMTT(30)
    <3>5. CASE cstate = "stopped" /\ st' = Append(st,
       [type |-> "stopped"]) /\ cstate' = cstate /\ fpc' = fpc
      <4>1. CASE ppc = "dead"
        BY <3>2, <4>1, Zenon
      <4>2. CASE ppc # "dead"
        <5>1. [type |-> "stopped"] \in Message
          BY Zenon DEF Message
        <5>2. \A i \in 1..Len(st') : st'[i].type = "stopped"
          BY <3>4, <3>5, <4>2, <5>1, SMTT(30)
        <5>3. QED
          BY <3>1, <3>2, <3>5, <4>2, <5>2, Zenon
      <4>3. QED
        BY <4>1, <4>2, SMTT(30)
    <3>6. CASE cstate = "zombie" /\ cstate' = "reaped" /\ st' = Append(st,
       [type |-> "exited"]) /\ fpc' = "read"
      <4>1. CASE ppc = "dead"
        BY <3>2, <4>1, Zenon
      <4>2. CASE ppc # "dead"
        <5>1. [type |-> "exited"] \in Message
          BY Zenon DEF Message
        <5>2. /\ st' # <<>>
              /\ \A i \in 1..Len(st') : st'[i].type = IF i = Len(st') THEN "exited" ELSE "stopped"
          BY <3>4, <3>6, <4>2, <5>1
        <5>3. QED
          BY <3>1, <3>2, <3>6, <4>2, <5>2, Zenon
      <4>3. QED
        BY <4>1, <4>2, Zenon
    <3>7. QED
      BY <2>2, <3>5, <3>6, SMTT(30) DEF ForkserverRelays
  <2>3. QED
    BY <1>3, <2>1, <2>2, Zenon DEF ForkserverStep
<1>4. CASE AflRequest \/ AflTimeout
  BY <1>4, SMTT(30) DEF AflRequest, AflTimeout, Die, AflInStep
<1>5. CASE ProxyStep
  <2>1. CASE NextTestcase
    BY <1>5, <2>1, Zenon DEF NextTestcase, TypeOK, ProxyPc
  <2>2. CASE ReadPid
    BY <1>5, <2>2 DEF ReadPid, TypeOK, ProxyPc
  <2>3. CASE StartClears
    BY <1>5, <2>3, Zenon DEF StartClears, TypeOK, ProxyPc
  <2>4. CASE StartUnready
    BY <1>5, <2>4, SMTT(30) DEF StartUnready, TypeOK, ProxyPc
  <2>5. CASE StartEnables
    BY <1>5, <2>5, Zenon DEF StartEnables, TypeOK, ProxyPc
  <2>6. CASE StartSignals
    BY <1>5, <2>6, Zenon DEF StartSignals, TypeOK, ProxyPc
  <2>7. CASE ReportPid
    BY <1>5, <2>7 DEF ReportPid, TypeOK, ProxyPc
  <2>8. CASE ContinueRun
    BY <1>5, <2>8, Zenon DEF ContinueRun, TypeOK, ProxyPc, SendCont, Exists
  <2>9. CASE ReadStatus
    BY <1>5, <2>9, SMTT(30) DEF ReadStatus, TypeOK, ProxyPc
  <2>10. CASE StopDisables
    BY <1>5, <2>10, Zenon DEF StopDisables, TypeOK, ProxyPc
  <2>11. CASE StopSignals
    BY <1>5, <2>11, Zenon DEF StopSignals, TypeOK, ProxyPc
  <2>12. CASE StopFetches
    BY <1>5, <2>12, SMTT(30) DEF StopFetches, TypeOK, ProxyPc
  <2>13. CASE StopWaits
    BY <1>5, <2>13, SMTT(30) DEF StopWaits, TypeOK, ProxyPc
  <2>14. CASE HiddenAttempt
    BY <1>5, <2>14, Zenon DEF HiddenAttempt, TypeOK, ProxyPc
  <2>15. CASE ReportedAttempt
    BY <1>5, <2>15, SMTT(30) DEF ReportedAttempt, TypeOK, ProxyPc
  <2>16. CASE EndTestcase
    BY <1>5, <2>16, SMTT(30) DEF EndTestcase, TypeOK, ProxyPc
  <2>17. QED
    BY <1>5, <2>1, <2>2, <2>3, <2>4, <2>5, <2>6, <2>7, <2>8, <2>9, <2>10, <2>11,
       <2>12, <2>13, <2>14, <2>15, <2>16, ZenonT(40) DEF ProxyStep
<1>6. CASE UNCHANGED vars
  BY <1>6, Zenon DEF vars
<1>7. QED
  BY <1>1, <1>2, <1>3, <1>4, <1>5, <1>6, Zenon DEF Next

\* What the hardware moves from the ETF to the ETR is trace of the child, and
\* the write pointer stays within the ETR.
LEMMA DrainTyped ==
  ASSUME CoreTypeOK, etf <= emitted, NEW n \in 0..etf, Drain(n)
  PROVE  /\ etr' \subseteq Chunk /\ lost' \subseteq Chunk
         /\ rwp' \in 0..EtrSize-1 /\ etf' \in 0..MaxChunk
<1>1. (emitted - etf + 1 .. emitted - etf + n) \subseteq 1..MaxChunk
  BY TraceCoreAssumption DEF CoreTypeOK
<1>2. {child} \X (emitted - etf + 1 .. emitted - etf + n) \subseteq Chunk
  BY <1>1, Zenon DEF CoreTypeOK, Chunk
<1>3. etr' \subseteq Chunk /\ lost' \subseteq Chunk
  BY <1>2, DrainMoves, Zenon DEF CoreTypeOK
<1>4. (rwp + n) % EtrSize \in 0..EtrSize-1
  BY TraceCoreAssumption DEF CoreTypeOK
<1>5. QED
  BY <1>3, <1>4, TraceCoreAssumption DEF Drain, CoreTypeOK

\* The two halves of TypeOK.
Booleans ==
  /\ start_pending \in BOOLEAN /\ suspend_pending \in BOOLEAN
  /\ stop_pending \in BOOLEAN /\ fini_pending \in BOOLEAN
  /\ decoder_ready \in BOOLEAN /\ sinks \in BOOLEAN
  /\ sigstop \in BOOLEAN /\ reported \in BOOLEAN
  /\ hidden \in BOOLEAN /\ ctl \in BOOLEAN

Values ==
  /\ dpc \in DecoderPc /\ ppc \in ProxyPc /\ cstate \in ChildState
  /\ fpc \in {"read", "wait"} /\ afl \in {"idle", "requested", "running"}
  /\ child_pid \in Pids /\ child \in Pids /\ aflPid \in Pids
  /\ init_pos \in 0..EtrSize-1 /\ rwp \in 0..EtrSize-1
  /\ etf \in 0..MaxChunk /\ emitted \in 0..MaxChunk
  /\ etr \subseteq Chunk /\ buf \subseteq Chunk
  /\ lost \subseteq Chunk /\ unread \subseteq Chunk
  /\ bitmap \subseteq Chunk \cup {Dummy}
  /\ st \in Seq(Message)

\* Every flag stays a flag.
LEMMA BooleansStep == SessionInv /\ [Next]_vars => Booleans'
<1> SUFFICES ASSUME SessionInv, [Next]_vars PROVE Booleans'
  BY Zenon
<1> USE DEF Booleans, eventVars, dataVars, childVars, coreVars, aflVars,
        pipeVars, proxyVars, sessionVars, DecoderAt, ProxyAt
<1>0. Booleans
  BY SMTT(30) DEF SessionInv, TypeOK, CoreTypeOK
<1>1. CASE DecoderStep /\ UNCHANGED sessionVars
  <2>1. CASE decoder_worker
    BY <1>0, <1>1, <2>1, Zenon DEF decoder_worker, wait_event
  <2>2. CASE PollingBegins
    BY <1>0, <1>1, <2>2, Zenon DEF PollingBegins
  <2>3. CASE ReadInitPos
    BY <1>0, <1>1, <2>3, Zenon DEF ReadInitPos
  <2>4. CASE Poll
    BY <1>0, <1>1, <2>4, Zenon DEF Poll
  <2>5. CASE SuspendChild
    BY <1>0, <1>1, <2>5, Zenon DEF SuspendChild, SendStop
  <2>6. CASE WaitSuspend
    BY <1>0, <1>1, <2>6, Zenon DEF WaitSuspend, wait_event
  <2>7. CASE DrainDisables
    BY <1>0, <1>1, <2>7, ZenonT(40) DEF DrainDisables, disable_cs_trace,
       disable_cs_trace_fails
  <2>8. CASE DrainFetches
    BY <1>0, <1>1, <2>8, Zenon DEF DrainFetches, fetch_trace
  <2>9. CASE DrainEnables
    BY <1>0, <1>1, <2>9, ZenonT(40) DEF DrainEnables, enable_cs_trace, enable_cs_trace_fails
  <2>10. CASE ContinueChild
    BY <1>0, <1>1, <2>10, ZenonT(40) DEF ContinueChild, SendCont
  <2>11. CASE DrainDecodes
    BY <1>0, <1>1, <2>11, Zenon DEF DrainDecodes, decode_trace, decode_trace_fails
  <2>12. CASE WaitStop
    BY <1>0, <1>1, <2>12, Zenon DEF WaitStop, wait_event
  <2>13. CASE LastFetch
    BY <1>0, <1>1, <2>13, Zenon DEF LastFetch, fetch_trace
  <2>14. CASE LastDecode
    BY <1>0, <1>1, <2>14, ZenonT(40) DEF LastDecode, decode_trace, decode_trace_fails
  <2>15. CASE PollingEnds
    BY <1>0, <1>1, <2>15, Zenon DEF PollingEnds
  <2>16. QED
    BY <1>1, <2>1, <2>2, <2>3, <2>4, <2>5, <2>6, <2>7, <2>8, <2>9, <2>10, <2>11,
       <2>12, <2>13, <2>14, <2>15, Zenon DEF DecoderStep
<1>2. CASE ChildStep /\ UNCHANGED sessionVars
  <2>1. CASE ChildRuns
    BY <1>0, <1>2, <2>1, Zenon DEF ChildRuns
  <2>2. CASE EtfDrains
    BY <1>0, <1>2, <2>2, Zenon DEF EtfDrains
  <2>3. CASE ChildStops
    BY <1>0, <1>2, <2>3, Zenon DEF ChildStops
  <2>4. CASE ChildExits
    BY <1>0, <1>2, <2>4, Zenon DEF ChildExits, Die
  <2>5. QED
    BY <1>2, <2>1, <2>2, <2>3, <2>4, Zenon DEF ChildStep
<1>3. CASE ForkserverStep
  <2>1. CASE ForkserverForks
    BY <1>0, <1>3, <2>1, Zenon DEF ForkserverForks, Message, Fork
  <2>2. CASE ForkserverRelays
    BY <1>0, <1>3, <2>2, ZenonT(40) DEF ForkserverRelays, Message
  <2>3. QED
    BY <1>3, <2>1, <2>2, Zenon DEF ForkserverStep
<1>4. CASE AflRequest \/ AflTimeout
  <2>1. CASE AflRequest
    BY <1>0, <2>1, Zenon DEF AflRequest
  <2>2. CASE AflTimeout
    BY <1>0, <2>2, ZenonT(40) DEF AflTimeout, Die
  <2>3. QED
    BY <1>4, <2>1, <2>2, Zenon
<1>5. CASE ProxyStep
  <2>1. CASE NextTestcase
    BY <1>0, <1>5, <2>1, HiddenRunsAssumption, Zenon DEF NextTestcase
  <2>2. CASE ReadPid
    BY <1>0, <1>5, <2>2, Zenon DEF ReadPid
  <2>3. CASE StartClears
    BY <1>0, <1>5, <2>3, Zenon DEF StartClears
  <2>4. CASE StartUnready
    BY <1>0, <1>5, <2>4, Zenon DEF StartUnready
  <2>5. CASE StartEnables
    BY <1>0, <1>5, <2>5, ZenonT(40) DEF StartEnables, enable_cs_trace, enable_cs_trace_fails
  <2>6. CASE StartSignals
    BY <1>0, <1>5, <2>6, Zenon DEF StartSignals, signal_event
  <2>7. CASE ReportPid
    BY <1>0, <1>5, <2>7, Zenon DEF ReportPid
  <2>8. CASE ContinueRun
    BY <1>0, <1>5, <2>8, Zenon DEF ContinueRun, SendCont
  <2>9. CASE ReadStatus
    BY <1>0, <1>5, <2>9, Zenon DEF ReadStatus, signal_event
  <2>10. CASE StopDisables
    BY <1>0, <1>5, <2>10, ZenonT(40) DEF StopDisables, disable_cs_trace,
       disable_cs_trace_fails
  <2>11. CASE StopSignals
    BY <1>0, <1>5, <2>11, Zenon DEF StopSignals, signal_event
  <2>12. CASE StopFetches
    BY <1>0, <1>5, <2>12, Zenon DEF StopFetches, fetch_trace
  <2>13. CASE StopWaits
    BY <1>0, <1>5, <2>13, Zenon DEF StopWaits
  <2>14. CASE HiddenAttempt
    BY <1>0, <1>5, <2>14, Zenon DEF HiddenAttempt
  <2>15. CASE ReportedAttempt
    BY <1>0, <1>5, <2>15, Zenon DEF ReportedAttempt
  <2>16. CASE EndTestcase
    BY <1>0, <1>5, <2>16, Zenon DEF EndTestcase
  <2>17. QED
    BY <1>5, <2>1, <2>2, <2>3, <2>4, <2>5, <2>6, <2>7, <2>8, <2>9, <2>10, <2>11,
       <2>12, <2>13, <2>14, <2>15, <2>16, Zenon DEF ProxyStep
<1>6. CASE UNCHANGED vars
  BY <1>0, <1>6, ZenonT(40) DEF vars
<1>7. QED
  BY <1>1, <1>2, <1>3, <1>4, <1>5, <1>6, Zenon DEF Next

\* Every other variable stays within its type.
LEMMA ValuesStep == SessionInv /\ [Next]_vars => Values'
<1> SUFFICES ASSUME SessionInv, [Next]_vars PROVE Values'
  BY Zenon
<1> USE TraceCoreAssumption DEF SessionInv, TypeOK, CoreTypeOK, Values,
        DecoderPc, ChildState, ProxyPc, eventVars, dataVars, childVars,
        lossVars, coreVars, aflVars, pipeVars, proxyVars, sessionVars, DecoderAt, ProxyAt
<1>0. etf <= emitted /\ etf \in 0..etf /\ (etf > 0 => 1 \in 0..etf)
  BY SMTT(30) DEF EtfOfChild
<1>1. CASE DecoderStep /\ UNCHANGED sessionVars
  <2>1. CASE decoder_worker
    BY <1>1, <2>1 DEF decoder_worker, wait_event
  <2>2. CASE PollingBegins
    BY <1>1, <2>2 DEF PollingBegins
  <2>3. CASE ReadInitPos
    BY <1>1, <2>3 DEF ReadInitPos
  <2>4. CASE Poll
    BY <1>1, <2>4 DEF Poll
  <2>5. CASE SuspendChild
    BY <1>1, <2>5 DEF SuspendChild, SendStop
  <2>6. CASE WaitSuspend
    BY <1>1, <2>6, SMTT(30) DEF WaitSuspend, wait_event
  <2>7. CASE DrainDisables
    BY <1>1, <2>7, DrainTyped, <1>0 DEF DrainDisables, disable_cs_trace,
       disable_cs_trace_fails
  <2>8. CASE DrainFetches
    <3>1. /\ etf' = etf /\ bitmap' = bitmap /\ lost' = lost
          /\ buf' \subseteq Chunk /\ etr' \subseteq Chunk /\ unread' \subseteq Chunk
      BY ONLY <2>8, SessionInv, FetchMoves, Zenon DEF DrainFetches, SessionInv, TypeOK, CoreTypeOK
    <3>2. rwp' = rwp \/ rwp' = 0
      BY ONLY <2>8, FetchMoves, Zenon DEF DrainFetches
    <3>3. QED
      BY <1>1, <2>8, <3>1, <3>2, SMTT(30) DEF DrainFetches
  <2>9. CASE DrainEnables
    <3>0. (rwp' = rwp \/ rwp' = 0) /\ (etr' = etr \/ etr' = {})
      BY ONLY <2>9, Zenon DEF DrainEnables, enable_cs_trace, enable_cs_trace_fails
    <3>1. rwp' \in 0..EtrSize-1 /\ etr' \subseteq Chunk
      BY <3>0
    <3>2. UNCHANGED <<etf, buf, bitmap, lost, unread>>
      BY ONLY <2>9, ZenonT(40) DEF DrainEnables, enable_cs_trace, enable_cs_trace_fails,
         lossVars
    <3>3. QED
      BY <1>1, <2>9, <3>1, <3>2 DEF DrainEnables
  <2>10. CASE ContinueChild
    BY <1>1, <2>10 DEF ContinueChild, SendCont
  <2>11. CASE DrainDecodes
    BY <1>1, <2>11 DEF DrainDecodes, decode_trace, decode_trace_fails
  <2>12. CASE WaitStop
    BY <1>1, <2>12 DEF WaitStop, wait_event
  <2>13. CASE LastFetch
    <3>1. /\ etf' = etf /\ bitmap' = bitmap /\ lost' = lost
          /\ buf' \subseteq Chunk /\ etr' \subseteq Chunk /\ unread' \subseteq Chunk
      BY ONLY <2>13, SessionInv, FetchMoves, Zenon DEF LastFetch, SessionInv, TypeOK, CoreTypeOK
    <3>2. rwp' = rwp \/ rwp' = 0
      BY ONLY <2>13, FetchMoves, Zenon DEF LastFetch
    <3>3. QED
      BY <1>1, <2>13, <3>1, <3>2, SMTT(30) DEF LastFetch
  <2>14. CASE LastDecode
    BY <1>1, <2>14, SMTT(30) DEF LastDecode, decode_trace, decode_trace_fails
  <2>15. CASE PollingEnds
    BY <1>1, <2>15, SMTT(30) DEF PollingEnds
  <2>16. QED
    BY <1>1, <2>1, <2>2, <2>3, <2>4, <2>5, <2>6, <2>7, <2>8, <2>9, <2>10, <2>11,
       <2>12, <2>13, <2>14, <2>15, ZenonT(40) DEF DecoderStep
<1>2. CASE ChildStep /\ UNCHANGED sessionVars
  <2>1. CASE ChildRuns
    BY <1>2, <2>1, <1>0, SMTT(30) DEF ChildRuns
  <2>2. CASE EtfDrains
    BY <1>2, <2>2, <1>0, DrainTyped, SMTT(30) DEF EtfDrains
  <2>3. CASE ChildStops
    BY <1>2, <2>3 DEF ChildStops
  <2>4. CASE ChildExits
    BY <1>2, <2>4, SMTT(30) DEF ChildExits, Die
  <2>5. QED
    BY <1>2, <2>1, <2>2, <2>3, <2>4, SMTT(30) DEF ChildStep
<1>3. CASE ForkserverStep
  <2>1. CASE ForkserverForks
    BY <1>3, <2>1, SMTT(30) DEF ForkserverForks, Message, Fork
  <2>2. CASE ForkserverRelays
    BY <1>3, <2>2, SMTT(30) DEF ForkserverRelays, Message
  <2>3. QED
    BY <1>3, <2>1, <2>2, SMTT(30) DEF ForkserverStep
<1>4. CASE AflRequest \/ AflTimeout
  BY <1>4, SMTT(30) DEF AflRequest, AflTimeout, Die
<1>5. CASE ProxyStep
  <2>1. CASE NextTestcase
    BY <1>5, <2>1, Zenon DEF NextTestcase
  <2>2. CASE ReadPid
    BY <1>5, <2>2, SMTT(30) DEF ReadPid
  <2>3. CASE StartClears
    BY <1>5, <2>3, SMTT(30) DEF StartClears
  <2>4. CASE StartUnready
    BY <1>5, <2>4, SMTT(30) DEF StartUnready
  <2>5. CASE StartEnables
    <3>0. (rwp' = rwp \/ rwp' = 0) /\ (etr' = etr \/ etr' = {})
      BY ONLY <2>5, Zenon DEF StartEnables, enable_cs_trace, enable_cs_trace_fails
    <3>1. rwp' \in 0..EtrSize-1 /\ etr' \subseteq Chunk
      BY <3>0
    <3>2. UNCHANGED <<etf, buf, bitmap, lost, unread>>
      BY ONLY <2>5, ZenonT(40) DEF StartEnables, enable_cs_trace, enable_cs_trace_fails,
         lossVars
    <3>3. QED
      BY <1>5, <2>5, <3>1, <3>2 DEF StartEnables
  <2>6. CASE StartSignals
    BY <1>5, <2>6 DEF StartSignals, signal_event
  <2>7. CASE ReportPid
    BY <1>5, <2>7, SMTT(30) DEF ReportPid
  <2>8. CASE ContinueRun
    BY <1>5, <2>8, SMTT(30) DEF ContinueRun, SendCont
  <2>9. CASE ReadStatus
    BY <1>5, <2>9, SMTT(30) DEF ReadStatus, signal_event
  <2>10. CASE StopDisables
    BY <1>5, <2>10, <1>0, DrainTyped, SMTT(30) DEF StopDisables, disable_cs_trace,
       disable_cs_trace_fails
  <2>11. CASE StopSignals
    BY <1>5, <2>11, SMTT(30) DEF StopSignals, signal_event
  <2>12. CASE StopFetches
    <3>1. /\ etf' = etf /\ bitmap' = bitmap /\ lost' = lost
          /\ buf' \subseteq Chunk /\ etr' \subseteq Chunk /\ unread' \subseteq Chunk
      BY ONLY <2>12, SessionInv, FetchMoves, Zenon DEF StopFetches, SessionInv, TypeOK, CoreTypeOK
    <3>2. rwp' = rwp \/ rwp' = 0
      BY ONLY <2>12, FetchMoves, Zenon DEF StopFetches
    <3>3. QED
      BY <1>5, <2>12, <3>1, <3>2, SMTT(30) DEF StopFetches
  <2>13. CASE StopWaits
    BY <1>5, <2>13, SMTT(30) DEF StopWaits
  <2>14. CASE HiddenAttempt
    BY <1>5, <2>14, SMTT(30) DEF HiddenAttempt
  <2>15. CASE ReportedAttempt
    BY <1>5, <2>15, SMTT(30) DEF ReportedAttempt
  <2>16. CASE EndTestcase
    BY <1>5, <2>16, SMTT(30) DEF EndTestcase
  <2>17. QED
    BY <1>5, <2>1, <2>2, <2>3, <2>4, <2>5, <2>6, <2>7, <2>8, <2>9, <2>10, <2>11,
       <2>12, <2>13, <2>14, <2>15, <2>16, ZenonT(40) DEF ProxyStep
<1>6. CASE UNCHANGED vars
  BY <1>6 DEF vars
<1>7. QED
  BY <1>1, <1>2, <1>3, <1>4, <1>5, <1>6, Zenon DEF Next

\* TypeOK is preserved by every operation of the session.
LEMMA TypeOKStep == SessionInv /\ [Next]_vars => TypeOK'
BY BooleansStep, ValuesStep, Zenon DEF Booleans, Values, TypeOK, CoreTypeOK

\* The decoder thread, the forkserver and AFL++ stay in step with the proxy in
\* every build, at every threshold and whatever calls fail.
THEOREM SessionInvariant == Spec => []SessionInv
<1>1. SessionInv /\ [Next]_vars => SessionInv'
  BY TypeOKStep, HandshakeStep, AflInStepStep, PipeInStepStep,
     EtfOfChildStep, Zenon DEF SessionInv
<1>2. QED
  BY InitInv, <1>1, PTL DEF Spec

\* Every variable keeps its type, whatever fails.
THEOREM TypeCorrect == Spec => []TypeOK
BY SessionInvariant, PTL DEF SessionInv

\* While AFL++ is idle no step writes the map or trace_buf: the decoder is at its
\* wait and the proxy waits for a request.
LEMMA MapIsFrozen == SessionInv /\ Next /\ afl = "idle" => UNCHANGED <<bitmap, buf>>
<1> SUFFICES ASSUME SessionInv, Next, afl = "idle" PROVE UNCHANGED <<bitmap, buf>>
  BY Zenon
<1>1. ppc = "idle" /\ dpc \in {"waitStart", "none"}
  BY SMTT(30) DEF decoding_on, SessionInv, AflInStep, Handshake, BetweenAttempts
<1> USE <1>1 DEF eventVars, dataVars, childVars, coreVars, DecoderAt, ProxyAt
<1>2. CASE DecoderStep
  BY <1>2, ZenonT(40) DEF DecoderStep, decoder_worker, PollingBegins, ReadInitPos, Poll,
     SuspendChild, WaitSuspend, DrainDisables, DrainFetches, DrainEnables,
     ContinueChild, DrainDecodes, WaitStop, LastFetch, LastDecode, PollingEnds,
     disable_cs_trace, disable_cs_trace_fails, enable_cs_trace,
     enable_cs_trace_fails, fetch_trace
<1>3. CASE ChildStep
  BY <1>3, SMTT(30) DEF ChildStep, ChildRuns, EtfDrains, ChildStops, ChildExits
<1>4. CASE ForkserverStep \/ AflRequest \/ AflTimeout
  BY <1>4, SMTT(30) DEF ForkserverStep, ForkserverForks, ForkserverRelays, AflRequest,
     AflTimeout
<1>5. CASE ProxyStep
  BY <1>5, Zenon DEF ProxyStep, NextTestcase, ReadPid, StartClears, StartUnready,
     StartEnables, StartSignals, ReportPid, ContinueRun, ReadStatus,
     StopDisables, StopSignals, StopFetches, StopWaits, HiddenAttempt,
     ReportedAttempt, EndTestcase
<1>6. QED
  BY <1>2, <1>3, <1>4, <1>5, Zenon DEF Next

\* AFL++ reads a map that does not move, in every build, at every threshold and
\* whatever calls fail: between the status and the next request nobody writes
\* trace_bitmap.
THEOREM MapStaysFrozen == Spec => MapFrozen
<1>1. SessionInv /\ [Next]_vars => [afl = "idle" => bitmap' = bitmap]_vars
  BY MapIsFrozen, Zenon
<1>2. QED
  BY <1>1, SessionInvariant, PTL DEF Spec, MapFrozen

-----------------------------------------------------------------------------
(* Whose trace AFL++ is shown, with drains, hidden attempts and timeouts.  *)

\* The calls that may fail without leaving the stop event of an attempt to the
\* next one.  A decode that fails in a drain does (session_stale_stop), but the
\* Stalker build has no drains.
EventsKept ==
  Faults \subseteq {"reset", "enable"} \cup (IF Stalker THEN {"decode"} ELSE {})

\* The decoder has the stop event of its attempt.
Finishing == {"lastFetch", "lastDecode", "exit"}

\* The decoder drains the sinks in the middle of a run.
Drains ==
  {"sigstop", "waitSuspend", "disable", "fetch", "enable", "sigcont", "decode"}

\* The stop event of an attempt is consumed in the attempt.
StopConsumed ==
  /\ stop_pending => decoding_on /\ ppc = "waitReady" /\ ~decoder_ready
  /\ dpc \in Finishing => ppc = "waitReady" /\ ~stop_pending
  /\ ppc = "waitReady" => decoding_on
  /\ decoding_on /\ ppc \in {"report", "cont", "wait", "disable", "signalStop"}
       => ~decoder_ready
  /\ Stalker => dpc \notin Drains

\* The last fetch of an attempt leaves nothing in the ETR for the next one.
EtrEmptied ==
  /\ ppc \in BetweenAttempts => etr = {}
  /\ dpc \in {"lastDecode", "exit"} => etr = {}
  /\ decoding_on /\ ppc = "waitReady" /\ decoder_ready => etr = {}

\* From start_trace() to the end of the attempt all trace is the child's.
OwnTrace ==
  ppc \notin {"askPid", "clear"} =>
    etr \subseteq Ran /\ buf \subseteq Ran /\ bitmap \subseteq Ran \cup {Dummy}

OwnInv == StopConsumed /\ EtrEmptied /\ OwnTrace

\* What the assumption comes to in the steps of the session.
LEMMA Kept ==
  EventsKept => /\ ~MayFail("affinity") /\ ~MayFail("disable") /\ ~MayFail("fetch")
                /\ MayFail("decode") => Stalker
BY DEF EventsKept, MayFail

\* StopConsumed is preserved: the decoder finishes an attempt only on its stop
\* event, and only without drains may a decode fail.
LEMMA StopConsumedStep ==
  EventsKept /\ SessionInv /\ StopConsumed /\ [Next]_vars => StopConsumed'
<1> SUFFICES ASSUME EventsKept, SessionInv, StopConsumed, [Next]_vars PROVE
   StopConsumed'
  BY Zenon
<1> USE Kept DEF decoding_on, StopConsumed, Finishing, Drains, SessionInv, Handshake,
   eventVars, childVars, coreVars, aflVars, pipeVars, proxyVars, sessionVars, DecoderAt,
   ProxyAt
<1>1. CASE DecoderStep /\ UNCHANGED sessionVars
  <2>1. CASE decoder_worker
    BY <1>1, <2>1, Zenon DEF decoder_worker, wait_event, TypeOK, CoreTypeOK
  <2>2. CASE PollingBegins
    BY <1>1, <2>2, Zenon DEF PollingBegins
  <2>3. CASE ReadInitPos
    BY <1>1, <2>3, Zenon DEF ReadInitPos
  <2>4. CASE Poll
    BY <1>1, <2>4, Zenon DEF Poll, AboveThreshold
  <2>5. CASE SuspendChild
    BY <1>1, <2>5, Zenon DEF SuspendChild
  <2>6. CASE WaitSuspend
    BY <1>1, <2>6, Zenon DEF WaitSuspend, wait_event
  <2>7. CASE DrainDisables
    BY <1>1, <2>7, Zenon DEF DrainDisables, disable_cs_trace_fails
  <2>8. CASE DrainFetches
    BY <1>1, <2>8, Zenon DEF DrainFetches
  <2>9. CASE DrainEnables
    BY <1>1, <2>9, Zenon DEF DrainEnables
  <2>10. CASE ContinueChild
    BY <1>1, <2>10, Zenon DEF ContinueChild
  <2>11. CASE DrainDecodes
    BY <1>1, <2>11, Zenon DEF DrainDecodes, decode_trace_fails
  <2>12. CASE WaitStop
    BY <1>1, <2>12, Zenon DEF WaitStop, wait_event
  <2>13. CASE LastFetch
    BY <1>1, <2>13, Zenon DEF LastFetch
  <2>14. CASE LastDecode
    BY <1>1, <2>14, Zenon DEF LastDecode
  <2>15. CASE PollingEnds
    BY <1>1, <2>15, Zenon DEF PollingEnds
  <2>16. QED
    BY <1>1, <2>1, <2>2, <2>3, <2>4, <2>5, <2>6, <2>7, <2>8, <2>9, <2>10, <2>11, <2>12,
       <2>13, <2>14, <2>15, Zenon DEF DecoderStep
<1>2. CASE ChildStep /\ UNCHANGED sessionVars
  <2>1. CASE ChildRuns
    BY <1>2, <2>1, Zenon DEF ChildRuns, SessionInv
  <2>2. CASE EtfDrains
    BY <1>2, <2>2, Zenon DEF EtfDrains
  <2>3. CASE ChildStops
    BY <1>2, <2>3, Zenon DEF ChildStops
  <2>4. CASE ChildExits
    BY <1>2, <2>4, Zenon DEF ChildExits
  <2>5. QED
    BY <1>2, <2>1, <2>2, <2>3, <2>4, Zenon DEF ChildStep
<1>3. CASE ForkserverStep
  <2>1. CASE ForkserverForks
    BY <1>3, <2>1, Zenon DEF ForkserverForks
  <2>2. CASE ForkserverRelays
    BY <1>3, <2>2, Zenon DEF ForkserverRelays
  <2>3. QED
    BY <1>3, <2>1, <2>2, Zenon DEF ForkserverStep
<1>4. CASE AflRequest \/ AflTimeout
  <2>1. CASE AflRequest
    BY <1>4, <2>1, Zenon DEF AflRequest
  <2>2. CASE AflTimeout
    BY <1>4, <2>2, Zenon DEF AflTimeout
  <2>3. QED
    BY <1>4, <2>1, <2>2, Zenon
<1>5. CASE ProxyStep
  <2>1. CASE NextTestcase
    BY <1>5, <2>1, Zenon DEF NextTestcase
  <2>2. CASE ReadPid
    BY <1>5, <2>2, Zenon DEF ReadPid
  <2>3. CASE StartClears
    BY <1>5, <2>3, Zenon DEF StartClears, BetweenAttempts
  <2>4. CASE StartUnready
    BY <1>5, <2>4, Zenon DEF StartUnready, TypeOK, CoreTypeOK
  <2>5. CASE StartEnables
    BY <1>5, <2>5, Zenon DEF StartEnables, BetweenAttempts
  <2>6. CASE StartSignals
    BY <1>5, <2>6, Zenon DEF StartSignals, BetweenAttempts, signal_event
  <2>7. CASE ReportPid
    BY <1>5, <2>7, Zenon DEF ReportPid
  <2>8. CASE ContinueRun
    BY <1>5, <2>8, Zenon DEF ContinueRun
  <2>9. CASE ReadStatus
    BY <1>5, <2>9, Zenon DEF ReadStatus
  <2>10. CASE StopDisables
    BY <1>5, <2>10, Zenon DEF StopDisables, disable_cs_trace_fails
  <2>11. CASE StopSignals
    BY <1>5, <2>11, Zenon DEF StopSignals, signal_event
  <2>12. CASE StopFetches
    BY <1>5, <2>12, Zenon DEF StopFetches
  <2>13. CASE StopWaits
    BY <1>5, <2>13, Zenon DEF StopWaits
  <2>14. CASE HiddenAttempt
    BY <1>5, <2>14, Zenon DEF HiddenAttempt
  <2>15. CASE ReportedAttempt
    BY <1>5, <2>15, Zenon DEF ReportedAttempt
  <2>16. CASE EndTestcase
    BY <1>5, <2>16, Zenon DEF EndTestcase
  <2>17. QED
    BY <1>5, <2>1, <2>2, <2>3, <2>4, <2>5, <2>6, <2>7, <2>8, <2>9, <2>10, <2>11, <2>12,
       <2>13, <2>14, <2>15, <2>16, Zenon DEF ProxyStep
<1>6. CASE UNCHANGED vars
  BY <1>6, Zenon DEF vars
<1>7. QED
  BY <1>1, <1>2, <1>3, <1>4, <1>5, <1>6, Zenon DEF Next
\* EtrEmptied is preserved: once the sinks are disabled the ETF is empty, and the
\* fetch that follows is the last thing to touch the ETR before the next run.
LEMMA EtrEmptiedStep ==
  EventsKept /\ SessionInv /\ StopConsumed /\ EtrEmptied /\ [Next]_vars => EtrEmptied'
<1> SUFFICES ASSUME EventsKept, SessionInv, StopConsumed, EtrEmptied, [Next]_vars PROVE
   EtrEmptied'
  BY Zenon
<1> USE Kept DEF decoding_on, StopConsumed, Finishing, EtrEmptied, SessionInv,
   Handshake, EtfOfChild, BetweenAttempts, dataVars, eventVars, childVars, coreVars,
   aflVars, pipeVars, proxyVars, sessionVars, DecoderAt, ProxyAt
<1>1. CASE DecoderStep /\ UNCHANGED sessionVars
  <2>1. CASE decoder_worker
    BY <1>1, <2>1, Zenon DEF decoder_worker
  <2>2. CASE PollingBegins
    BY <1>1, <2>2, Zenon DEF PollingBegins
  <2>3. CASE ReadInitPos
    BY <1>1, <2>3, Zenon DEF ReadInitPos
  <2>4. CASE Poll
    BY <1>1, <2>4, Zenon DEF Poll
  <2>5. CASE SuspendChild
    BY <1>1, <2>5, Zenon DEF SuspendChild
  <2>6. CASE WaitSuspend
    BY <1>1, <2>6, Zenon DEF WaitSuspend
  <2>7. CASE DrainDisables
    BY <1>1, <2>7, Zenon DEF DrainDisables, disable_cs_trace_fails
  <2>8. CASE DrainFetches
    BY <1>1, <2>8, Zenon DEF DrainFetches
  <2>9. CASE DrainEnables
    BY <1>1, <2>9, Zenon DEF DrainEnables
  <2>10. CASE ContinueChild
    BY <1>1, <2>10, Zenon DEF ContinueChild
  <2>11. CASE DrainDecodes
    BY <1>1, <2>11, Zenon DEF DrainDecodes, Drains, decode_trace, decode_trace_fails
  <2>12. CASE WaitStop
    BY <1>1, <2>12, Zenon DEF WaitStop, wait_event
  <2>13. CASE LastFetch
    BY <1>1, <2>13, FetchTakesAll, Zenon DEF LastFetch
  <2>14. CASE LastDecode
    BY <1>1, <2>14, Zenon DEF LastDecode, decode_trace, decode_trace_fails
  <2>15. CASE PollingEnds
    BY <1>1, <2>15, Zenon DEF PollingEnds
  <2>16. QED
    BY <1>1, <2>1, <2>2, <2>3, <2>4, <2>5, <2>6, <2>7, <2>8, <2>9, <2>10, <2>11, <2>12,
       <2>13, <2>14, <2>15, Zenon DEF DecoderStep
<1>2. CASE ChildStep /\ UNCHANGED sessionVars
  <2>1. CASE ChildRuns
    BY <1>2, <2>1, Zenon DEF ChildRuns, SessionInv
  <2>2. CASE EtfDrains
    BY <1>2, <2>2 DEF EtfDrains
  <2>3. CASE ChildStops
    BY <1>2, <2>3, Zenon DEF ChildStops
  <2>4. CASE ChildExits
    BY <1>2, <2>4, Zenon DEF ChildExits
  <2>5. QED
    BY <1>2, <2>1, <2>2, <2>3, <2>4, Zenon DEF ChildStep
<1>3. CASE ForkserverStep
  <2>1. CASE ForkserverForks
    BY <1>3, <2>1, Zenon DEF ForkserverForks
  <2>2. CASE ForkserverRelays
    BY <1>3, <2>2, Zenon DEF ForkserverRelays
  <2>3. QED
    BY <1>3, <2>1, <2>2, Zenon DEF ForkserverStep
<1>4. CASE AflRequest \/ AflTimeout
  <2>1. CASE AflRequest
    BY <1>4, <2>1, Zenon DEF AflRequest
  <2>2. CASE AflTimeout
    BY <1>4, <2>2, Zenon DEF AflTimeout
  <2>3. QED
    BY <1>4, <2>1, <2>2, Zenon
<1>5. CASE ProxyStep
  <2>1. CASE NextTestcase
    BY <1>5, <2>1, Zenon DEF NextTestcase
  <2>2. CASE ReadPid
    BY <1>5, <2>2, Zenon DEF ReadPid
  <2>3. CASE StartClears
    BY <1>5, <2>3, Zenon DEF StartClears
  <2>4. CASE StartUnready
    BY <1>5, <2>4, Zenon DEF StartUnready, TypeOK, CoreTypeOK
  <2>5. CASE StartEnables
    BY <1>5, <2>5, Zenon DEF StartEnables, enable_cs_trace, enable_cs_trace_fails
  <2>6. CASE StartSignals
    BY <1>5, <2>6, Zenon DEF StartSignals
  <2>7. CASE ReportPid
    BY <1>5, <2>7, Zenon DEF ReportPid
  <2>8. CASE ContinueRun
    BY <1>5, <2>8, Zenon DEF ContinueRun
  <2>9. CASE ReadStatus
    BY <1>5, <2>9, Zenon DEF ReadStatus
  <2>10. CASE StopDisables
    BY <1>5, <2>10, Zenon DEF StopDisables, disable_cs_trace_fails
  <2>11. CASE StopSignals
    BY <1>5, <2>11, Zenon DEF StopSignals, signal_event
  <2>12. CASE StopFetches
    BY <1>5, <2>12, FetchTakesAll, Zenon DEF StopFetches
  <2>13. CASE StopWaits
    BY <1>5, <2>13, Zenon DEF StopWaits
  <2>14. CASE HiddenAttempt
    BY <1>5, <2>14, Zenon DEF HiddenAttempt
  <2>15. CASE ReportedAttempt
    BY <1>5, <2>15, Zenon DEF ReportedAttempt
  <2>16. CASE EndTestcase
    BY <1>5, <2>16, Zenon DEF EndTestcase
  <2>17. QED
    BY <1>5, <2>1, <2>2, <2>3, <2>4, <2>5, <2>6, <2>7, <2>8, <2>9, <2>10, <2>11, <2>12,
       <2>13, <2>14, <2>15, <2>16, Zenon DEF ProxyStep
<1>6. CASE UNCHANGED vars
  BY <1>6, Zenon DEF vars
<1>7. QED
  BY <1>1, <1>2, <1>3, <1>4, <1>5, <1>6, Zenon DEF Next

\* What reaches the ETR is trace of the current child: a chunk when the hardware
\* gets to it, the rest when a disable flushes the ETF.
LEMMA EtrIsOwn ==
  ASSUME SessionInv, etr \subseteq Ran, disable_cs_trace \/ EtfDrains
  PROVE  etr' \subseteq Ran
<1>1. etf \in Nat /\ emitted \in Nat /\ etf <= emitted
  BY DEF SessionInv, TypeOK, CoreTypeOK, EtfOfChild
<1>2. PICK n \in 0..etf : Drain(n)
  BY <1>1 DEF disable_cs_trace, EtfDrains
<1>3. (emitted - etf + 1 .. emitted - etf + n) \subseteq 1..emitted
  BY <1>1
<1>4. QED
  BY <1>2, <1>3, DrainMoves, Zenon DEF Ran

\* A step that does not fork leaves the child the trace it has generated.
LEMMA RanStays ==
  /\ UNCHANGED <<child, emitted>> => Ran' = Ran
  /\ ChildRuns /\ TypeOK => Ran \subseteq Ran'
<1>1. UNCHANGED <<child, emitted>> => Ran' = Ran
  BY Zenon DEF Ran
<1>2. ChildRuns /\ TypeOK => Ran \subseteq Ran'
  BY DEF Ran, ChildRuns, TypeOK, CoreTypeOK
<1>3. QED
  BY <1>1, <1>2, Zenon

\* OwnTrace is preserved: start_trace() clears what an earlier attempt left, and
\* nothing but the child's own trace enters the sinks after it.
LEMMA OwnTraceStep ==
  EventsKept /\ SessionInv /\ OwnInv /\ [Next]_vars => OwnTrace'
<1> SUFFICES ASSUME EventsKept, SessionInv, OwnInv, [Next]_vars PROVE OwnTrace'
  BY Zenon
<1> USE Kept, RanStays DEF OwnInv, OwnTrace, dataVars, eventVars, childVars,
   coreVars, aflVars, pipeVars, proxyVars, sessionVars, DecoderAt, ProxyAt
<1>1. CASE DecoderStep /\ UNCHANGED sessionVars
  <2>1. CASE decoder_worker
    BY <1>1, <2>1, Zenon DEF decoder_worker
  <2>2. CASE PollingBegins
    BY <1>1, <2>2, Zenon DEF PollingBegins
  <2>3. CASE ReadInitPos
    BY <1>1, <2>3, Zenon DEF ReadInitPos
  <2>4. CASE Poll
    BY <1>1, <2>4, Zenon DEF Poll
  <2>5. CASE SuspendChild
    BY <1>1, <2>5, Zenon DEF SuspendChild, SendStop
  <2>6. CASE WaitSuspend
    BY <1>1, <2>6, Zenon DEF WaitSuspend
  <2>7. CASE DrainDisables
    <3>1. disable_cs_trace
      BY <2>7, Zenon DEF DrainDisables, disable_cs_trace_fails
    <3>2. etr \subseteq Ran => etr' \subseteq Ran
      BY <3>1, EtrIsOwn, Zenon
    <3>3. QED
      BY <1>1, <2>7, <3>1, <3>2, Zenon DEF DrainDisables, disable_cs_trace
  <2>8. CASE DrainFetches
    BY <1>1, <2>8, FetchTakesAll, Zenon DEF DrainFetches
  <2>9. CASE DrainEnables
    BY <1>1, <2>9, Zenon DEF DrainEnables, enable_cs_trace, enable_cs_trace_fails
  <2>10. CASE ContinueChild
    BY <1>1, <2>10, Zenon DEF ContinueChild, SendCont
  <2>11. CASE DrainDecodes
    BY <1>1, <2>11, Zenon DEF DrainDecodes, decode_trace, decode_trace_fails
  <2>12. CASE WaitStop
    BY <1>1, <2>12, Zenon DEF WaitStop
  <2>13. CASE LastFetch
    BY <1>1, <2>13, FetchTakesAll, Zenon DEF LastFetch
  <2>14. CASE LastDecode
    BY <1>1, <2>14, Zenon DEF LastDecode, decode_trace, decode_trace_fails
  <2>15. CASE PollingEnds
    BY <1>1, <2>15, Zenon DEF PollingEnds
  <2>16. QED
    BY <1>1, <2>1, <2>2, <2>3, <2>4, <2>5, <2>6, <2>7, <2>8, <2>9, <2>10, <2>11, <2>12,
       <2>13, <2>14, <2>15, Zenon DEF DecoderStep
<1>2. CASE ChildStep /\ UNCHANGED sessionVars
  <2>1. CASE ChildRuns
    BY <1>2, <2>1, Zenon DEF ChildRuns, SessionInv
  <2>2. CASE EtfDrains
    BY <1>2, <2>2, EtrIsOwn, Zenon DEF EtfDrains
  <2>3. CASE ChildStops
    BY <1>2, <2>3, Zenon DEF ChildStops
  <2>4. CASE ChildExits
    BY <1>2, <2>4, Zenon DEF ChildExits, Die
  <2>5. QED
    BY <1>2, <2>1, <2>2, <2>3, <2>4, Zenon DEF ChildStep
<1>3. CASE ForkserverStep
  <2>1. CASE ForkserverForks
    BY <1>3, <2>1 DEF ForkserverForks, SessionInv, PipeInStep, TypeOK, ProxyPc, Statuses
  <2>2. CASE ForkserverRelays
    BY <1>3, <2>2, Zenon DEF ForkserverRelays
  <2>3. QED
    BY <1>3, <2>1, <2>2, Zenon DEF ForkserverStep
<1>4. CASE AflRequest \/ AflTimeout
  <2>1. CASE AflRequest
    BY <1>4, <2>1, Zenon DEF AflRequest
  <2>2. CASE AflTimeout
    BY <1>4, <2>2, Zenon DEF AflTimeout, Die
  <2>3. QED
    BY <1>4, <2>1, <2>2, Zenon
<1>5. CASE ProxyStep
  <2>1. CASE NextTestcase
    BY <1>5, <2>1, Zenon DEF NextTestcase
  <2>2. CASE ReadPid
    BY <1>5, <2>2, Zenon DEF ReadPid
  <2>3. CASE StartClears
    BY <1>5, <2>3, Zenon DEF StartClears, EtrEmptied, BetweenAttempts
  <2>4. CASE StartUnready
    BY <1>5, <2>4, Zenon DEF StartUnready
  <2>5. CASE StartEnables
    BY <1>5, <2>5, Zenon DEF StartEnables, enable_cs_trace, enable_cs_trace_fails
  <2>6. CASE StartSignals
    BY <1>5, <2>6, Zenon DEF StartSignals
  <2>7. CASE ReportPid
    BY <1>5, <2>7, Zenon DEF ReportPid
  <2>8. CASE ContinueRun
    BY <1>5, <2>8, Zenon DEF ContinueRun, SendCont
  <2>9. CASE ReadStatus
    BY <1>5, <2>9, Zenon DEF ReadStatus
  <2>10. CASE StopDisables
    <3>1. disable_cs_trace
      BY <2>10, Zenon DEF StopDisables, disable_cs_trace_fails
    <3>2. etr \subseteq Ran => etr' \subseteq Ran
      BY <3>1, EtrIsOwn, Zenon
    <3>3. QED
      BY <1>5, <2>10, <3>1, <3>2, Zenon DEF StopDisables, disable_cs_trace
  <2>11. CASE StopSignals
    BY <1>5, <2>11, Zenon DEF StopSignals
  <2>12. CASE StopFetches
    BY <1>5, <2>12, FetchTakesAll, Zenon DEF StopFetches
  <2>13. CASE StopWaits
    BY <1>5, <2>13, Zenon DEF StopWaits
  <2>14. CASE HiddenAttempt
    BY <1>5, <2>14, Zenon DEF HiddenAttempt
  <2>15. CASE ReportedAttempt
    BY <1>5, <2>15, Zenon DEF ReportedAttempt
  <2>16. CASE EndTestcase
    BY <1>5, <2>16, Zenon DEF EndTestcase
  <2>17. QED
    BY <1>5, <2>1, <2>2, <2>3, <2>4, <2>5, <2>6, <2>7, <2>8, <2>9, <2>10, <2>11, <2>12,
       <2>13, <2>14, <2>15, <2>16, Zenon DEF ProxyStep
<1>6. CASE UNCHANGED vars
  BY <1>6, Zenon DEF vars
<1>7. QED
  BY <1>1, <1>2, <1>3, <1>4, <1>5, <1>6, Zenon DEF Next


\* The invariant is inductive on top of SessionInv.
LEMMA OwnInvariant == ASSUME EventsKept PROVE Spec => []OwnInv
<1>1. Init => OwnInv
  BY Zenon DEF Init, CoreInit, OwnInv, StopConsumed, EtrEmptied, OwnTrace, BetweenAttempts,
     Finishing, Drains
<1>2. SessionInv /\ OwnInv /\ [Next]_vars => OwnInv'
  BY StopConsumedStep, EtrEmptiedStep, OwnTraceStep, Zenon DEF OwnInv
<1>3. QED
  BY <1>1, <1>2, SessionInvariant, PTL DEF Spec

\* No attempt's coverage leaks into another's: whatever build, with drains in the
\* middle of runs, timeouts and start_trace() failing, the map AFL++ is given is
\* the trace of the last child only (or the dummy byte).
THEOREM MapIsOwn == ASSUME EventsKept PROVE Spec => []OwnTraceOnly
<1>1. SessionInv /\ OwnInv => OwnTraceOnly
  BY Zenon DEF SessionInv, AflInStep, OwnInv, OwnTrace, OwnTraceOnly
<1>2. QED
  BY <1>1, SessionInvariant, OwnInvariant, PTL

\* stop_trace() returns only when the sinks hold nothing more of the attempt: no
\* stop event of another attempt made the decoder fetch early.
THEOREM SinksAreCollected == ASSUME EventsKept PROVE Spec => []CollectedWhenReported
<1>1. SessionInv /\ OwnInv => CollectedWhenReported
  BY Zenon DEF SessionInv, EtfOfChild, OwnInv, EtrEmptied, CollectedWhenReported, BetweenAttempts
<1>2. QED
  BY <1>1, SessionInvariant, OwnInvariant, PTL

\* Between two attempts the decoder thread is back at its wait for the start event,
\* with neither a start nor a stop event left over.
THEOREM DecoderStaysInStep == ASSUME EventsKept PROVE Spec => []DecoderInStep
<1>1. SessionInv /\ OwnInv => DecoderInStep
  BY Zenon DEF SessionInv, Handshake, OwnInv, StopConsumed, DecoderInStep, BetweenAttempts
<1>2. QED
  BY <1>1, SessionInvariant, OwnInvariant, PTL

-----------------------------------------------------------------------------
(* Who waits for whom: AFL++, the proxy, the forkserver, the decoder thread*)
(* and a stopped child.                                                    *)

\* No start_trace() or stop_trace() fails: after one that did, the proxy waits for
\* a decoder that was not started, or is gone.
SessionsStart == Faults \subseteq IF Stalker THEN {"decode"} ELSE {}

\* AFL++ waits for a pid until the reported attempt, and never knows the pid of
\* a hidden one: it does not kill that child before it is resumed.
HiddenInStep ==
  /\ ppc \in {"askPid", "clear", "unready", "enable", "signalStart", "report"}
       /\ ~hidden => afl = "requested"
  /\ ppc = "cont" /\ hidden
       => cstate = "selfstopped" /\ (afl = "running" => aflPid # child)
  /\ ppc # "dead"
  /\ ppc = "idle" => afl # "running"

\* The decoder has the child stopped, or is about to have it so.
Draining == {"disable", "fetch", "enable", "sigcont"}

\* A child is stopped for the decoder alone, which continues it; the stop, or the
\* end of the child, is on its way to the decoder as the suspend event.
SuspendInStep ==
  /\ cstate # "trapped"
  /\ sigstop => cstate = "running"
  /\ ppc = "cont" => cstate \notin {"running", "stopped"}
  /\ cstate = "stopped" \/ sigstop => dpc \in {"waitSuspend"} \cup Draining
  /\ dpc = "waitSuspend" /\ ~suspend_pending =>
       \/ sigstop
       \/ cstate = "stopped" /\ ~reported
       \/ cstate = "zombie"
       \/ st # <<>> /\ ppc \in {"cont", "wait"}
  /\ cstate = "stopped" /\ reported /\ st = <<>> => dpc \in Draining \/ suspend_pending

\* The decoder has been told of the attempt the proxy works on, and of its end.
EventsInStep ==
  /\ decoding_on /\ ~decoder_ready
       /\ ppc \in {"report", "cont", "wait", "disable", "signalStop", "waitReady"}
       => start_pending \/ dpc # "waitStart"
  /\ ppc = "waitReady" /\ ~decoder_ready /\ dpc \notin Finishing => stop_pending

WaitInv == HiddenInStep /\ SuspendInStep /\ EventsInStep

\* What the assumption comes to in the steps of the session.
LEMMA Started ==
  SessionsStart => /\ EventsKept
                   /\ ~MayFail("affinity") /\ ~MayFail("reset")
                   /\ ~MayFail("enable") /\ ~MayFail("disable") /\ ~MayFail("fetch")
BY DEF SessionsStart, EventsKept, MayFail

\* HiddenInStep is preserved: the pid is reported, or not, before the resume.
LEMMA HiddenInStepStep ==
  SessionsStart /\ SessionInv /\ OwnInv /\ WaitInv /\ [Next]_vars => HiddenInStep'
<1> SUFFICES ASSUME SessionsStart, SessionInv, OwnInv, WaitInv, [Next]_vars PROVE
   HiddenInStep'
  BY Zenon
<1> USE Started DEF WaitInv, HiddenInStep, SessionInv, AflInStep, PipeInStep, eventVars,
   childVars, coreVars, aflVars, pipeVars, proxyVars, sessionVars, DecoderAt, ProxyAt
<1>1. CASE DecoderStep /\ UNCHANGED sessionVars
  <2>1. CASE decoder_worker
    BY <1>1, <2>1, Zenon DEF decoder_worker
  <2>2. CASE PollingBegins
    BY <1>1, <2>2, Zenon DEF PollingBegins
  <2>3. CASE ReadInitPos
    BY <1>1, <2>3, Zenon DEF ReadInitPos
  <2>4. CASE Poll
    BY <1>1, <2>4, Zenon DEF Poll
  <2>5. CASE SuspendChild
    BY <1>1, <2>5, Zenon DEF SuspendChild, SendStop
  <2>6. CASE WaitSuspend
    BY <1>1, <2>6, Zenon DEF WaitSuspend
  <2>7. CASE DrainDisables
    BY <1>1, <2>7, Zenon DEF DrainDisables
  <2>8. CASE DrainFetches
    BY <1>1, <2>8, Zenon DEF DrainFetches
  <2>9. CASE DrainEnables
    BY <1>1, <2>9, Zenon DEF DrainEnables
  <2>10. CASE ContinueChild
    BY <1>1, <2>10, Zenon DEF ContinueChild, SendCont, EtfOfChild
  <2>11. CASE DrainDecodes
    BY <1>1, <2>11, Zenon DEF DrainDecodes
  <2>12. CASE WaitStop
    BY <1>1, <2>12, Zenon DEF WaitStop
  <2>13. CASE LastFetch
    BY <1>1, <2>13, Zenon DEF LastFetch
  <2>14. CASE LastDecode
    BY <1>1, <2>14, Zenon DEF LastDecode
  <2>15. CASE PollingEnds
    BY <1>1, <2>15, Zenon DEF PollingEnds
  <2>16. QED
    BY <1>1, <2>1, <2>2, <2>3, <2>4, <2>5, <2>6, <2>7, <2>8, <2>9, <2>10, <2>11, <2>12,
       <2>13, <2>14, <2>15, Zenon DEF DecoderStep
<1>2. CASE ChildStep /\ UNCHANGED sessionVars
  <2>1. CASE ChildRuns
    BY <1>2, <2>1, Zenon DEF ChildRuns
  <2>2. CASE EtfDrains
    BY <1>2, <2>2, Zenon DEF EtfDrains
  <2>3. CASE ChildStops
    BY <1>2, <2>3, Zenon DEF ChildStops
  <2>4. CASE ChildExits
    BY <1>2, <2>4, Zenon DEF ChildExits, Die
  <2>5. QED
    BY <1>2, <2>1, <2>2, <2>3, <2>4, Zenon DEF ChildStep
<1>3. CASE ForkserverStep
  <2>1. CASE ForkserverForks
    BY <1>3, <2>1 DEF ForkserverForks, TypeOK, ProxyPc, Statuses
  <2>2. CASE ForkserverRelays
    BY <1>3, <2>2, Zenon DEF ForkserverRelays
  <2>3. QED
    BY <1>3, <2>1, <2>2, Zenon DEF ForkserverStep
<1>4. CASE AflRequest \/ AflTimeout
  <2>1. CASE AflRequest
    BY <1>4, <2>1, Zenon DEF AflRequest
  <2>2. CASE AflTimeout
    BY <1>4, <2>2, Zenon DEF AflTimeout, Die
  <2>3. QED
    BY <1>4, <2>1, <2>2, Zenon
<1>5. CASE ProxyStep
  <2>1. CASE NextTestcase
    BY <1>5, <2>1, Zenon DEF NextTestcase
  <2>2. CASE ReadPid
    BY <1>5, <2>2, Zenon DEF ReadPid
  <2>3. CASE StartClears
    BY <1>5, <2>3, Zenon DEF StartClears
  <2>4. CASE StartUnready
    BY <1>5, <2>4, Zenon DEF StartUnready
  <2>5. CASE StartEnables
    BY <1>5, <2>5, Zenon DEF StartEnables, enable_cs_trace_fails
  <2>6. CASE StartSignals
    BY <1>5, <2>6, Zenon DEF StartSignals
  <2>7. CASE ReportPid
    BY <1>5, <2>7, Zenon DEF ReportPid
  <2>8. CASE ContinueRun
    BY <1>5, <2>8, Zenon DEF ContinueRun, Exists, SendCont
  <2>9. CASE ReadStatus
    BY <1>5, <2>9, Zenon DEF ReadStatus
  <2>10. CASE StopDisables
    BY <1>5, <2>10, Zenon DEF StopDisables, disable_cs_trace_fails
  <2>11. CASE StopSignals
    BY <1>5, <2>11, Zenon DEF StopSignals
  <2>12. CASE StopFetches
    BY <1>5, <2>12, Zenon DEF StopFetches, fetch_trace_fails
  <2>13. CASE StopWaits
    BY <1>5, <2>13, Zenon DEF StopWaits
  <2>14. CASE HiddenAttempt
    BY <1>5, <2>14, Zenon DEF HiddenAttempt
  <2>15. CASE ReportedAttempt
    BY <1>5, <2>15, Zenon DEF ReportedAttempt
  <2>16. CASE EndTestcase
    BY <1>5, <2>16, Zenon DEF EndTestcase
  <2>17. QED
    BY <1>5, <2>1, <2>2, <2>3, <2>4, <2>5, <2>6, <2>7, <2>8, <2>9, <2>10, <2>11, <2>12,
       <2>13, <2>14, <2>15, <2>16, Zenon DEF ProxyStep
<1>6. CASE UNCHANGED vars
  BY <1>6, Zenon DEF vars
<1>7. QED
  BY <1>1, <1>2, <1>3, <1>4, <1>5, <1>6, Zenon DEF Next

\* EventsInStep is preserved: start_trace() and stop_trace() signal the decoder.
LEMMA EventsInStepStep ==
  SessionsStart /\ SessionInv /\ OwnInv /\ WaitInv /\ [Next]_vars => EventsInStep'
<1> SUFFICES ASSUME SessionsStart, SessionInv, OwnInv, WaitInv, [Next]_vars PROVE
   EventsInStep'
  BY Zenon
<1> USE Started DEF decoding_on, WaitInv, EventsInStep, OwnInv, StopConsumed, Finishing,
   SessionInv, Handshake, eventVars, childVars, coreVars, aflVars, pipeVars, proxyVars,
   sessionVars, DecoderAt, ProxyAt
<1>1. CASE DecoderStep /\ UNCHANGED sessionVars
  <2>1. CASE decoder_worker
    BY <1>1, <2>1, Zenon DEF decoder_worker, wait_event
  <2>2. CASE PollingBegins
    BY <1>1, <2>2, Zenon DEF PollingBegins
  <2>3. CASE ReadInitPos
    BY <1>1, <2>3, Zenon DEF ReadInitPos
  <2>4. CASE Poll
    BY <1>1, <2>4, Zenon DEF Poll
  <2>5. CASE SuspendChild
    BY <1>1, <2>5, Zenon DEF SuspendChild
  <2>6. CASE WaitSuspend
    BY <1>1, <2>6, Zenon DEF WaitSuspend
  <2>7. CASE DrainDisables
    BY <1>1, <2>7, Zenon DEF DrainDisables
  <2>8. CASE DrainFetches
    BY <1>1, <2>8, Zenon DEF DrainFetches
  <2>9. CASE DrainEnables
    BY <1>1, <2>9, Zenon DEF DrainEnables
  <2>10. CASE ContinueChild
    BY <1>1, <2>10, Zenon DEF ContinueChild
  <2>11. CASE DrainDecodes
    BY <1>1, <2>11, Zenon DEF DrainDecodes
  <2>12. CASE WaitStop
    BY <1>1, <2>12, Zenon DEF WaitStop, wait_event
  <2>13. CASE LastFetch
    BY <1>1, <2>13, Zenon DEF LastFetch
  <2>14. CASE LastDecode
    BY <1>1, <2>14, Zenon DEF LastDecode
  <2>15. CASE PollingEnds
    BY <1>1, <2>15, Zenon DEF PollingEnds
  <2>16. QED
    BY <1>1, <2>1, <2>2, <2>3, <2>4, <2>5, <2>6, <2>7, <2>8, <2>9, <2>10, <2>11, <2>12,
       <2>13, <2>14, <2>15, Zenon DEF DecoderStep
<1>2. CASE ChildStep /\ UNCHANGED sessionVars
  <2>1. CASE ChildRuns
    BY <1>2, <2>1, Zenon DEF ChildRuns
  <2>2. CASE EtfDrains
    BY <1>2, <2>2, Zenon DEF EtfDrains
  <2>3. CASE ChildStops
    BY <1>2, <2>3, Zenon DEF ChildStops
  <2>4. CASE ChildExits
    BY <1>2, <2>4, Zenon DEF ChildExits
  <2>5. QED
    BY <1>2, <2>1, <2>2, <2>3, <2>4, Zenon DEF ChildStep
<1>3. CASE ForkserverStep
  <2>1. CASE ForkserverForks
    BY <1>3, <2>1, Zenon DEF ForkserverForks
  <2>2. CASE ForkserverRelays
    BY <1>3, <2>2, Zenon DEF ForkserverRelays
  <2>3. QED
    BY <1>3, <2>1, <2>2, Zenon DEF ForkserverStep
<1>4. CASE AflRequest \/ AflTimeout
  <2>1. CASE AflRequest
    BY <1>4, <2>1, Zenon DEF AflRequest
  <2>2. CASE AflTimeout
    BY <1>4, <2>2, Zenon DEF AflTimeout
  <2>3. QED
    BY <1>4, <2>1, <2>2, Zenon
<1>5. CASE ProxyStep
  <2>1. CASE NextTestcase
    BY <1>5, <2>1, Zenon DEF NextTestcase
  <2>2. CASE ReadPid
    BY <1>5, <2>2, Zenon DEF ReadPid
  <2>3. CASE StartClears
    BY <1>5, <2>3, Zenon DEF StartClears
  <2>4. CASE StartUnready
    BY <1>5, <2>4, Zenon DEF StartUnready, TypeOK, CoreTypeOK
  <2>5. CASE StartEnables
    BY <1>5, <2>5, Zenon DEF StartEnables, enable_cs_trace_fails
  <2>6. CASE StartSignals
    BY <1>5, <2>6, Zenon DEF StartSignals, signal_event
  <2>7. CASE ReportPid
    BY <1>5, <2>7, Zenon DEF ReportPid
  <2>8. CASE ContinueRun
    BY <1>5, <2>8, Zenon DEF ContinueRun
  <2>9. CASE ReadStatus
    BY <1>5, <2>9, Zenon DEF ReadStatus
  <2>10. CASE StopDisables
    BY <1>5, <2>10, Zenon DEF StopDisables
  <2>11. CASE StopSignals
    BY <1>5, <2>11, Zenon DEF StopSignals, signal_event
  <2>12. CASE StopFetches
    BY <1>5, <2>12, Zenon DEF StopFetches
  <2>13. CASE StopWaits
    BY <1>5, <2>13, Zenon DEF StopWaits
  <2>14. CASE HiddenAttempt
    BY <1>5, <2>14, Zenon DEF HiddenAttempt
  <2>15. CASE ReportedAttempt
    BY <1>5, <2>15, Zenon DEF ReportedAttempt
  <2>16. CASE EndTestcase
    BY <1>5, <2>16, Zenon DEF EndTestcase
  <2>17. QED
    BY <1>5, <2>1, <2>2, <2>3, <2>4, <2>5, <2>6, <2>7, <2>8, <2>9, <2>10, <2>11, <2>12,
       <2>13, <2>14, <2>15, <2>16, Zenon DEF ProxyStep
<1>6. CASE UNCHANGED vars
  BY <1>6, Zenon DEF vars
<1>7. QED
  BY <1>1, <1>2, <1>3, <1>4, <1>5, <1>6, Zenon DEF Next

\* SuspendInStep is preserved: the forkserver relays the stop, the proxy makes it
\* the suspend event, the decoder waits for it before it continues the child.
LEMMA SuspendInStepStep ==
  SessionsStart /\ SessionInv /\ OwnInv /\ WaitInv /\ [Next]_vars => SuspendInStep'
<1> SUFFICES ASSUME SessionsStart, SessionInv, OwnInv, WaitInv, [Next]_vars PROVE
   SuspendInStep'
  BY Zenon
<1> USE Started DEF decoding_on, WaitInv, SuspendInStep, HiddenInStep, Draining,
   SessionInv, PipeInStep, Handshake, eventVars, childVars, coreVars, aflVars, pipeVars,
   proxyVars, sessionVars, DecoderAt, ProxyAt
<1>1. CASE DecoderStep /\ UNCHANGED sessionVars
  <2>1. CASE decoder_worker
    BY <1>1, <2>1, Zenon DEF decoder_worker
  <2>2. CASE PollingBegins
    BY <1>1, <2>2, Zenon DEF PollingBegins
  <2>3. CASE ReadInitPos
    BY <1>1, <2>3, Zenon DEF ReadInitPos
  <2>4. CASE Poll
    BY <1>1, <2>4, Zenon DEF Poll
  <2>5. CASE SuspendChild
    BY <1>1, <2>5, Zenon DEF SuspendChild, Exists, SendStop, EtfOfChild, TypeOK,
       CoreTypeOK, ChildState
  <2>6. CASE WaitSuspend
    BY <1>1, <2>6, Zenon DEF WaitSuspend, wait_event
  <2>7. CASE DrainDisables
    BY <1>1, <2>7, Zenon DEF DrainDisables, disable_cs_trace_fails
  <2>8. CASE DrainFetches
    BY <1>1, <2>8, Zenon DEF DrainFetches
  <2>9. CASE DrainEnables
    BY <1>1, <2>9, Zenon DEF DrainEnables
  <2>10. CASE ContinueChild
    BY <1>1, <2>10, Zenon DEF ContinueChild, Exists, SendCont, EtfOfChild, TypeOK,
       CoreTypeOK, ChildState
  <2>11. CASE DrainDecodes
    BY <1>1, <2>11, Zenon DEF DrainDecodes
  <2>12. CASE WaitStop
    BY <1>1, <2>12, Zenon DEF WaitStop
  <2>13. CASE LastFetch
    BY <1>1, <2>13, Zenon DEF LastFetch
  <2>14. CASE LastDecode
    BY <1>1, <2>14, Zenon DEF LastDecode
  <2>15. CASE PollingEnds
    BY <1>1, <2>15, Zenon DEF PollingEnds
  <2>16. QED
    BY <1>1, <2>1, <2>2, <2>3, <2>4, <2>5, <2>6, <2>7, <2>8, <2>9, <2>10, <2>11, <2>12,
       <2>13, <2>14, <2>15, Zenon DEF DecoderStep
<1>2. CASE ChildStep /\ UNCHANGED sessionVars
  <2>1. CASE ChildRuns
    BY <1>2, <2>1, Zenon DEF ChildRuns
  <2>2. CASE EtfDrains
    BY <1>2, <2>2, Zenon DEF EtfDrains
  <2>3. CASE ChildStops
    BY <1>2, <2>3, Zenon DEF ChildStops
  <2>4. CASE ChildExits
    BY <1>2, <2>4, Zenon DEF ChildExits, Die
  <2>5. QED
    BY <1>2, <2>1, <2>2, <2>3, <2>4, Zenon DEF ChildStep
<1>3. CASE ForkserverStep
  <2>1. CASE ForkserverForks
    <3>1. ppc = "askPid"
      BY <2>1, Zenon DEF ForkserverForks, TypeOK, ProxyPc
    <3>2. dpc \in {"none", "waitStart"}
      BY <3>1, Zenon DEF BetweenAttempts
    <3>3. QED
      BY <2>1, <3>1, <3>2, Zenon DEF ForkserverForks, Fork
  <2>2. CASE ForkserverRelays
    BY <1>3, <2>2 DEF ForkserverRelays, TypeOK, CoreTypeOK, ProxyPc
  <2>3. QED
    BY <1>3, <2>1, <2>2, Zenon DEF ForkserverStep
<1>4. CASE AflRequest \/ AflTimeout
  <2>1. CASE AflRequest
    BY <1>4, <2>1, Zenon DEF AflRequest
  <2>2. CASE AflTimeout
    BY <1>4, <2>2, Zenon DEF AflTimeout, Die
  <2>3. QED
    BY <1>4, <2>1, <2>2, Zenon
<1>5. CASE ProxyStep
  <2>1. CASE NextTestcase
    BY <1>5, <2>1, Zenon DEF NextTestcase
  <2>2. CASE ReadPid
    BY <1>5, <2>2, Zenon DEF ReadPid
  <2>3. CASE StartClears
    BY <1>5, <2>3, Zenon DEF StartClears
  <2>4. CASE StartUnready
    BY <1>5, <2>4, Zenon DEF StartUnready
  <2>5. CASE StartEnables
    BY <1>5, <2>5, Zenon DEF StartEnables
  <2>6. CASE StartSignals
    BY <1>5, <2>6, Zenon DEF StartSignals
  <2>7. CASE ReportPid
    BY <1>5, <2>7, Zenon DEF ReportPid
  <2>8. CASE ContinueRun
    BY <1>5, <2>8, Zenon DEF ContinueRun, Exists, SendCont, TypeOK, CoreTypeOK,
       ChildState
  <2>9. CASE ReadStatus
    BY <1>5, <2>9, Zenon DEF ReadStatus, signal_event
  <2>10. CASE StopDisables
    BY <1>5, <2>10, Zenon DEF StopDisables, disable_cs_trace_fails
  <2>11. CASE StopSignals
    BY <1>5, <2>11, Zenon DEF StopSignals
  <2>12. CASE StopFetches
    BY <1>5, <2>12, Zenon DEF StopFetches
  <2>13. CASE StopWaits
    BY <1>5, <2>13, Zenon DEF StopWaits
  <2>14. CASE HiddenAttempt
    BY <1>5, <2>14, Zenon DEF HiddenAttempt
  <2>15. CASE ReportedAttempt
    BY <1>5, <2>15, Zenon DEF ReportedAttempt
  <2>16. CASE EndTestcase
    BY <1>5, <2>16, Zenon DEF EndTestcase
  <2>17. QED
    BY <1>5, <2>1, <2>2, <2>3, <2>4, <2>5, <2>6, <2>7, <2>8, <2>9, <2>10, <2>11, <2>12,
       <2>13, <2>14, <2>15, <2>16, Zenon DEF ProxyStep
<1>6. CASE UNCHANGED vars
  BY <1>6, Zenon DEF vars
<1>7. QED
  BY <1>1, <1>2, <1>3, <1>4, <1>5, <1>6, Zenon DEF Next

\* The invariant is inductive on top of SessionInv and OwnInv.
LEMMA WaitInvariant == ASSUME SessionsStart PROVE Spec => [](SessionInv /\ OwnInv /\ WaitInv)
<1>1. Init => WaitInv
  BY Zenon DEF Init, CoreInit, WaitInv, HiddenInStep, SuspendInStep, EventsInStep
<1>2. SessionInv /\ OwnInv /\ WaitInv /\ [Next]_vars => WaitInv'
  BY HiddenInStepStep, SuspendInStepStep, EventsInStepStep, Zenon DEF WaitInv
<1>3. EventsKept
  BY Started
<1>4. QED
  BY <1>1, <1>2, <1>3, SessionInvariant, OwnInvariant, PTL DEF Spec

\* Until AFL++ has its answer the proxy, the decoder thread, the forkserver or the
\* child has a step to take, in every build: nobody waits in a circle.  With the
\* scheduler's fairness this is what RequestAnswered rests on.
THEOREM NoCircularWait == ASSUME SessionsStart PROVE Spec => []NobodyStuck
<1>1. SessionInv /\ OwnInv /\ WaitInv => NobodyStuck
  <2> SUFFICES ASSUME SessionInv, OwnInv, WaitInv, afl # "idle"
               PROVE  ProxyMoves \/ DecoderMoves \/ ForkserverMoves \/ ChildMoves
    BY Zenon DEF NobodyStuck
  <2> USE DEF SessionInv, WaitInv
  <2>1. CASE ppc \in {"idle", "clear", "unready", "enable", "signalStart", "report",
                     "cont", "disable", "signalStop", "decide"}
    BY <2>1, Zenon DEF ProxyMoves, HiddenInStep, TypeOK
  <2>2. CASE ppc = "askPid"
    BY <2>2 DEF ProxyMoves, ForkserverMoves, PipeInStep
  <2>3. CASE ppc = "wait"
    <3>1. CASE st # <<>>
      BY <2>3, <3>1, Zenon DEF ProxyMoves
    <3>2. CASE st = <<>>
      <4>1. fpc = "wait" /\ cstate \in {"running", "stopped", "zombie"}
        BY <2>3, <3>2, Zenon DEF PipeInStep, Statuses, TypeOK, CoreTypeOK, ChildState, SuspendInStep
      <4>2. cstate = "stopped" /\ reported => DecoderMoves
        BY <3>2, Zenon DEF SuspendInStep, Draining, DecoderMoves
      <4>3. QED
        BY <4>1, <4>2, Zenon DEF ForkserverMoves, ChildMoves
    <3>3. QED
      BY <3>1, <3>2, Zenon
  <2>4. CASE ppc = "waitReady"
    <3>1. CASE decoder_ready
      BY <2>4, <3>1, Zenon DEF ProxyMoves
    <3>2. CASE ~decoder_ready
      <4>1. decoding_on /\ cstate = "reaped" /\ st = <<>> /\ dpc # "done"
        BY <2>4, Zenon DEF OwnInv, StopConsumed, PipeInStep, Handshake
      <4>2. CASE start_pending
        BY <4>1, <4>2, Zenon DEF Handshake, DecoderMoves
      <4>3. CASE dpc = "waitSuspend"
        BY <2>4, <4>1, <4>3, Zenon DEF SuspendInStep, DecoderMoves
      <4>4. CASE dpc = "waitStop"
        BY <2>4, <3>2, <4>4, Zenon DEF EventsInStep, Finishing, DecoderMoves
      <4>5. CASE dpc = "poll"
        BY <4>1, <4>5, Zenon DEF Exists, DecoderMoves
      <4>6. start_pending \/ dpc # "waitStart"
        BY <2>4, <3>2, <4>1, Zenon DEF EventsInStep
      <4>7. QED
        BY <4>1, <4>2, <4>3, <4>4, <4>5, <4>6, Zenon DEF DecoderMoves, decoding_on
    <3>3. QED
      BY <3>1, <3>2, Zenon
  <2>5. QED
    BY <2>1, <2>2, <2>3, <2>4, Zenon DEF TypeOK, ProxyPc, HiddenInStep
<1>2. QED
  BY <1>1, WaitInvariant, PTL
=============================================================================
