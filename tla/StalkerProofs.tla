---------------------------- MODULE StalkerProofs ----------------------------
(***************************************************************************)
(* TraceSession as the Stalker build runs it, with or without a decoder    *)
(* thread: the child is never paused to drain the ETR, and only the        *)
(* decoder may fail.  Hidden attempts, timeouts and every interleaving of  *)
(* the proxy, the decoder thread, the forkserver and the child are         *)
(* included.                                                               *)
(*                                                                         *)
(* Which thread is where is known from TraceSessionProofs.  Here: when the *)
(* sinks are on, then in which buffer the trace is, hence what AFL++ finds *)
(* in the map, hence that the session implements AflContract.              *)
(***************************************************************************)
EXTENDS TraceSessionProofs, FiniteSetTheorems

StalkerBuild == Stalker /\ Faults \subseteq {"decode"}

-----------------------------------------------------------------------------
(* When the child is traced.                                               *)

\* No drain ever begins, so no child is stopped while it runs.
NeverDrains == dpc \notin Drains /\ ~sigstop /\ cstate # "stopped"

\* The threads are in step, and there are no drains.
ControlInv == SessionInv /\ OwnInv /\ WaitInv /\ NeverDrains

\* The sinks are on from the enable before the child is resumed to the disable
\* after it is gone.
SinksInStep ==
  sinks <=> ppc \in {"signalStart", "report", "cont", "wait", "disable"}

\* What the Stalker build comes to in the steps of the session.
LEMMA Build ==
  StalkerBuild => /\ Stalker /\ SessionsStart
                  /\ ~MayFail("affinity") /\ ~MayFail("reset")
                  /\ ~MayFail("enable") /\ ~MayFail("disable") /\ ~MayFail("fetch")
BY Zenon DEF StalkerBuild, SessionsStart, MayFail

\* ControlInv is an invariant of the Stalker build: without the threshold test the
\* decoder only waits for the child to be gone.
LEMMA ControlInvariant == ASSUME StalkerBuild PROVE Spec => []ControlInv
<1>1. SessionInv /\ OwnInv /\ WaitInv => ControlInv
  BY Build, Zenon DEF ControlInv, NeverDrains, OwnInv, StopConsumed, WaitInv, SuspendInStep,
     Drains, Draining
<1>2. SessionsStart
  BY Build
<1>3. QED
  BY <1>1, <1>2, WaitInvariant, PTL

\* SinksInStep is preserved: only start_trace() and stop_trace() touch the sinks.
LEMMA SinksInStepStep ==
  StalkerBuild /\ ControlInv /\ SinksInStep /\ [Next]_vars => SinksInStep'
<1> SUFFICES ASSUME StalkerBuild, ControlInv, SinksInStep, [Next]_vars PROVE SinksInStep'
  BY Zenon
<1> USE Build DEF decoding_on, SinksInStep, NeverDrains, Drains, ControlInv, WaitInv,
        HiddenInStep, eventVars, dataVars, childVars, coreVars, aflVars, pipeVars,
        proxyVars, sessionVars, DecoderAt, ProxyAt
<1>1. CASE DecoderStep /\ UNCHANGED sessionVars
  <2>1. CASE decoder_worker
    BY <1>1, <2>1, Zenon DEF decoder_worker, wait_event
  <2>2. CASE PollingBegins
    BY <1>1, <2>2, Zenon DEF PollingBegins
  <2>3. CASE ReadInitPos
    BY <1>1, <2>3, Zenon DEF ReadInitPos
  <2>4. CASE Poll
    BY <1>1, <2>4, Zenon DEF Poll, Exists, AboveThreshold
  <2>5. CASE SuspendChild
    BY <1>1, <2>5, Zenon DEF SuspendChild
  <2>6. CASE WaitSuspend
    BY <1>1, <2>6, Zenon DEF WaitSuspend
  <2>7. CASE DrainDisables
    BY <1>1, <2>7, Zenon DEF DrainDisables
  <2>8. CASE DrainFetches
    BY <1>1, <2>8, Zenon DEF DrainFetches
  <2>9. CASE DrainEnables
    BY <1>1, <2>9, Zenon DEF DrainEnables
  <2>10. CASE ContinueChild
    BY <1>1, <2>10, Zenon DEF ContinueChild
  <2>11. CASE DrainDecodes
    BY <1>1, <2>11, Zenon DEF DrainDecodes
  <2>12. CASE WaitStop
    BY <1>1, <2>12, Zenon DEF WaitStop, wait_event
  <2>13. CASE LastFetch
    BY <1>1, <2>13, Zenon DEF LastFetch, fetch_trace
  <2>14. CASE LastDecode
    BY <1>1, <2>14, Zenon DEF LastDecode, decode_trace, decode_trace_fails
  <2>15. CASE PollingEnds
    BY <1>1, <2>15, Zenon DEF PollingEnds
  <2>16. QED
    BY <1>1, <2>1, <2>2, <2>3, <2>4, <2>5, <2>6, <2>7, <2>8, <2>9, <2>10, <2>11,
       <2>12, <2>13, <2>14, <2>15, Zenon DEF DecoderStep
<1>2. CASE ChildStep /\ UNCHANGED sessionVars
  <2>1. CASE ChildRuns
    BY <1>2, <2>1, Zenon DEF ChildRuns
  <2>2. CASE EtfDrains
    BY <1>2, <2>2, Zenon DEF EtfDrains, Drain
  <2>3. CASE ChildStops
    BY <1>2, <2>3, Zenon DEF ChildStops
  <2>4. CASE ChildExits
    BY <1>2, <2>4, Zenon DEF ChildExits, Die
  <2>5. QED
    BY <1>2, <2>1, <2>2, <2>3, <2>4, Zenon DEF ChildStep
<1>3. CASE ForkserverStep
  <2>1. CASE ForkserverForks
    BY <1>3, <2>1, Zenon DEF ForkserverForks, Fork, Statuses, TypeOK, ProxyPc
  <2>2. CASE ForkserverRelays
    BY <1>3, <2>2, Zenon DEF ForkserverRelays, Fork, Statuses, TypeOK, ProxyPc
  <2>3. QED
    BY <1>3, <2>1, <2>2, Zenon DEF ForkserverStep
<1>4. CASE AflRequest \/ AflTimeout
  BY <1>4 DEF AflRequest, AflTimeout, Die
<1>5. CASE ProxyStep
  <2>1. CASE NextTestcase
    BY <1>5, <2>1, Zenon DEF NextTestcase
  <2>2. CASE ReadPid
    BY <1>5, <2>2, Zenon DEF ReadPid
  <2>3. CASE StartClears
    BY <1>5, <2>3, Zenon DEF StartClears
  <2>4. CASE StartUnready
    BY <1>5, <2>4, Zenon DEF StartUnready
  <2>5. CASE StartEnables
    <3>1. ppc = "enable" /\ ppc' = "signalStart" /\ enable_cs_trace
      BY <1>5, <2>5, Zenon DEF StartEnables, enable_cs_trace_fails
    <3>2. QED
      BY <1>5, <2>5, <3>1, Zenon DEF StartEnables, enable_cs_trace
  <2>6. CASE StartSignals
    BY <1>5, <2>6, Zenon DEF StartSignals, signal_event
  <2>7. CASE ReportPid
    BY <1>5, <2>7, Zenon DEF PipeInStep, ReportPid
  <2>8. CASE ContinueRun
    BY <1>5, <2>8, Zenon DEF ContinueRun, SendCont, Exists
  <2>9. CASE ReadStatus
    BY <1>5, <2>9, Zenon DEF ReadStatus, signal_event
  <2>10. CASE StopDisables
    BY <1>5, <2>10, Zenon DEF StopDisables, disable_cs_trace, disable_cs_trace_fails,
       Drain
  <2>11. CASE StopSignals
    BY <1>5, <2>11, Zenon DEF StopSignals, signal_event
  <2>12. CASE StopFetches
    BY <1>5, <2>12, Zenon DEF StopFetches
  <2>13. CASE StopWaits
    BY <1>5, <2>13, Zenon DEF StopWaits
  <2>14. CASE HiddenAttempt
    BY <1>5, <2>14, Zenon DEF HiddenAttempt
  <2>15. CASE ReportedAttempt
    BY <1>5, <2>15, Zenon DEF ReportedAttempt
  <2>16. CASE EndTestcase
    BY <1>5, <2>16, Zenon DEF EndTestcase
  <2>17. QED
    BY <1>5, <2>1, <2>2, <2>3, <2>4, <2>5, <2>6, <2>7, <2>8, <2>9, <2>10, <2>11,
       <2>12, <2>13, <2>14, <2>15, <2>16, Zenon DEF ProxyStep
<1>6. CASE UNCHANGED vars
  BY <1>6, Zenon DEF vars
<1>7. QED
  BY <1>1, <1>2, <1>3, <1>4, <1>5, <1>6, Zenon DEF Next

\* SinksInStep is an invariant of the Stalker build.
LEMMA SinksInvariant == ASSUME StalkerBuild PROVE Spec => [](ControlInv /\ SinksInStep)
<1>1. Init => SinksInStep
  BY Zenon DEF Init, CoreInit, SinksInStep
<1>2. ControlInv /\ SinksInStep /\ [Next]_vars => SinksInStep'
  BY SinksInStepStep, Zenon
<1>3. QED
  BY <1>1, <1>2, ControlInvariant, PTL DEF Spec

\* The child runs only while it is traced.
THEOREM ChildIsTraced == ASSUME StalkerBuild PROVE Spec => []TracedWhileRunning
<1>1. ControlInv /\ SinksInStep => TracedWhileRunning
  BY Zenon DEF ControlInv, SessionInv, PipeInStep, TypeOK, ProxyPc, SinksInStep,
     WaitInv, HiddenInStep, TracedWhileRunning
<1>2. QED
  BY <1>1, SinksInvariant, PTL

\* stop_trace() leaves the sinks off until the next start_trace().
THEOREM SinksStayOff == ASSUME StalkerBuild PROVE Spec => []SinksOffBetweenRuns
<1>1. SinksInStep => SinksOffBetweenRuns
  BY Zenon DEF SinksInStep, SinksOffBetweenRuns
<1>2. QED
  BY <1>1, SinksInvariant, PTL

-----------------------------------------------------------------------------
(* Where the trace is                                                      *)

\* The trace that has left the ETF.
Flushed == {child} \X (1 .. emitted - etf)

\* The trace is in the ETR: the decoder's last fetch is still to come.
InEtr ==
  \/ ppc \in {"signalStart", "report", "cont", "wait", "disable", "signalStop"}
  \/ stop_pending \/ dpc = "lastFetch"

\* The trace is in the map, unless its decode failed.
InMap ==
  /\ decoding_on
  /\ dpc = "exit" \/ (ppc = "waitReady" /\ decoder_ready) \/ ppc \in {"decide", "idle"}

\* Without a decoder thread the trace stays in trace_buf.
InBuf == ~decoding_on /\ ppc \in {"decide", "idle"}

\* What the ring has overwritten is the beginning of what left the ETF: as many
\* chunks as the ETR has room for were written after each of them.
OldestLost ==
  /\ lost \subseteq Flushed
  /\ \A c \in lost : c[2] + EtrSize <= emitted - etf

\* Where the trace is, less what the ring has overwritten: in the ETR, then in
\* trace_buf, then in the map.
TraceInStep ==
  /\ InEtr => buf = {} /\ bitmap = {} /\ etr = Flushed \ lost
  /\ dpc = "lastDecode" => buf = Ran \ lost /\ bitmap = {}
  /\ InMap => /\ bitmap \subseteq Ran
              /\ buf = {} => bitmap = Ran \ lost
  /\ InBuf => buf = Ran \ lost /\ bitmap \subseteq {Dummy}
  /\ ppc \in {"unready", "enable"} => buf = {} /\ bitmap = {} /\ lost = {}
  /\ ppc \notin {"askPid", "clear"} => OldestLost

StalkerInv == ControlInv /\ SinksInStep /\ TraceInStep

-----------------------------------------------------------------------------
(* The invariant holds initially and every step preserves it.              *)

\* What a drain of the ETF adds to a prefix of the trace is a longer prefix.
LEMMA Prefixes ==
  ASSUME NEW c, NEW n \in Nat, NEW m \in Nat
  PROVE  /\ ({c} \X (1..n)) \cup ({c} \X (n+1 .. n+m)) = {c} \X (1 .. n+m)
         /\ ({c} \X (1..n)) \cap ({c} \X (n+1 .. n+m)) = {}
<1>1. (1..n) \cup (n+1 .. n+m) = 1 .. n+m
  OBVIOUS
<1>2. (1..n) \cap (n+1 .. n+m) = {}
  OBVIOUS
<1>3. ({c} \X (1..n)) \cup ({c} \X (n+1 .. n+m)) = {c} \X ((1..n) \cup (n+1 .. n+m))
  BY Zenon
<1>4. ({c} \X (1..n)) \cap ({c} \X (n+1 .. n+m)) = {c} \X ((1..n) \cap (n+1 .. n+m))
  BY Zenon
<1>5. QED
  BY <1>1, <1>2, <1>3, <1>4, Zenon

\* A part of a stretch of the trace has no more chunks than the stretch.
LEMMA StretchBounds ==
  ASSUME NEW c, NEW i \in Nat, NEW m \in Nat, i <= m,
         NEW s \in SUBSET ({c} \X (i+1 .. m))
  PROVE  Cardinality(s) <= m - i
<1>0. i+1 \in Int /\ m \in Int
  OBVIOUS
<1>1. IsFiniteSet(i+1 .. m) /\ Cardinality(i+1 .. m) = m - i
  <2>1. /\ IsFiniteSet(i+1 .. m)
        /\ Cardinality(i+1 .. m) = IF i+1 > m THEN 0 ELSE m - (i+1) + 1
    BY <1>0, FS_Interval, Zenon
  <2>2. QED
    BY <2>1
<1>2. IsFiniteSet({c}) /\ Cardinality({c}) = 1
  BY FS_Singleton, Zenon
<1>3. /\ IsFiniteSet({c} \X (i+1 .. m))
      /\ Cardinality({c} \X (i+1 .. m)) = Cardinality({c}) * Cardinality(i+1 .. m)
  BY <1>1, <1>2, FS_Product, Zenon
<1>4. Cardinality({c} \X (i+1 .. m)) = m - i
  BY <1>1, <1>2, <1>3
<1>5. Cardinality(s) <= Cardinality({c} \X (i+1 .. m))
  BY <1>3, FS_Subset, Zenon
<1>6. QED
  BY <1>4, <1>5

\* When the ETF hands on n chunks the ring overwrites its oldest ones, if any: what
\* is in the ETR is what left the ETF less what was overwritten, and everything
\* overwritten has EtrSize later chunks.
LEMMA RingStep ==
  ASSUME etf \in Nat, emitted \in Nat, emitted - etf \in Nat, NEW n \in 0..etf,
         Drain(n), UNCHANGED <<child, emitted>>, etr = Flushed \ lost, OldestLost
  PROVE  etr' = Flushed' \ lost' /\ OldestLost'
<1> DEFINE e == emitted - etf
           new == {child} \X (e + 1 .. e + n)
           written == etr \cup new
<1>1. e \in Nat /\ n \in Nat /\ emitted' - etf' = e + n
  BY DEF Drain
<1>2. Flushed' = Flushed \cup new /\ Flushed \cap new = {}
  <2>1. Flushed = {child} \X (1 .. e) /\ Flushed' = {child} \X (1 .. e + n)
    BY <1>1, Zenon DEF Flushed
  <2>2. /\ ({child} \X (1 .. e)) \cup new = {child} \X (1 .. e + n)
        /\ ({child} \X (1 .. e)) \cap new = {}
    BY <1>1, Prefixes, Zenon
  <2>3. QED
    BY <2>1, <2>2, Zenon
<1>3. etr' \in Latest(written) /\ lost' = lost \cup (written \ etr')
  BY Zenon DEF Drain
<1>4. etr' \subseteq written
  BY <1>3, LatestOf, Zenon
<1>5. written = Flushed' \ lost /\ lost \subseteq Flushed'
  BY <1>2, Zenon DEF OldestLost
<1>6. etr' = Flushed' \ lost' /\ lost' \subseteq Flushed'
  BY <1>3, <1>4, <1>5, Zenon
<1>7. ASSUME NEW c \in written \ etr' PROVE c[2] + EtrSize <= e + n
  <2>1. /\ etr' \in SUBSET written /\ Cardinality(etr') = EtrSize
        /\ \A x \in written \ etr', d \in etr' : ~Older(d, x)
    BY <1>3, <1>7, Zenon DEF Latest
  <2>2. Flushed' = {child} \X (1 .. e + n)
    BY <1>1, Zenon DEF Flushed
  <2>3. PICK i \in 1 .. e + n : c = <<child, i>>
    BY <1>5, <2>2
  <2>4. ASSUME NEW d \in etr' PROVE d \in {child} \X (i + 1 .. e + n)
    <3>1. PICK j \in 1 .. e + n : d = <<child, j>>
      BY <1>4, <1>5, <2>2, <2>4
    <3>2. ~(j < i)
      BY <1>7, <2>1, <2>3, <2>4, <3>1 DEF Older
    <3>3. j # i
      BY <1>7, <2>3, <2>4, <3>1
    <3>4. j \in i + 1 .. e + n
      BY <1>1, <3>2, <3>3
    <3>5. QED
      BY <3>1, <3>4
  <2>5. etr' \in SUBSET ({child} \X (i + 1 .. e + n))
    BY <2>4, Zenon
  <2>6. i \in Nat /\ e + n \in Nat /\ i <= e + n
    BY <1>1
  <2>7. Cardinality(etr') <= (e + n) - i
    BY <2>5, <2>6, StretchBounds, Zenon
  <2>8. EtrSize <= (e + n) - i
    BY <2>1, <2>7, Zenon
  <2>9. c[2] = i
    BY <2>3
  <2>10. QED
    BY <1>1, <2>6, <2>8, <2>9, TraceCoreAssumption
<1>8. ASSUME NEW c \in lost PROVE c[2] + EtrSize <= e + n
  <2>1. c[2] + EtrSize <= e
    BY <1>8, Zenon DEF OldestLost
  <2>2. c[2] \in Nat
    BY <1>8, <1>1 DEF OldestLost, Flushed
  <2>3. QED
    BY <1>1, <2>1, <2>2, TraceCoreAssumption
<1>9. \A c \in lost' : c[2] + EtrSize <= emitted' - etf'
  BY <1>1, <1>3, <1>7, <1>8, Zenon
<1>10. QED
  BY <1>6, <1>9, Zenon DEF OldestLost

\* A step that moves no trace, and after which no more is asked of the buffers
\* than before it.
TraceStays ==
  /\ UNCHANGED <<etr, buf, bitmap, lost, child, emitted, etf>>
  /\ InEtr' => InEtr
  /\ InMap' => InMap
  /\ InBuf' => InBuf
  /\ dpc' = "lastDecode" => dpc = "lastDecode"
  /\ ppc' \in {"unready", "enable"} => ppc \in {"unready", "enable"}
  /\ ppc \in {"askPid", "clear"} => ppc' \in {"askPid", "clear"}

\* Most steps of the handshake are of this kind.
LEMMA Stays == TraceInStep /\ TraceStays => TraceInStep'
<1> SUFFICES ASSUME TraceInStep, TraceStays PROVE TraceInStep'
  BY Zenon
<1>1. Flushed' = Flushed /\ Ran' = Ran /\ (OldestLost => OldestLost')
  BY Zenon DEF TraceStays, Flushed, Ran, OldestLost
<1>2. QED
  BY <1>1, Zenon DEF TraceInStep, TraceStays

\* TraceInStep is preserved: the disable flushes the ETF, the fetch empties the
\* ETR and the decode empties trace_buf, in this order.
LEMMA TraceInStepStep ==
  StalkerBuild /\ StalkerInv /\ [Next]_vars => TraceInStep'
<1> SUFFICES ASSUME StalkerBuild, StalkerInv, [Next]_vars PROVE TraceInStep'
  BY Zenon
<1>0. etf \in Nat /\ emitted \in Nat /\ emitted - etf \in Nat
  BY TraceCoreAssumption DEF StalkerInv, ControlInv, SessionInv, EtfOfChild, TypeOK, CoreTypeOK
<1> USE Build DEF decoding_on, InEtr, InMap, InBuf, NeverDrains, Drains, StalkerInv,
        ControlInv, SessionInv, Handshake, OwnInv, Finishing, WaitInv, eventVars, dataVars, lossVars,
        childVars, coreVars, aflVars, pipeVars, proxyVars, sessionVars, DecoderAt, ProxyAt
<1>1. CASE DecoderStep /\ UNCHANGED sessionVars
  <2>1. CASE decoder_worker
    <3>1. TraceStays
      BY <1>1, <2>1, Zenon DEF TraceStays, decoder_worker, wait_event, StopConsumed
    <3>2. QED
      BY <3>1, Stays, Zenon
  <2>2. CASE PollingBegins
    <3>1. TraceStays
      BY <1>1, <2>2, Zenon DEF TraceStays, PollingBegins, StopConsumed
    <3>2. QED
      BY <3>1, Stays, Zenon
  <2>3. CASE ReadInitPos
    <3>1. TraceStays
      BY <1>1, <2>3, Zenon DEF TraceStays, ReadInitPos, StopConsumed
    <3>2. QED
      BY <3>1, Stays, Zenon
  <2>4. CASE Poll
    <3>1. TraceStays
      BY <1>1, <2>4, Zenon DEF TraceStays, Poll, Exists, AboveThreshold, StopConsumed
    <3>2. QED
      BY <3>1, Stays, Zenon
  <2>5. CASE SuspendChild
    BY <1>1, <2>5, Zenon DEF SuspendChild
  <2>6. CASE WaitSuspend
    BY <1>1, <2>6, Zenon DEF WaitSuspend
  <2>7. CASE DrainDisables
    BY <1>1, <2>7, Zenon DEF DrainDisables
  <2>8. CASE DrainFetches
    BY <1>1, <2>8, Zenon DEF DrainFetches
  <2>9. CASE DrainEnables
    BY <1>1, <2>9, Zenon DEF DrainEnables
  <2>10. CASE ContinueChild
    BY <1>1, <2>10, Zenon DEF ContinueChild
  <2>11. CASE DrainDecodes
    BY <1>1, <2>11, Zenon DEF DrainDecodes
  <2>12. CASE WaitStop
    <3>1. stop_pending /\ ppc = "waitReady" /\ ~decoder_ready
      BY <2>12, Zenon DEF WaitStop, wait_event, StopConsumed
    <3>2. TraceStays
      BY <1>1, <2>12, <3>1, Zenon DEF TraceStays, WaitStop
    <3>3. QED
      BY <3>2, Stays, Zenon
  <2>13. CASE LastFetch
    <3> USE DEF TraceInStep
    <3>1. ppc = "waitReady" /\ ~stop_pending /\ ~decoder_ready
      BY <1>1, <2>13, Zenon DEF LastFetch, StopConsumed
    <3>2. etf = 0
      BY <3>1, Zenon DEF EtfOfChild
    <3>3. Flushed = Ran
      BY ONLY <1>0, <3>2 DEF Flushed, Ran
    <3>4. buf = {} /\ bitmap = {} /\ etr = Ran \ lost
      BY <1>1, <2>13, <3>3, Zenon DEF LastFetch
    <3>5. buf' = buf \cup etr /\ UNCHANGED <<bitmap, lost, etf>>
      BY <2>13, FetchTakesAll, Zenon DEF LastFetch
    <3>6. Ran' = Ran /\ (OldestLost => OldestLost')
      BY <1>1, <2>13, <3>5, Zenon DEF LastFetch, Ran, OldestLost, Flushed
    <3>7. buf' = Ran' \ lost' /\ bitmap' = {}
      BY ONLY <3>4, <3>5, <3>6, Zenon
    <3>8. QED
      BY <1>1, <2>13, <3>1, <3>6, <3>7, Zenon DEF LastFetch
  <2>14. CASE LastDecode
    <3> USE DEF TraceInStep
    <3>1. ppc = "waitReady" /\ ~stop_pending /\ ~decoder_ready
      BY <1>1, <2>14, Zenon DEF LastDecode, StopConsumed
    <3>2. UNCHANGED <<lost, etf, child, emitted>>
      BY <1>1, <2>14, Zenon DEF LastDecode, decode_trace, decode_trace_fails
    <3>3. Ran' = Ran /\ (OldestLost => OldestLost')
      BY <3>2, Zenon DEF Ran, OldestLost, Flushed
    <3>4. bitmap' \subseteq Ran /\ (buf' = {} => bitmap' = Ran \ lost)
      BY <1>1, <2>14, Zenon DEF LastDecode, decode_trace, decode_trace_fails
    <3>5. QED
      BY <1>1, <2>14, <3>1, <3>2, <3>3, <3>4, Zenon DEF LastDecode
  <2>15. CASE PollingEnds
    <3>1. TraceStays
      BY <1>1, <2>15, Zenon DEF TraceStays, PollingEnds, StopConsumed
    <3>2. QED
      BY <3>1, Stays, Zenon
  <2>16. QED
    BY <1>1, <2>1, <2>2, <2>3, <2>4, <2>5, <2>6, <2>7, <2>8, <2>9, <2>10, <2>11,
       <2>12, <2>13, <2>14, <2>15, Zenon DEF DecoderStep
<1>2. CASE ChildStep /\ UNCHANGED sessionVars
  <2>1. CASE ChildRuns
    <3> USE DEF TraceInStep
    <3>1. ppc = "wait" /\ sinks
      BY <1>2, <2>1, Zenon DEF PipeInStep, ChildRuns, SinksInStep, HiddenInStep,
         SuspendInStep, TypeOK, ProxyPc
    <3>2. emitted' = emitted + 1 /\ etf' = etf + 1 /\ child' = child
      BY <2>1, <3>1, Zenon DEF ChildRuns
    <3>3. emitted' - etf' = emitted - etf
      BY ONLY <1>0, <3>2
    <3>4. Flushed' = Flushed
      BY ONLY <3>2, <3>3, Zenon DEF Flushed
    <3>5. OldestLost => OldestLost'
      BY <2>1, <3>3, <3>4, Zenon DEF ChildRuns, OldestLost
    <3>6. QED
      BY <1>2, <2>1, <3>1, <3>4, <3>5, Zenon DEF ChildRuns, StopConsumed
  <2>2. CASE EtfDrains
    <3> USE DEF TraceInStep
    <3>1. ppc \in {"cont", "wait", "disable"}
      BY <2>2 DEF EtfDrains, EtfOfChild, BetweenAttempts, HiddenInStep, TypeOK, ProxyPc
    <3>2. Drain(1) /\ etf > 0 /\ UNCHANGED <<child, emitted>>
      BY <1>2, <2>2, Zenon DEF EtfDrains
    <3>3. 1 \in 0..etf
      BY ONLY <1>0, <3>2
    <3>4. etr = Flushed \ lost /\ OldestLost
      BY <1>2, <2>2, <3>1, Zenon DEF EtfDrains
    <3>5. etr' = Flushed' \ lost' /\ OldestLost'
      BY ONLY <1>0, <3>2, <3>3, <3>4, RingStep, Zenon
    <3>6. QED
      BY <1>2, <2>2, <3>1, <3>5, Zenon DEF EtfDrains, StopConsumed
  <2>3. CASE ChildStops
    <3>1. TraceStays
      BY <1>2, <2>3, Zenon DEF TraceStays, ChildStops, StopConsumed
    <3>2. QED
      BY <3>1, Stays, Zenon
  <2>4. CASE ChildExits
    <3>1. TraceStays
      BY <1>2, <2>4, Zenon DEF TraceStays, ChildExits, Die, StopConsumed
    <3>2. QED
      BY <3>1, Stays, Zenon
  <2>5. QED
    BY <1>2, <2>1, <2>2, <2>3, <2>4, Zenon DEF ChildStep
<1>3. CASE ForkserverStep
  <2>1. CASE ForkserverForks
    BY <1>3, <2>1, Zenon DEF TraceInStep, PipeInStep, ForkserverForks, StopConsumed, Flushed, Ran, Fork, Statuses,
       TypeOK, ProxyPc
  <2>2. CASE ForkserverRelays
    <3>1. TraceStays
      BY <1>3, <2>2, Zenon DEF TraceStays, ForkserverRelays, StopConsumed
    <3>2. QED
      BY <3>1, Stays, Zenon
  <2>3. QED
    BY <1>3, <2>1, <2>2, Zenon DEF ForkserverStep
<1>4. CASE AflRequest \/ AflTimeout
  <2>1. TraceStays
    BY <1>4 DEF TraceStays, AflRequest, AflTimeout, Die
  <2>2. QED
    BY <2>1, Stays, Zenon
<1>5. CASE ProxyStep
  <2>1. CASE NextTestcase
    <3>1. TraceStays
      BY <1>5, <2>1, Zenon DEF TraceStays, NextTestcase, StopConsumed
    <3>2. QED
      BY <3>1, Stays, Zenon
  <2>2. CASE ReadPid
    <3>1. TraceStays
      BY <1>5, <2>2, Zenon DEF TraceStays, ReadPid, StopConsumed
    <3>2. QED
      BY <3>1, Stays, Zenon
  <2>3. CASE StartClears
    BY <1>5, <2>3, Zenon DEF TraceInStep, OldestLost, StartClears, StopConsumed, Flushed, Ran
  <2>4. CASE StartUnready
    <3>1. TraceStays
      BY <1>5, <2>4, Zenon DEF TraceStays, StartUnready, StopConsumed
    <3>2. QED
      BY <3>1, Stays, Zenon
  <2>5. CASE StartEnables
    <3> USE DEF TraceInStep
    <3>1. etf = 0 /\ emitted = 0
      BY <1>5, <2>5, Zenon DEF PipeInStep, StartEnables, EtfOfChild, BetweenAttempts
    <3>2. enable_cs_trace /\ ppc = "enable" /\ ppc' = "signalStart"
      BY <1>5, <2>5, Zenon DEF StartEnables, enable_cs_trace_fails
    <3>3. etr' = {}
      BY <3>2, Zenon DEF enable_cs_trace, EtrEmptied, BetweenAttempts
    <3>4. etf' = 0 /\ emitted' = 0
      BY <1>5, <2>5, <3>1, <3>2, Zenon DEF StartEnables, enable_cs_trace
    <3>5. Flushed' = {}
      BY ONLY <3>4 DEF Flushed
    <3>6. etr' = {} /\ Flushed' = {}
      BY <3>3, <3>5, Zenon
    <3>7. lost' = {} /\ OldestLost'
      BY <1>5, <2>5, <3>2, Zenon DEF StartEnables, enable_cs_trace, OldestLost
    <3>8. QED
      BY <1>5, <2>5, <3>2, <3>6, <3>7, Zenon DEF StartEnables, enable_cs_trace, StopConsumed,
         BetweenAttempts
  <2>6. CASE StartSignals
    <3>1. TraceStays
      BY <1>5, <2>6, Zenon DEF TraceStays, StartSignals, signal_event, StopConsumed
    <3>2. QED
      BY <3>1, Stays, Zenon
  <2>7. CASE ReportPid
    <3>1. TraceStays
      BY <1>5, <2>7, Zenon DEF TraceStays, ReportPid, StopConsumed
    <3>2. QED
      BY <3>1, Stays, Zenon
  <2>8. CASE ContinueRun
    <3>1. TraceStays
      BY <1>5, <2>8, Zenon DEF TraceStays, ContinueRun, SendCont, Exists, StopConsumed
    <3>2. QED
      BY <3>1, Stays, Zenon
  <2>9. CASE ReadStatus
    <3>1. TraceStays
      BY <1>5, <2>9, Zenon DEF TraceStays, ReadStatus, signal_event, StopConsumed
    <3>2. QED
      BY <3>1, Stays, Zenon
  <2>10. CASE StopDisables
    <3> USE DEF TraceInStep
    <3>1. disable_cs_trace /\ ppc = "disable" /\ ppc' = "signalStop"
      BY <1>5, <2>10, Zenon DEF StopDisables, disable_cs_trace_fails
    <3>2. Drain(etf) /\ UNCHANGED <<child, emitted>>
      BY <1>5, <2>10, <3>1, Zenon DEF StopDisables, disable_cs_trace
    <3>3. etf \in 0..etf
      BY ONLY <1>0
    <3>4. etr = Flushed \ lost /\ OldestLost
      BY <1>5, <2>10, <3>1, Zenon DEF StopDisables
    <3>5. etr' = Flushed' \ lost' /\ OldestLost'
      BY ONLY <1>0, <3>2, <3>3, <3>4, RingStep, Zenon
    <3>6. QED
      BY <1>5, <2>10, <3>1, <3>5, Zenon DEF StopDisables, disable_cs_trace, StopConsumed
  <2>11. CASE StopSignals
    <3>1. TraceStays
      BY <1>5, <2>11, Zenon DEF TraceStays, StopSignals, signal_event, StopConsumed
    <3>2. QED
      BY <3>1, Stays, Zenon
  <2>12. CASE StopFetches
    <3> USE DEF TraceInStep
    <3>1. ~decoding_on /\ etf = 0
      BY <2>12, Zenon DEF StopFetches, EtfOfChild
    <3>2. Flushed = Ran
      BY ONLY <1>0, <3>1 DEF Flushed, Ran
    <3>3. buf = {} /\ bitmap = {} /\ etr = Ran \ lost
      BY <2>12, <3>2, Zenon DEF StopFetches
    <3>4. buf' = buf \cup etr /\ UNCHANGED <<bitmap, lost, etf>>
      BY <2>12, FetchTakesAll, Zenon DEF StopFetches
    <3>5. Ran' = Ran /\ (OldestLost => OldestLost')
      BY <1>5, <2>12, <3>4, Zenon DEF StopFetches, Ran, OldestLost, Flushed
    <3>6. buf' = Ran' \ lost' /\ bitmap' = {}
      BY ONLY <3>3, <3>4, <3>5, Zenon
    <3>7. QED
      BY <2>12, <3>1, <3>5, <3>6, Zenon DEF StopFetches, StopConsumed, fetch_trace_fails
  <2>13. CASE StopWaits
    <3>1. ~stop_pending /\ dpc = "waitStart"
      BY <2>13, Zenon DEF StopWaits, StopConsumed
    <3>2. TraceStays
      BY <1>5, <2>13, <3>1, Zenon DEF TraceStays, StopWaits
    <3>3. QED
      BY <3>2, Stays, Zenon
  <2>14. CASE HiddenAttempt
    <3>1. TraceStays
      BY <1>5, <2>14, Zenon DEF TraceStays, HiddenAttempt, StopConsumed
    <3>2. QED
      BY <3>1, Stays, Zenon
  <2>15. CASE ReportedAttempt
    <3>1. TraceStays
      BY <1>5, <2>15, Zenon DEF TraceStays, ReportedAttempt, StopConsumed
    <3>2. QED
      BY <3>1, Stays, Zenon
  <2>16. CASE EndTestcase
    <3>1. bitmap' = IF decoding_on THEN bitmap ELSE bitmap \cup {Dummy}
      BY <2>16, Zenon DEF EndTestcase
    <3>2. Ran' = Ran /\ (OldestLost => OldestLost') /\ UNCHANGED <<dpc, buf, lost, stop_pending>>
      BY <2>16, Zenon DEF EndTestcase, Ran, OldestLost, Flushed
    <3>3. ppc = "decide" /\ ppc' = "idle" /\ ~stop_pending /\ dpc \notin Finishing
      BY <2>16, Zenon DEF EndTestcase, StopConsumed
    <3>4. QED
      BY <3>1, <3>2, <3>3, Zenon DEF TraceInStep
  <2>17. QED
    BY <1>5, <2>1, <2>2, <2>3, <2>4, <2>5, <2>6, <2>7, <2>8, <2>9, <2>10, <2>11,
       <2>12, <2>13, <2>14, <2>15, <2>16, Zenon DEF ProxyStep
<1>6. CASE UNCHANGED vars
  <2>1. TraceStays
    BY <1>6, Zenon DEF TraceStays, vars
  <2>2. QED
    BY <2>1, Stays, Zenon
<1>7. QED
  BY <1>1, <1>2, <1>3, <1>4, <1>5, <1>6, Zenon DEF Next

\* The trace is nowhere after init_trace().
LEMMA TraceInit == Init => TraceInStep
<1> SUFFICES ASSUME Init PROVE TraceInStep
  BY Zenon
<1>1. Ran = {}
  BY DEF Init, CoreInit, Ran
<1>2. QED
  BY <1>1, Zenon DEF Init, CoreInit, TraceInStep, OldestLost, InEtr, InMap, InBuf

\* StalkerInv is an invariant of the Stalker build.
THEOREM StalkerInvariant == ASSUME StalkerBuild PROVE Spec => []StalkerInv
<1>1. ControlInv /\ SinksInStep /\ TraceInStep /\ [Next]_vars => TraceInStep'
  BY TraceInStepStep, Zenon DEF StalkerInv
<1>2. QED
  BY TraceInit, <1>1, SinksInvariant, PTL DEF Spec, StalkerInv

-----------------------------------------------------------------------------
(* What follows for AFL++.                                                 *)

\* stop_trace() returns with exactly the trace of the child in the map, or with
\* part of it and undecoded bytes in trace_buf, whatever the interleaving and
\* however many hidden attempts the proxy makes; without a decoder thread it
\* returns with all of the trace in trace_buf.  Of a trace longer than the ETR,
\* and only of such a one, the beginning is missing in both cases, and only as
\* much as does not fit: nothing pauses the child to drain the ETR.
THEOREM MapIsComplete == ASSUME StalkerBuild PROVE Spec => []CompleteMap
<1>1. StalkerInv => CompleteMap
  <2> SUFFICES ASSUME StalkerInv, ppc = "decide" PROVE CompleteMap
    BY Zenon DEF CompleteMap
  <2>1. etf = 0 /\ emitted \in Nat
    BY DEF StalkerInv, ControlInv, SessionInv, EtfOfChild, BetweenAttempts, TypeOK, CoreTypeOK
  <2>2. emitted - etf = emitted
    BY <2>1
  <2>3. \A c \in lost : c[2] + EtrSize <= emitted
    BY <2>2, Zenon DEF StalkerInv, TraceInStep, OldestLost
  <2>4. QED
    BY <2>3, Zenon DEF StalkerInv, TraceInStep, InMap, InBuf, CompleteMap
<1>2. QED
  BY <1>1, StalkerInvariant, PTL

-----------------------------------------------------------------------------
(* The refinement: every step of the session is a step of AFL++'s contract *)
(* or leaves what AFL++ sees as it was.                                    *)

\* A step that leaves the child alone, AFL++, and what AFL++ may read, is a stutter
\* of the contract.
LEMMA SameForAfl ==
  ASSUME UNCHANGED <<child, cstate, emitted, afl>>, afl = "idle" => UNCHANGED <<bitmap, buf>>
  PROVE  UNCHANGED Contract!cvars
<1>1. UNCHANGED <<IF afl = "idle" THEN bitmap \ {Dummy} ELSE {},
                  afl = "idle" => buf = {} /\ emitted <= EtrSize>>
  BY Zenon
<1>2. (cstate \in {"zombie", "reaped"})' = (cstate \in {"zombie", "reaped"})
  BY Zenon
<1>3. QED
  BY <1>1, <1>2, Zenon DEF Contract!cvars

\* Every step maps to a step of the contract or to a stutter.
LEMMA ContractStep ==
  StalkerBuild /\ StalkerInv /\ [Next]_vars
    => [Contract!Next]_(Contract!cvars)
<1> SUFFICES ASSUME StalkerBuild, StalkerInv, [Next]_vars
             PROVE  Contract!Next \/ UNCHANGED Contract!cvars
  BY Zenon
<1> DEFINE over == cstate \in {"zombie", "reaped"}
           seen == <<IF afl = "idle" THEN bitmap \ {Dummy} ELSE {},
                     afl = "idle" => buf = {} /\ emitted <= EtrSize>>
<1>0. UNCHANGED afl /\ (afl = "idle" => UNCHANGED <<bitmap, buf, emitted>>) => seen' = seen
  BY Zenon
<1> USE DEF StalkerBuild, SessionInv, AflInStep, PipeInStep, StalkerInv,
        ControlInv, NeverDrains, Drains, WaitInv, HiddenInStep, eventVars, childVars, coreVars, aflVars, pipeVars, proxyVars, sessionVars,
        DecoderAt, ProxyAt
<1>1. CASE DecoderStep /\ UNCHANGED sessionVars
  <2>1. UNCHANGED <<childVars, afl>>
    BY <1>1, ZenonT(40) DEF DecoderStep, decoder_worker, PollingBegins, ReadInitPos, Poll,
       SuspendChild, WaitSuspend, DrainDisables, DrainFetches, DrainEnables,
       ContinueChild, DrainDecodes, WaitStop, LastFetch, LastDecode, PollingEnds
  <2>2. afl = "idle" => UNCHANGED <<bitmap, buf>>
    BY <1>1, MapIsFrozen, Zenon DEF Next
  <2>3. QED
    BY <2>1, <2>2, SameForAfl, Zenon
<1>2. CASE ChildStep /\ UNCHANGED sessionVars
  <2>1. seen' = seen
    <3>1. UNCHANGED <<bitmap, buf, afl>>
      BY <1>2, SMTT(30) DEF ChildStep, ChildRuns, EtfDrains, ChildStops, ChildExits, dataVars
    <3>2. afl = "idle" => emitted' = emitted
      BY <1>2, SMTT(30) DEF ChildStep, ChildRuns, EtfDrains, ChildStops, ChildExits
    <3>3. QED
      BY <1>0, <3>1, <3>2, Zenon
  <2>2. CASE ChildRuns
    BY <1>2, <2>1, <2>2, Zenon DEF ChildRuns, Contract!Next, Contract!Runs
  <2>3. CASE EtfDrains
    <3>1. UNCHANGED <<child, cstate, emitted, afl, bitmap, buf>>
      BY <1>2, <2>3, Zenon DEF EtfDrains
    <3>2. QED
      BY <3>1, SameForAfl, Zenon
  <2>4. CASE ChildStops
    BY <2>4, Zenon DEF ChildStops
  <2>5. CASE ChildExits
    BY <1>2, <2>1, <2>5, Zenon DEF ChildExits, Die, Contract!Next, Contract!Terminates
  <2>6. QED
    BY <1>2, <2>2, <2>3, <2>4, <2>5, SMTT(30) DEF ChildStep
<1>3. CASE ForkserverForks
  <2>1. seen' = seen
    BY <1>3, Zenon DEF ForkserverForks, dataVars
  <2>2. afl # "idle" /\ over
    BY <1>3, Zenon DEF ForkserverForks, TypeOK, ProxyPc
  <2>3. /\ emitted' = 0 /\ cstate' = "selfstopped" /\ child' # child
        /\ UNCHANGED afl
    BY <1>3, Zenon DEF ForkserverForks, Fork
  <2>4. QED
    BY <2>1, <2>2, <2>3 DEF Contract!Next, Contract!NewRun
<1>4. CASE ForkserverRelays
  <2>1. seen' = seen /\ over' = over
    BY <1>4 DEF ForkserverRelays, dataVars
  <2>2. QED
    BY <1>4, <2>1, Zenon DEF ForkserverRelays, Contract!cvars
<1>5. CASE AflRequest
  BY <1>5, Zenon DEF AflRequest, Contract!Next, Contract!Request
<1>6. CASE AflTimeout
  BY <1>6, Zenon DEF AflTimeout, Die, dataVars, Contract!Next, Contract!Terminates
<1>7. CASE ReportPid
  <2>1. CASE hidden
    BY <1>7, <2>1, Zenon DEF ReportPid, dataVars, Contract!cvars
  <2>2. CASE ~hidden
    BY <1>7, <2>2, Zenon DEF ReportPid, dataVars, Contract!Next, Contract!Pid
  <2>3. QED
    BY <2>1, <2>2, Zenon
<1>8. CASE EndTestcase
  <2>1. afl = "running" /\ afl' = "idle" /\ over /\ UNCHANGED childVars
    BY <1>8, SMTT(30) DEF EndTestcase
  <2>2. /\ bitmap' \ {Dummy} \subseteq Ran
        /\ buf' = {} /\ emitted' <= EtrSize => bitmap' \ {Dummy} = Ran
    <3>0. emitted' <= EtrSize => lost = {}
      <4>1. etf = 0 /\ emitted \in Nat /\ emitted' = emitted
        BY <1>8, <2>1 DEF EndTestcase, EtfOfChild, BetweenAttempts, TypeOK, CoreTypeOK
      <4>2. OldestLost
        BY <1>8, Zenon DEF EndTestcase, TraceInStep
      <4>3. \A c \in lost : c[2] \in 1..emitted /\ c[2] + EtrSize <= emitted
        BY <4>1, <4>2 DEF OldestLost, Flushed
      <4>4. QED
        BY <4>1, <4>3, TraceCoreAssumption
    <3>1. Dummy \notin Ran
      BY TraceCoreAssumption DEF Dummy, Ran, TypeOK, CoreTypeOK
    <3>2. CASE decoding_on
      <4>1. bitmap' = bitmap /\ buf' = buf
        BY <1>8, <3>2, Zenon DEF EndTestcase
      <4>2. bitmap \subseteq Ran /\ (buf = {} => bitmap = Ran \ lost)
        BY <1>8, <3>2, Zenon DEF EndTestcase, TraceInStep, InMap
      <4>3. QED
        BY <3>0, <3>1, <4>1, <4>2, Zenon
    <3>3. CASE ~decoding_on
      <4>1. bitmap' = bitmap \cup {Dummy} /\ buf' = buf
        BY <1>8, <3>3, Zenon DEF EndTestcase
      <4>2. bitmap \subseteq {Dummy} /\ buf = Ran \ lost
        BY <1>8, <3>3, Zenon DEF EndTestcase, TraceInStep, InBuf
      <4>3. QED
        BY <3>0, <4>1, <4>2, Zenon
    <3>4. QED
      BY <3>2, <3>3, Zenon
  <2>3. QED
    BY <2>1, <2>2, Zenon DEF Contract!Next, Contract!Status, Ran
<1>9. CASE ContinueRun
  <2>1. over' = over
    BY <1>9 DEF ContinueRun, SendCont
  <2>2. QED
    BY <1>9, <2>1, Zenon DEF ContinueRun, SendCont, dataVars, Contract!cvars
<1>10. CASE ProxyStep /\ ~ReportPid /\ ~EndTestcase /\ ~ContinueRun
  <2>1. UNCHANGED <<childVars, afl>>
    BY <1>10, ZenonT(40) DEF ProxyStep, NextTestcase, ReadPid, StartClears, StartUnready,
       StartEnables, StartSignals, ReadStatus, StopDisables, StopSignals,
       StopFetches, StopWaits, HiddenAttempt, ReportedAttempt
  <2>2. afl = "idle" => UNCHANGED <<bitmap, buf>>
    BY <1>10, MapIsFrozen, Zenon DEF Next
  <2>3. QED
    BY <2>1, <2>2, SameForAfl, Zenon
<1>11. CASE UNCHANGED vars
  BY <1>11, Zenon DEF vars, dataVars, Contract!cvars
<1>12. QED
  BY <1>1, <1>2, <1>3, <1>4, <1>5, <1>6, <1>7, <1>8, <1>9, <1>10, <1>11, Zenon
  DEF Next, ForkserverStep

\* The proxy, the forkserver and the decoder thread implement the contract AFL++
\* relies on: one status per request, after the run is over, with the map of
\* exactly that run (of the decoded part, if the decoder gave up; of the part the
\* ETR still held, if the run was longer than the ETR).
THEOREM ContractIsImplemented == ASSUME StalkerBuild PROVE Spec => ImplementsContract
<1>1. Init => Contract!Init
  <2>1. 0 <= EtrSize
    BY TraceCoreAssumption
  <2>2. QED
    BY <2>1, Zenon DEF Init, CoreInit, Contract!Init
<1>2. StalkerInv /\ [Next]_vars => [Contract!Next]_(Contract!cvars)
  BY ContractStep, Zenon
<1>3. QED
  BY <1>1, <1>2, StalkerInvariant, PTL DEF Spec, ImplementsContract, Contract!Spec
=============================================================================
