---------------------------- MODULE CsTraceProofs ----------------------------
(***************************************************************************)
(* Proofs about cs-trace: for every program, with and without a decoder,   *)
(* whatever fails and whenever a drain begins, the file that is exported   *)
(* is the program's trace, less what the ETR overwrote and what a failing  *)
(* fetch did not get.                                                      *)
(***************************************************************************)
EXTENDS CsTrace, FiniteSetTheorems, TLAPS

\* The trace of the program, and the part of it that has left the ETF.
Ran == {child} \X (1..emitted)
Arrived == {child} \X (1 .. emitted - etf)

Before == {"exec", "init", "uninit"}
After == {"disable", "signalStop", "waitReady", "fini", "join", "export", "done"}
Draining == {"disable", "fetch", "enable", "sigcont", "decode"}

\* The program is stopped by a signal, and nobody continues it any more.
Stuck == tpc = "wait" /\ cstate = "trapped"

\* Where parent() and the program are.
Course ==
  /\ tpc \in Before \cup {"cont", "wait", "spin"} \cup After
  /\ tpc \in Before \cup {"cont"} => cstate = "trapped" /\ emitted = 0
  /\ tpc = "wait" => cstate \in {"running", "trapped", "zombie"}
  /\ tpc \in {"spin"} \cup After => cstate = "reaped"
  /\ tpc \in Before => ~started /\ dpc \in {"none", "waitStart"}
  /\ tpc = "join" => decoding_on
  /\ flushed => tpc \in After \ {"disable"}
  /\ tpc \in {"signalStop", "waitReady"} => flushed

\* Who has set which event.
Events ==
  /\ start_pending => dpc \in {"none", "waitStart"} /\ started
  /\ suspend_pending => Stuck
  /\ stop_pending => flushed
  /\ fini_pending => tpc \in {"join", "export", "done"}

\* Why the decoder thread is where it is: only a stuck program is drained, unless
\* fini_trace() ends every wait.
Decoder ==
  /\ dpc \notin {"none", "waitStart", "done"} => started
  /\ dpc \in Draining => fini_pending \/ Stuck
  /\ dpc \in {"lastFetch", "lastDecode"} => fini_pending \/ flushed
  /\ dpc = "exit" => fini_pending \/ Stuck \/ flushed
  /\ started /\ decoding_on /\ decoder_ready =>
       /\ dpc \in {"waitStart", "done"} /\ ~start_pending
       /\ fini_pending \/ Stuck \/ flushed
  /\ flushed /\ decoding_on /\ tpc \in {"fini", "join", "export", "done"} => decoder_ready

\* Nothing but the trace of the program is anywhere, and no chunk is in two places:
\* the ETR, trace_buf or decoded, overwritten.  Whatever was overwritten has EtrSize
\* later chunks.
Placed ==
  /\ etf \in Nat /\ emitted \in Nat /\ etf <= emitted
  /\ etr \cup buf \cup bitmap \cup lost \cup unread \subseteq Arrived
  /\ etr \cap (buf \cup bitmap \cup lost) = {}
  /\ (buf \cup bitmap) \cap (lost \cup unread) = {}
  /\ \A c \in lost : c[2] + EtrSize <= emitted

Own == Placed /\ file \subseteq Ran

\* All that has left the ETF is somewhere.
Accounted == Arrived \subseteq etr \cup buf \cup bitmap \cup lost \cup unread

\* From the start of the trace to its export, except that of a stuck program or
\* one whose sinks could not be flushed.
Kept ==
  /\ started
  /\ \/ tpc \in {"cont", "disable"}
     \/ tpc = "wait" /\ cstate # "trapped"
     \/ flushed /\ tpc # "done"

\* What has left the ETF is accounted for, and the last fetch gets the rest or fails.
Whole ==
  /\ flushed => etf = 0
  /\ Kept => Accounted
  /\ Kept /\ tpc \in {"cont", "wait"} => sinks
  /\ flushed /\ dpc \in {"lastDecode", "exit"} => etr \subseteq unread
  /\ flushed /\ started /\ decoding_on /\ decoder_ready => etr \subseteq unread
  /\ flushed /\ ~decoding_on /\ tpc = "export" => etr \subseteq unread

CsInv == Course /\ Events /\ Decoder /\ Own /\ Whole /\ FileIsTrace

-----------------------------------------------------------------------------
(* What the steps do                                                       *)

\* The decoder thread neither ends a program nor lets a trapped one go, and it
\* waits only for its events.
LEMMA DecoderEffect ==
  ASSUME DecoderStep, UNCHANGED frontVars, cstate \in {"running", "trapped", "zombie", "reaped"}
  PROVE  /\ UNCHANGED <<child, cstate, emitted, fini_pending>>
         /\ UNCHANGED <<tpc, how, started, flushed, file>>
         /\ dpc # "none" /\ dpc' # "none"
         /\ dpc = "waitStart" => start_pending \/ fini_pending
         /\ start_pending' => start_pending /\ dpc # "waitStart"
         /\ suspend_pending' => suspend_pending
         /\ stop_pending' => stop_pending
<1> USE DEF frontVars, eventVars, childVars, DecoderAt, wait_event
<1>1. CASE decoder_worker
  BY <1>1, Zenon DEF decoder_worker
<1>2. CASE PollingBegins \/ ReadInitPos \/ Poll
  BY <1>2 DEF PollingBegins, ReadInitPos, Poll
<1>3. CASE SuspendChild
  BY <1>3, Zenon DEF SuspendChild, SendStop
<1>4. CASE WaitSuspend
  BY <1>4, Zenon DEF WaitSuspend
<1>5. CASE DrainDisables \/ DrainFetches \/ DrainEnables
  BY <1>5 DEF DrainDisables, DrainFetches, DrainEnables
<1>6. CASE ContinueChild
  BY <1>6, Zenon DEF ContinueChild, SendCont
<1>7. CASE DrainDecodes \/ WaitStop \/ LastFetch \/ LastDecode \/ PollingEnds
  BY <1>7 DEF DrainDecodes, WaitStop, LastFetch, LastDecode, PollingEnds
<1>8. QED
  BY <1>1, <1>2, <1>3, <1>4, <1>5, <1>6, <1>7, Zenon DEF DecoderStep

\* The steps of parent() and of the program leave dpc alone.
LEMMA OthersEffect ==
  ASSUME ProgramRuns \/ ProgramTraps \/ ProgramEnds \/ ParentStep \/ UNCHANGED vars
  PROVE  dpc' = dpc /\ child' = child
<1> USE DEF vars, coreVars, frontVars, eventVars, dataVars, childVars
<1>1. CASE ProgramRuns \/ ProgramTraps \/ ProgramEnds \/ UNCHANGED vars
  BY <1>1, Zenon DEF ProgramRuns, ProgramTraps, ProgramEnds, ChildRuns, EtfDrains, Die
<1>2. CASE WaitForSigstop \/ StartTrace \/ ContinueProgram \/ WaitForProgram
  BY <1>2, Zenon DEF WaitForSigstop, StartTrace, ContinueProgram, WaitForProgram
<1>3. CASE StopDisables \/ StopSignals \/ StopWaits \/ FetchesItself
  BY <1>3, Zenon DEF StopDisables, StopSignals, StopWaits, FetchesItself
<1>4. CASE FiniSignals \/ FiniJoins \/ FiniExports
  BY <1>4, Zenon DEF FiniSignals, FiniJoins, FiniExports
<1>5. QED
  BY <1>1, <1>2, <1>3, <1>4, Zenon DEF ParentStep

-----------------------------------------------------------------------------
(* Every step preserves the invariant, part by part                        *)

\* Where parent() and the program are.
LEMMA CourseStep == CsInv /\ [Next]_vars => Course'
<1> SUFFICES ASSUME Course, Events, [Next]_vars PROVE Course'
  BY Zenon DEF CsInv
<1> USE DEF vars, coreVars, frontVars, eventVars, childVars, At, Before, After
<1>1. CASE DecoderStep /\ UNCHANGED frontVars
  <2>1. cstate \in {"running", "trapped", "zombie", "reaped"}
    BY Zenon DEF Course
  <2>2. /\ UNCHANGED <<cstate, emitted, tpc, started, flushed>>
        /\ dpc # "none" /\ dpc' # "none"
        /\ dpc = "waitStart" => start_pending \/ fini_pending
    BY <1>1, <2>1, DecoderEffect, Zenon
  <2>3. tpc \notin Before
    BY <2>2, Zenon DEF Course, Events
  <2>4. QED
    BY <2>2, <2>3, Zenon DEF Course, decoding_on
<1>2. CASE ProgramRuns \/ ProgramTraps \/ ProgramEnds \/ UNCHANGED vars
  BY <1>2 DEF ProgramRuns, ProgramTraps, ProgramEnds, ChildRuns, EtfDrains, Die, Course,
     decoding_on
<1>3. CASE WaitForSigstop \/ StartTrace \/ ContinueProgram \/ WaitForProgram
  BY <1>3 DEF WaitForSigstop, StartTrace, ContinueProgram, WaitForProgram, Course, decoding_on
<1>4. CASE StopDisables \/ StopSignals \/ StopWaits \/ FetchesItself
  BY <1>4, Zenon DEF StopDisables, StopSignals, StopWaits, FetchesItself, Course, decoding_on
<1>5. CASE FiniSignals \/ FiniJoins \/ FiniExports
  BY <1>5, Zenon DEF FiniSignals, FiniJoins, FiniExports, Course, decoding_on
<1>6. QED
  BY <1>1, <1>2, <1>3, <1>4, <1>5, Zenon DEF Next, ParentStep

\* Who has set which event.
LEMMA EventsStep == CsInv /\ [Next]_vars => Events'
<1> SUFFICES ASSUME Course, Events, [Next]_vars PROVE Events'
  BY Zenon DEF CsInv
<1> USE DEF vars, coreVars, frontVars, eventVars, childVars, At, Before, After, Stuck
<1>1. CASE DecoderStep /\ UNCHANGED frontVars
  <2>1. cstate \in {"running", "trapped", "zombie", "reaped"}
    BY Zenon DEF Course
  <2>2. /\ UNCHANGED <<cstate, fini_pending, tpc, started, flushed>>
        /\ dpc # "none"
        /\ start_pending' => start_pending /\ dpc # "waitStart"
        /\ suspend_pending' => suspend_pending
        /\ stop_pending' => stop_pending
    BY <1>1, <2>1, DecoderEffect, Zenon
  <2>3. QED
    BY <2>2, Zenon DEF Events
<1>2. CASE ProgramRuns \/ ProgramTraps \/ ProgramEnds \/ UNCHANGED vars
  BY <1>2 DEF ProgramRuns, ProgramTraps, ProgramEnds, ChildRuns, EtfDrains, Die, Events
<1>3. CASE WaitForSigstop \/ StartTrace \/ ContinueProgram \/ WaitForProgram
  BY <1>3 DEF WaitForSigstop, StartTrace, ContinueProgram, WaitForProgram, signal_event,
     Course, Events
<1>4. CASE StopDisables \/ StopWaits \/ FetchesItself
  BY <1>4 DEF StopDisables, StopWaits, FetchesItself, Events
<1>5. CASE StopSignals
  BY <1>5, Zenon DEF StopSignals, signal_event, Course, Events
<1>6. CASE FiniSignals \/ FiniJoins \/ FiniExports
  BY <1>6 DEF FiniSignals, FiniJoins, FiniExports, signal_event, Events
<1>7. QED
  BY <1>1, <1>2, <1>3, <1>4, <1>5, <1>6, Zenon DEF Next, ParentStep

\* Why the decoder thread is where it is.
LEMMA DecoderInv == CsInv /\ [Next]_vars => Decoder'
<1> SUFFICES ASSUME Course, Events, Decoder, [Next]_vars PROVE Decoder'
  BY Zenon DEF CsInv
<1> USE DEF vars, coreVars, frontVars, eventVars, childVars, At, DecoderAt, After, Draining,
            Stuck, decoding_on
<1>1. CASE DecoderStep /\ UNCHANGED frontVars
  <2>1. cstate \in {"running", "trapped", "zombie", "reaped"}
    BY Zenon DEF Course, Before
  <2>2. /\ UNCHANGED <<cstate, fini_pending, tpc, started, flushed>>
        /\ dpc # "none" /\ dpc' # "none"
        /\ start_pending' => start_pending /\ dpc # "waitStart"
        /\ stop_pending' => stop_pending
    BY <1>1, <2>1, DecoderEffect, Zenon
  <2>3. CASE decoder_worker
    <3>1. CASE start_pending
      BY <2>2, <2>3, <3>1, Zenon DEF decoder_worker, Decoder, Events
    <3>2. CASE ~start_pending
      BY <2>2, <2>3, <3>2 DEF decoder_worker, wait_event, Decoder, Events
    <3>3. QED
      BY <3>1, <3>2, Zenon
  <2>4. CASE PollingBegins \/ ReadInitPos \/ Poll
    BY <2>2, <2>4 DEF PollingBegins, ReadInitPos, Poll, Decoder
  <2>5. CASE SuspendChild
    BY <2>2, <2>5, Zenon DEF SuspendChild, Decoder
  <2>6. CASE WaitSuspend
    BY <2>2, <2>6 DEF WaitSuspend, wait_event, Decoder, Events
  <2>7. CASE DrainDisables \/ DrainFetches \/ DrainEnables
    BY <2>2, <2>7 DEF DrainDisables, DrainFetches, DrainEnables, Decoder
  <2>8. CASE ContinueChild
    BY <2>2, <2>8 DEF ContinueChild, Decoder
  <2>9. CASE DrainDecodes
    BY <2>2, <2>9 DEF DrainDecodes, Decoder
  <2>10. CASE WaitStop
    BY <2>2, <2>10 DEF WaitStop, wait_event, Decoder, Events
  <2>11. CASE LastFetch \/ LastDecode
    BY <2>2, <2>11 DEF LastFetch, LastDecode, Decoder
  <2>12. CASE PollingEnds
    BY <2>2, <2>12 DEF PollingEnds, Decoder, Events
  <2>13. QED
    BY <1>1, <2>3, <2>4, <2>5, <2>6, <2>7, <2>8, <2>9, <2>10, <2>11, <2>12, Zenon DEF DecoderStep
<1>2. CASE ProgramRuns \/ ProgramTraps \/ ProgramEnds \/ UNCHANGED vars
  BY <1>2 DEF ProgramRuns, ProgramTraps, ProgramEnds, ChildRuns, EtfDrains, Die, Decoder
<1>3. CASE WaitForSigstop \/ ContinueProgram
  BY <1>3 DEF WaitForSigstop, ContinueProgram, Course, Decoder
<1>4. CASE WaitForProgram
  BY <1>4, Zenon DEF WaitForProgram, Course, Decoder
<1>5. CASE StartTrace
  <2>1. /\ dpc' = dpc /\ dpc \in {"none", "waitStart"} /\ ~started /\ ~flushed /\ flushed' = flushed
    BY <1>5, Zenon DEF StartTrace, Before, Course
  <2>2. started' /\ decoder_ready' => ~decoding_on
    <3>1. CASE decoder_ready' = ~decoding_on
      BY <3>1, Zenon
    <3>2. CASE UNCHANGED started
      BY <2>1, <3>2, Zenon
    <3>3. QED
      BY <1>5, <3>1, <3>2, Zenon DEF StartTrace
  <2>3. QED
    BY <2>1, <2>2, Zenon DEF Decoder
<1>6. CASE StopDisables
  BY <1>6 DEF StopDisables, Course, Decoder
<1>7. CASE StopSignals \/ StopWaits \/ FetchesItself
  BY <1>7 DEF StopSignals, StopWaits, FetchesItself, Decoder
<1>8. CASE FiniSignals \/ FiniJoins \/ FiniExports
  BY <1>8 DEF FiniSignals, FiniJoins, FiniExports, signal_event, Decoder
<1>9. QED
  BY <1>1, <1>2, <1>3, <1>4, <1>5, <1>6, <1>7, <1>8, Zenon DEF Next, ParentStep

-----------------------------------------------------------------------------
(* The trace                                                               *)

\* A part of a stretch of the trace has no more chunks than the stretch.
LEMMA StretchBounds ==
  ASSUME NEW c, NEW i \in Nat, NEW m \in Nat, i <= m,
         NEW s \in SUBSET ({c} \X (i+1 .. m))
  PROVE  Cardinality(s) <= m - i
<1>1. i+1 \in Int /\ m \in Int
  OBVIOUS
<1>2. /\ IsFiniteSet(i+1 .. m)
      /\ Cardinality(i+1 .. m) = IF i+1 > m THEN 0 ELSE m - (i+1) + 1
  BY <1>1, FS_Interval, Zenon
<1>3. IsFiniteSet({c}) /\ Cardinality({c}) = 1
  BY FS_Singleton, Zenon
<1>4. /\ IsFiniteSet({c} \X (i+1 .. m))
      /\ Cardinality({c} \X (i+1 .. m)) = Cardinality({c}) * Cardinality(i+1 .. m)
  BY <1>2, <1>3, FS_Product, Zenon
<1>5. Cardinality(s) <= Cardinality({c} \X (i+1 .. m))
  BY <1>4, FS_Subset, Zenon
<1>6. QED
  BY <1>2, <1>3, <1>4, <1>5

\* The ring overwrites only what has EtrSize later chunks.
LEMMA Overwritten ==
  ASSUME NEW m \in Nat, NEW written \in SUBSET ({child} \X (1..m)),
         NEW s \in Latest(written), NEW c \in written \ s
  PROVE  c[2] + EtrSize <= m
<1>1. /\ s \in SUBSET written /\ Cardinality(s) = EtrSize
      /\ \A x \in written \ s, d \in s : ~Older(d, x)
  BY Zenon DEF Latest
<1>2. PICK i \in 1..m : c = <<child, i>>
  OBVIOUS
<1>3. ASSUME NEW d \in s PROVE d \in {child} \X (i+1 .. m)
  <2>1. PICK j \in 1..m : d = <<child, j>>
    BY <1>1, <1>3
  <2>2. ~(j < i) /\ j # i
    BY <1>1, <1>2, <1>3, <2>1 DEF Older
  <2>3. j \in i+1 .. m
    BY <2>2
  <2>4. QED
    BY <2>1, <2>3
<1>4. s \in SUBSET ({child} \X (i+1 .. m)) /\ i \in Nat /\ i <= m
  BY <1>3
<1>5. EtrSize <= m - i
  BY <1>1, <1>4, StretchBounds, Zenon
<1>6. QED
  BY <1>2, <1>5, TraceCoreAssumption

\* The ETR keeps only what was written to it.
LEMMA LatestOf == ASSUME NEW w, NEW s \in Latest(w) PROVE s \subseteq w
BY DEF Latest

\* How a step may move the trace.
Moves ==
  \/ UNCHANGED dataVars
  \/ (\E n \in 0..etf : Drain(n)) /\ UNCHANGED <<buf, bitmap, unread>>
  \/ fetch_trace \/ fetch_trace_fails
  \/ decode_trace \/ decode_trace_fails

\* What a move keeps.
MoveKeeps ==
  /\ Placed'
  /\ etf = 0 => etf' = 0
  /\ Accounted => Accounted'
  /\ etf = 0 /\ etr \subseteq unread => etr' \subseteq unread'

\* The ETF is emptied in order into the ETR.
LEMMA Drained ==
  ASSUME Placed, NEW n \in 0..etf, Drain(n), UNCHANGED <<child, emitted, buf, bitmap, unread>>
  PROVE  MoveKeeps
<1> DEFINE new == {child} \X (emitted - etf + 1 .. emitted - etf + n)
           written == etr \cup new
<1>1. /\ etf' = etf - n /\ etr' \in Latest(written) /\ lost' = lost \cup (written \ etr')
  BY Zenon DEF Drain
<1>2. etr' \subseteq written
  BY <1>1, LatestOf, Zenon
<1>3. etf \in Nat /\ emitted \in Nat /\ etf <= emitted
  BY Zenon DEF Placed
<1>4. /\ etf' \in Nat /\ etf' <= emitted /\ emitted - etf' \in Nat /\ emitted - etf' <= emitted
      /\ etf = 0 => etf' = 0 /\ (emitted - etf + 1 .. emitted - etf + n) = {}
      /\ (1 .. emitted - etf) \cup (emitted - etf + 1 .. emitted - etf + n) = 1 .. emitted - etf'
      /\ (1 .. emitted - etf) \cap (emitted - etf + 1 .. emitted - etf + n) = {}
  BY <1>1, <1>3
<1>5. Arrived' = {child} \X (1 .. emitted - etf')
  BY Zenon DEF Arrived
<1>6. Arrived' = Arrived \cup new
  <2>1. Arrived \cup new
          = {child} \X ((1 .. emitted - etf) \cup (emitted - etf + 1 .. emitted - etf + n))
    BY Zenon DEF Arrived
  <2>2. QED
    BY <1>4, <1>5, <2>1, Zenon
<1>7. Arrived \cap new = {}
  <2>1. Arrived \cap new
          = {child} \X ((1 .. emitted - etf) \cap (emitted - etf + 1 .. emitted - etf + n))
    BY Zenon DEF Arrived
  <2>2. QED
    BY <1>4, <2>1, Zenon
<1>8. /\ etr \cup buf \cup bitmap \cup lost \cup unread \subseteq Arrived
      /\ etr \cap (buf \cup bitmap \cup lost) = {}
      /\ (buf \cup bitmap) \cap (lost \cup unread) = {}
  BY Zenon DEF Placed
<1>9. /\ etr' \cup buf \cup bitmap \cup lost' \cup unread \subseteq Arrived'
      /\ etr' \cap (buf \cup bitmap \cup lost') = {}
      /\ (buf \cup bitmap) \cap (lost' \cup unread) = {}
  <2>1. etr' \cup buf \cup bitmap \cup lost' \cup unread \subseteq Arrived'
    BY <1>1, <1>2, <1>6, <1>8, Zenon
  <2>2. written \cap (buf \cup bitmap \cup lost) = {}
    BY <1>7, <1>8, Zenon
  <2>3. etr' \cap (buf \cup bitmap \cup lost') = {}
    BY <1>1, <1>2, <2>2, Zenon
  <2>4. (buf \cup bitmap) \cap (lost' \cup unread) = {}
    BY <1>1, <1>8, <2>2, Zenon
  <2>5. QED
    BY <2>1, <2>3, <2>4, Zenon
<1>10. ASSUME NEW c \in lost' PROVE c[2] + EtrSize <= emitted
  <2>1. CASE c \in lost
    BY <2>1, Zenon DEF Placed
  <2>2. CASE c \notin lost
    <3>1. c \in written \ etr'
      BY <1>1, <1>10, <2>2, Zenon
    <3>2. written \in SUBSET ({child} \X (1 .. emitted - etf'))
      BY <1>5, <1>6, <1>8, Zenon
    <3>3. c[2] + EtrSize <= emitted - etf'
      <4> HIDE DEF written
      <4> QED
        BY <1>1, <1>4, <3>1, <3>2, Overwritten, Zenon
    <3>4. c[2] \in Nat
      BY <1>4, <3>1, <3>2
    <3>5. QED
      BY <1>3, <1>4, <3>3, <3>4, TraceCoreAssumption
  <2>3. QED
    BY <2>1, <2>2, Zenon
<1>11. Placed'
  BY <1>3, <1>4, <1>9, <1>10, Zenon DEF Placed
<1>12. Accounted => Accounted'
  BY <1>1, <1>2, <1>6, Zenon DEF Accounted
<1>13. etf = 0 /\ etr \subseteq unread => etr' \subseteq unread'
  BY <1>2, <1>4, Zenon
<1>14. QED
  BY <1>4, <1>11, <1>12, <1>13, Zenon DEF MoveKeeps

\* fetch_trace(), however it ends, moves chunks out of the ETR or leaves them there.
LEMMA Fetched ==
  ASSUME Placed, fetch_trace \/ fetch_trace_fails, UNCHANGED <<child, emitted>>
  PROVE  MoveKeeps /\ etr' \subseteq unread'
<1>1. CASE fetch_trace
  <2>1. PICK part \in SUBSET etr :
          buf' = buf \cup part /\ unread' = (unread \cup etr) \ part
    BY <1>1, Zenon DEF fetch_trace
  <2>2. etr' = {} /\ UNCHANGED <<etf, bitmap, lost>> /\ Arrived' = Arrived
    BY <1>1, Zenon DEF fetch_trace, Arrived
  <2>3. /\ etr \cup buf \cup bitmap \cup lost \cup unread \subseteq Arrived
        /\ etr \cap (buf \cup bitmap \cup lost) = {}
        /\ (buf \cup bitmap) \cap (lost \cup unread) = {}
    BY Zenon DEF Placed
  <2>4. (buf' \cup bitmap) \cap (lost \cup unread') = {}
    BY <2>1, <2>3, Zenon
  <2>5. buf' \cup bitmap \cup lost \cup unread' \subseteq Arrived
    BY <2>1, <2>3, Zenon
  <2>6. Placed'
    BY <2>2, <2>4, <2>5, Zenon DEF Placed
  <2>7. Accounted => Accounted'
    BY <2>1, <2>2, Zenon DEF Accounted
  <2>8. QED
    BY <2>2, <2>6, <2>7, Zenon DEF MoveKeeps
<1>2. CASE fetch_trace_fails
  <2>1. /\ unread' = unread \cup etr /\ UNCHANGED <<etf, etr, buf, bitmap, lost>>
        /\ Arrived' = Arrived
    BY <1>2, Zenon DEF fetch_trace_fails, Arrived
  <2>2. Placed'
    BY <2>1, Zenon DEF Placed
  <2>3. Accounted => Accounted'
    BY <2>1, Zenon DEF Accounted
  <2>4. QED
    BY <2>1, <2>2, <2>3, Zenon DEF MoveKeeps
<1>3. QED
  BY <1>1, <1>2, Zenon

\* A move neither invents trace nor loses any unnoticed.
LEMMA Moved ==
  ASSUME Placed, Moves, UNCHANGED <<child, emitted>>
  PROVE  MoveKeeps
<1>1. CASE UNCHANGED dataVars
  BY <1>1, Zenon DEF dataVars, lossVars, Placed, Accounted, Arrived, MoveKeeps
<1>2. CASE (\E n \in 0..etf : Drain(n)) /\ UNCHANGED <<buf, bitmap, unread>>
  BY <1>2, Drained, Zenon
<1>3. CASE fetch_trace \/ fetch_trace_fails
  BY <1>3, Fetched, Zenon
<1>4. CASE decode_trace \/ decode_trace_fails
  <2>1. /\ UNCHANGED <<etf, etr, lost, unread>> /\ Arrived' = Arrived
        /\ buf' \cup bitmap' = buf \cup bitmap
    <3>1. CASE decode_trace
      BY <3>1, Zenon DEF decode_trace, lossVars, Arrived
    <3>2. CASE decode_trace_fails
      <4>1. PICK part \in SUBSET buf : bitmap' = bitmap \cup part
        BY <3>2, Zenon DEF decode_trace_fails
      <4>2. UNCHANGED <<etf, etr, buf, lost, unread>> /\ Arrived' = Arrived
        BY <3>2, Zenon DEF decode_trace_fails, lossVars, Arrived
      <4>3. QED
        BY <4>1, <4>2, Zenon
    <3>3. QED
      BY <1>4, <3>1, <3>2, Zenon
  <2>2. Placed'
    BY <2>1, Zenon DEF Placed
  <2>3. Accounted => Accounted'
    BY <2>1, Zenon DEF Accounted
  <2>4. QED
    BY <2>1, <2>2, <2>3, Zenon DEF MoveKeeps
<1>5. QED
  BY <1>1, <1>2, <1>3, <1>4, Zenon DEF Moves

\* disable_cs_trace() empties the ETF.
LEMMA Flush ==
  ASSUME Own, disable_cs_trace
  PROVE  Moves /\ etf' = 0
<1>1. etf \in 0..etf /\ etf - etf = 0
  BY DEF Own, Placed
<1>2. Drain(etf) /\ UNCHANGED <<buf, bitmap, unread>>
  BY Zenon DEF disable_cs_trace
<1>3. QED
  BY <1>1, <1>2, Zenon DEF Moves, Drain

LEMMA FlushFails ==
  ASSUME Own, disable_cs_trace_fails
  PROVE  Moves
BY Flush, Zenon DEF disable_cs_trace_fails, Moves

\* The decoder thread only moves the trace, and sets up the ETR in a drain.
LEMMA DecoderMoves ==
  ASSUME DecoderStep, Own, UNCHANGED <<child, emitted>>
  PROVE  /\ Moves \/ (dpc = "enable" /\ enable_cs_trace)
         /\ dpc \notin Draining => sinks' = sinks
         /\ dpc' = "lastDecode" => etr' \subseteq unread'
         /\ dpc' = "exit" => dpc \in {"lastDecode", "disable", "decode"}
         /\ decoder_ready' => decoder_ready \/ dpc = "exit"
<1> USE DEF DecoderAt, Draining
<1>1. CASE \/ decoder_worker \/ PollingBegins \/ ReadInitPos \/ Poll \/ SuspendChild
           \/ WaitSuspend \/ ContinueChild \/ WaitStop \/ PollingEnds
  <2>1. UNCHANGED <<sinks, dataVars>>
    BY <1>1, Zenon DEF decoder_worker, PollingBegins, ReadInitPos, Poll, SuspendChild,
       WaitSuspend, ContinueChild, WaitStop, PollingEnds
  <2>2. /\ dpc' \notin {"lastDecode", "exit"}
        /\ decoder_ready' => decoder_ready \/ dpc = "exit"
    BY <1>1 DEF decoder_worker, PollingBegins, ReadInitPos, Poll, SuspendChild,
       WaitSuspend, ContinueChild, WaitStop, PollingEnds
  <2>3. QED
    BY <2>1, <2>2, Zenon DEF Moves
<1>2. CASE DrainDisables
  BY <1>2, Flush, FlushFails, Zenon DEF DrainDisables
<1>3. CASE DrainFetches
  BY <1>3, Zenon DEF DrainFetches, Moves
<1>4. CASE DrainEnables
  BY <1>4, Zenon DEF DrainEnables, enable_cs_trace_fails, Moves
<1>5. CASE DrainDecodes
  BY <1>5, Zenon DEF DrainDecodes, Moves
<1>6. CASE LastFetch
  BY <1>6, Fetched, Zenon DEF LastFetch, Moves, Own
<1>7. CASE LastDecode
  BY <1>7, Zenon DEF LastDecode, Moves
<1>8. QED
  BY <1>1, <1>2, <1>3, <1>4, <1>5, <1>6, <1>7, Zenon DEF DecoderStep

\* Nothing but the trace of the program is anywhere.
LEMMA OwnStep == CsInv /\ [Next]_vars => Own'
<1> SUFFICES ASSUME Course, Own, [Next]_vars PROVE Own'
  BY Zenon DEF CsInv
<1> USE DEF vars, coreVars, frontVars, dataVars, lossVars, childVars, At
<1>0. /\ Placed /\ file \subseteq Ran
      /\ etf \in Nat /\ emitted \in Nat /\ etf <= emitted
  BY Zenon DEF Own, Placed
<1>1. ASSUME Moves \/ enable_cs_trace, UNCHANGED <<child, emitted>>, file' \subseteq Ran
      PROVE  Own'
  <2>1. Ran' = Ran
    BY <1>1, Zenon DEF Ran
  <2>2. CASE Moves
    <3>1. Placed'
      BY <1>0, <1>1, <2>2, Moved, Zenon DEF MoveKeeps
    <3>2. QED
      BY <1>1, <2>1, <3>1, Zenon DEF Own
  <2>3. CASE enable_cs_trace
    <3>1. etr' \subseteq etr /\ UNCHANGED <<etf, buf, bitmap, lost, unread>> /\ Arrived' = Arrived
      BY <1>1, <2>3, Zenon DEF enable_cs_trace, Arrived
    <3>2. Placed'
      BY <1>0, <1>1, <3>1, Zenon DEF Placed
    <3>3. QED
      BY <1>1, <2>1, <3>2, Zenon DEF Own
  <2>4. QED
    BY <1>1, <2>2, <2>3, Zenon
<1>2. CASE DecoderStep /\ UNCHANGED frontVars
  <2>1. cstate \in {"running", "trapped", "zombie", "reaped"}
    BY Zenon DEF Course, Before, After
  <2>2. UNCHANGED <<child, emitted, file>>
    BY <1>2, <2>1, DecoderEffect, Zenon
  <2>3. Moves \/ enable_cs_trace
    BY <1>2, <2>2, DecoderMoves, Zenon
  <2>4. QED
    BY <1>0, <1>1, <2>2, <2>3, Zenon
<1>3. CASE ChildRuns /\ UNCHANGED frontVars
  <2>1. /\ emitted' = emitted + 1 /\ etf' \in {etf, etf + 1}
        /\ UNCHANGED <<child, etr, buf, bitmap, lost, unread, file>>
    BY <1>3, Zenon DEF ChildRuns
  <2>2. 1..emitted \subseteq 1..emitted' /\ 1 .. emitted - etf \subseteq 1 .. emitted' - etf'
    <3>1. /\ emitted \in Int /\ emitted' \in Int /\ emitted <= emitted'
          /\ emitted - etf \in Int /\ emitted' - etf' \in Int
          /\ emitted - etf <= emitted' - etf'
      <4>1. /\ etf \in Nat /\ emitted \in Nat
            /\ emitted' = emitted + 1 /\ (etf' = etf \/ etf' = etf + 1)
        BY <1>0, <2>1, Zenon
      <4>2. QED
        BY ONLY <4>1
    <3>2. \A i, j \in Int : i <= j => 1..i \subseteq 1..j
      OBVIOUS
    <3>3. QED
      BY <3>1, <3>2, Zenon
  <2>3. Ran \subseteq Ran' /\ Arrived \subseteq Arrived'
    BY <2>1, <2>2, Zenon DEF Ran, Arrived
  <2>4. etf' \in Nat /\ emitted' \in Nat /\ etf' <= emitted'
    BY <1>0, <2>1
  <2>5. \A c \in lost : c[2] + EtrSize <= emitted'
    <3>1. ASSUME NEW c \in lost PROVE c[2] + EtrSize <= emitted'
      <4>1. c \in Arrived /\ c[2] + EtrSize <= emitted
        BY <1>0, <3>1, Zenon DEF Placed
      <4>2. c[2] \in Nat
        BY <1>0, <4>1 DEF Arrived
      <4>3. QED
        BY <1>0, <2>1, <4>1, <4>2, TraceCoreAssumption
    <3>2. QED
      BY <3>1, Zenon
  <2>6. Placed'
    BY <1>0, <2>1, <2>3, <2>4, <2>5, Zenon DEF Placed
  <2>7. QED
    BY <1>0, <2>1, <2>3, <2>6, Zenon DEF Own
<1>4. CASE EtfDrains /\ UNCHANGED frontVars
  <2>1. 1 \in 0..etf
    BY <1>0, <1>4 DEF EtfDrains
  <2>2. Moves /\ UNCHANGED <<child, emitted, file>>
    BY <1>4, <2>1, Zenon DEF EtfDrains, Moves
  <2>3. QED
    BY <1>0, <1>1, <2>2, Zenon
<1>5. CASE \/ ProgramTraps \/ ProgramEnds \/ WaitForSigstop \/ ContinueProgram \/ WaitForProgram
           \/ StopSignals \/ StopWaits \/ FiniSignals \/ FiniJoins \/ UNCHANGED vars
  <2>1. UNCHANGED <<child, emitted, file, dataVars>>
    BY <1>5, Zenon DEF ProgramTraps, ProgramEnds, Die, WaitForSigstop, ContinueProgram,
       WaitForProgram, StopSignals, StopWaits, FiniSignals, FiniJoins
  <2>2. QED
    BY <1>0, <1>1, <2>1, Zenon DEF Moves
<1>6. CASE StartTrace
  BY <1>0, <1>1, <1>6, Zenon DEF StartTrace, Moves
<1>7. CASE StopDisables
  <2>1. Moves
    BY <1>7, Flush, FlushFails, Zenon DEF StopDisables
  <2>2. QED
    BY <1>0, <1>1, <1>7, <2>1, Zenon DEF StopDisables
<1>8. CASE FetchesItself
  BY <1>0, <1>1, <1>8, Zenon DEF FetchesItself, Moves
<1>9. CASE FiniExports
  <2>1. /\ file' = bitmap \cup buf /\ etr' = {} /\ buf' = {}
        /\ UNCHANGED <<child, emitted, etf, bitmap, lost, unread>>
    BY <1>9, Zenon DEF FiniExports
  <2>2. Arrived' = Arrived /\ Ran' = Ran
    BY <2>1, Zenon DEF Arrived, Ran
  <2>3. 1 .. emitted - etf \subseteq 1..emitted
    BY <1>0
  <2>4. Arrived \subseteq Ran
    BY <2>3, Zenon DEF Arrived, Ran
  <2>5. Placed'
    BY <1>0, <2>1, <2>2, Zenon DEF Placed
  <2>6. QED
    BY <1>0, <2>1, <2>2, <2>4, <2>5, Zenon DEF Own, Placed
<1>10. QED
  BY <1>2, <1>3, <1>4, <1>5, <1>6, <1>7, <1>8, <1>9, Zenon DEF Next, ParentStep, ProgramRuns

\* No drain is under way where trace could be lost by one.
LEMMA NoDrain ==
  ASSUME Course, Events, Decoder, flushed \/ Kept
  PROVE  dpc \notin Draining
<1> SUFFICES ASSUME dpc \in Draining PROVE FALSE
  BY Zenon
<1>1. started /\ decoding_on
  BY Zenon DEF Draining, decoding_on, Decoder
<1>2. ~Stuck
  BY Zenon DEF Course, Stuck, Kept, After
<1>3. fini_pending /\ tpc \in {"join", "export", "done"}
  BY <1>2, Zenon DEF Decoder, Events
<1>4. flushed
  BY <1>3, Zenon DEF Kept
<1>5. decoder_ready
  BY <1>1, <1>3, <1>4, Zenon DEF Decoder
<1>6. dpc \in {"waitStart", "done"}
  BY <1>1, <1>5, Zenon DEF Decoder
<1>7. QED
  BY <1>6, Zenon DEF Draining

\* What has left the ETF is not lost, and the last fetch gets the rest.
LEMMA WholeStep == CsInv /\ [Next]_vars => Whole'
<1> SUFFICES ASSUME Course, Events, Decoder, Own, Whole, [Next]_vars PROVE Whole'
  BY Zenon DEF CsInv
<1> USE DEF vars, coreVars, frontVars, dataVars, lossVars, childVars, At
<1>0. /\ etf \in Nat /\ emitted \in Nat /\ etf <= emitted /\ Placed
  BY Zenon DEF Own, Placed
<1>1. CASE DecoderStep /\ UNCHANGED frontVars
  <2>1. cstate \in {"running", "trapped", "zombie", "reaped"}
    BY Zenon DEF Course, Before, After
  <2>2. /\ UNCHANGED <<child, emitted, cstate, tpc, started, flushed>>
        /\ dpc # "none" /\ dpc' # "none"
    BY <1>1, <2>1, DecoderEffect, Zenon
  <2>3. /\ Moves \/ (dpc = "enable" /\ enable_cs_trace)
        /\ dpc \notin Draining => sinks' = sinks
        /\ dpc' = "lastDecode" => etr' \subseteq unread'
        /\ dpc' = "exit" => dpc \in {"lastDecode", "disable", "decode"}
        /\ decoder_ready' => decoder_ready \/ dpc = "exit"
    BY <1>1, <2>2, DecoderMoves, Zenon
  <2>4. Kept' <=> Kept
    BY <2>2, Zenon DEF Kept
  <2>5. CASE ~(flushed \/ Kept)
    BY <2>2, <2>4, <2>5, Zenon DEF Whole
  <2>6. CASE flushed \/ Kept
    <3>1. dpc \notin Draining
      BY <2>6, NoDrain, Zenon
    <3>2. Moves /\ sinks' = sinks
      BY <2>3, <3>1, Zenon DEF Draining
    <3>3. /\ etf = 0 => etf' = 0
          /\ Accounted => Accounted'
          /\ etf = 0 /\ etr \subseteq unread => etr' \subseteq unread'
      BY <1>0, <2>2, <3>2, Moved, Zenon DEF MoveKeeps
    <3>4. flushed /\ dpc' \in {"lastDecode", "exit"} => etr' \subseteq unread'
      BY <2>3, <3>1, <3>3, Zenon DEF Draining, Whole
    <3>5. flushed /\ started /\ decoder_ready' => etr' \subseteq unread'
      BY <2>2, <2>3, <3>3, Zenon DEF decoding_on, Whole
    <3>6. QED
      BY <2>2, <2>4, <3>2, <3>3, <3>4, <3>5, Zenon DEF decoding_on, Whole
  <2>7. QED
    BY <2>5, <2>6, Zenon
<1>2. CASE ChildRuns /\ UNCHANGED frontVars
  <2>1. cstate = "running" /\ ~flushed /\ tpc = "wait"
    BY <1>2, Zenon DEF ChildRuns, Course, Before, After
  <2>2. Kept' <=> Kept
    BY <1>2, Zenon DEF ChildRuns, Kept
  <2>3. Kept => Arrived' = Arrived
    <3>1. Kept => etf' = etf + 1 /\ emitted' = emitted + 1 /\ child' = child
      BY <1>2, <2>1, Zenon DEF ChildRuns, Whole
    <3>2. Kept => emitted' - etf' = emitted - etf
      BY <1>0, <3>1
    <3>3. QED
      BY <3>1, <3>2, Zenon DEF Arrived
  <2>4. QED
    BY <1>2, <2>1, <2>2, <2>3, Zenon DEF ChildRuns, Whole, Accounted
<1>3. CASE EtfDrains /\ UNCHANGED frontVars
  <2>1. 1 \in 0..etf /\ ~flushed
    BY <1>0, <1>3 DEF EtfDrains, Whole
  <2>2. Moves /\ UNCHANGED <<child, emitted, cstate, sinks>>
    BY <1>3, <2>1, Zenon DEF EtfDrains, Moves
  <2>3. Accounted => Accounted'
    BY <1>0, <2>2, Moved, Zenon DEF MoveKeeps
  <2>4. Kept' <=> Kept
    BY <1>3, <2>2, Zenon DEF Kept
  <2>5. QED
    BY <1>3, <2>1, <2>2, <2>3, <2>4, Zenon DEF Whole

<1>4. ASSUME UNCHANGED <<child, emitted, dataVars, sinks, dpc, decoder_ready, flushed, started>>,
             Kept' => Kept /\ (tpc' \in {"cont", "wait"} => tpc \in {"cont", "wait"}),
             tpc' = "export" => tpc = "export" \/ decoding_on
      PROVE  Whole'
  BY <1>4, Zenon DEF Whole, Accounted, Arrived, decoding_on
<1>5. CASE ProgramTraps \/ ProgramEnds
  <2>1. tpc = "wait" /\ ~flushed
    BY <1>5, Zenon DEF ProgramTraps, ProgramEnds, Course, Before, After
  <2>2. UNCHANGED <<child, emitted, dataVars, sinks, dpc, decoder_ready, flushed, started, tpc>>
    BY <1>5, Zenon DEF ProgramTraps, ProgramEnds, Die
  <2>3. Kept' => Kept
    BY <1>5, <2>1, <2>2, Zenon DEF ProgramTraps, ProgramEnds, Kept
  <2>4. QED
    BY <1>4, <2>1, <2>2, <2>3, Zenon
<1>6. CASE WaitForSigstop \/ ContinueProgram \/ WaitForProgram \/ UNCHANGED vars
  <2>1. UNCHANGED <<child, emitted, dataVars, sinks, dpc, decoder_ready, flushed, started>>
    BY <1>6, Zenon DEF WaitForSigstop, ContinueProgram, WaitForProgram
  <2>2. Kept' => Kept /\ (tpc' \in {"cont", "wait"} => tpc \in {"cont", "wait"})
    BY <1>6, Zenon DEF WaitForSigstop, ContinueProgram, WaitForProgram, Kept, Course, Before, After
  <2>3. tpc' = "export" => tpc = "export"
    BY <1>6, Zenon DEF WaitForSigstop, ContinueProgram, WaitForProgram
  <2>4. QED
    BY <1>4, <2>1, <2>2, <2>3, Zenon
<1>7. CASE StopSignals \/ StopWaits \/ FiniSignals \/ FiniJoins
  <2>1. UNCHANGED <<child, emitted, dataVars, sinks, dpc, decoder_ready, flushed, started>>
    BY <1>7, Zenon DEF StopSignals, StopWaits, FiniSignals, FiniJoins
  <2>2. Kept' => Kept /\ tpc' \notin {"cont", "wait"}
    BY <1>7, Zenon DEF StopSignals, StopWaits, FiniSignals, FiniJoins, Kept
  <2>3. tpc' = "export" => decoding_on
    BY <1>7, Zenon DEF StopSignals, StopWaits, FiniSignals, FiniJoins, decoding_on
  <2>4. QED
    BY <1>4, <2>1, <2>2, <2>3, Zenon
<1>8. CASE StartTrace
  <2>1. /\ ~started /\ ~flushed /\ ~flushed' /\ emitted = 0 /\ emitted' = emitted
        /\ tpc' = "cont"
    BY <1>8, Zenon DEF StartTrace, Course, Before, After
  <2>2. CASE UNCHANGED started
    BY <2>1, <2>2, Zenon DEF Kept, Whole
  <2>3. CASE enable_cs_trace
    <3>1. etf' = 0 /\ sinks'
      BY <1>0, <2>1, <2>3 DEF enable_cs_trace
    <3>2. 1 .. 0 - 0 = {}
      OBVIOUS
    <3>3. Arrived' = {}
      BY <2>1, <3>1, <3>2, Zenon DEF Arrived
    <3>4. QED
      BY <2>1, <3>1, <3>3, Zenon DEF Whole, Accounted
  <2>4. QED
    BY <1>8, <2>2, <2>3, Zenon DEF StartTrace
<1>9. CASE StopDisables
  <2>1. /\ tpc = "disable" /\ ~flushed /\ ~fini_pending /\ ~Stuck
        /\ UNCHANGED <<child, emitted, dpc, decoder_ready, started>>
    BY <1>9, Zenon DEF StopDisables, Course, Events, Before, After, Stuck
  <2>2. CASE tpc' = "fini" /\ UNCHANGED flushed
    BY <2>1, <2>2, Zenon DEF Kept, Whole
  <2>3. CASE tpc' = "signalStop" /\ disable_cs_trace
    <3>1. Moves /\ etf' = 0
      BY <2>3, Flush, Zenon
    <3>2. Accounted => Accounted'
      BY <1>0, <2>1, <3>1, Moved, Zenon DEF MoveKeeps
    <3>3. Kept' => Kept
      BY <2>1, Zenon DEF Kept
    <3>4. dpc \notin {"lastDecode", "exit"} /\ ~(started /\ decoding_on /\ decoder_ready)
      BY <2>1, Zenon DEF Decoder
    <3>5. QED
      BY <2>1, <2>3, <3>1, <3>2, <3>3, <3>4, Zenon DEF Whole, decoding_on
  <2>4. QED
    BY <1>9, <2>2, <2>3, Zenon DEF StopDisables
<1>10. CASE FetchesItself
  <2>1. /\ Moves /\ etr' \subseteq unread' /\ ~decoding_on
        /\ UNCHANGED <<child, emitted, cstate, sinks, dpc, started, flushed>>
        /\ tpc' \in {"fini", "export"} /\ tpc \in {"signalStop", "fini"}
    BY <1>0, <1>10, Fetched, Zenon DEF FetchesItself, Moves
  <2>2. /\ etf = 0 => etf' = 0
        /\ Accounted => Accounted'
    BY <1>0, <2>1, Moved, Zenon DEF MoveKeeps
  <2>3. Kept' => Kept
    BY <2>1, Zenon DEF Kept
  <2>4. QED
    BY <2>1, <2>2, <2>3, Zenon DEF Whole, decoding_on
<1>11. CASE FiniExports
  BY <1>11, Zenon DEF FiniExports, Kept, Whole
<1>12. QED
  BY <1>1, <1>2, <1>3, <1>5, <1>6, <1>7, <1>8, <1>9, <1>10, <1>11, Zenon
     DEF Next, ParentStep, ProgramRuns

\* The export writes the trace, and the file stays as it is.
LEMMA FileStep == CsInv /\ [Next]_vars => FileIsTrace'
<1> SUFFICES ASSUME CsInv, [Next]_vars, tpc' = "done"
             PROVE  /\ file' \subseteq Ran'
                    /\ started' /\ flushed' => file' = Ran' \ (lost' \cup unread')
                    /\ \A c \in lost' : c[2] + EtrSize <= emitted'
  BY Zenon DEF FileIsTrace, Ran
<1> USE DEF vars, coreVars, frontVars, dataVars, lossVars, childVars, At
<1>0. file' \subseteq Ran' /\ \A c \in lost' : c[2] + EtrSize <= emitted'
  BY OwnStep, Zenon DEF Own, Placed
<1>1. CASE FiniExports
  <2>1. /\ tpc = "export" /\ file' = bitmap \cup buf
        /\ UNCHANGED <<child, emitted, started, flushed, lost, unread>>
    BY <1>1, Zenon DEF FiniExports
  <2>2. Ran' = Ran /\ emitted \in Nat
    BY <2>1, Zenon DEF Ran, CsInv, Own, Placed
  <2>3. ASSUME started, flushed PROVE bitmap \cup buf = Ran \ (lost \cup unread)
    <3>1. Kept
      BY <2>1, <2>3, Zenon DEF Kept
    <3>2. etf = 0 /\ Accounted
      BY <2>3, <3>1, Zenon DEF CsInv, Whole
    <3>3. emitted - 0 = emitted
      BY <2>2
    <3>4. Arrived = Ran
      BY <3>2, <3>3, Zenon DEF Arrived, Ran
    <3>5. etr \subseteq unread
      <4>1. CASE decoding_on
        BY <2>1, <2>3, <4>1, Zenon DEF CsInv, Decoder, Whole
      <4>2. CASE ~decoding_on
        BY <2>1, <2>3, <4>2, Zenon DEF CsInv, Whole
      <4>3. QED
        BY <4>1, <4>2, Zenon
    <3>6. /\ bitmap \cup buf \subseteq Arrived
          /\ (buf \cup bitmap) \cap (lost \cup unread) = {}
      BY Zenon DEF CsInv, Own, Placed
    <3>7. QED
      BY <3>2, <3>4, <3>5, <3>6, Zenon DEF Accounted
  <2>4. QED
    BY <1>0, <2>1, <2>2, <2>3, Zenon
<1>2. CASE tpc = "done"
  <2>1. cstate = "reaped"
    BY <1>2, Zenon DEF CsInv, Course, After
  <2>4. started /\ flushed => UNCHANGED <<lost, unread>>
    <3> SUFFICES ASSUME started, flushed PROVE UNCHANGED <<lost, unread>>
      BY Zenon
    <3>1. CASE DecoderStep /\ UNCHANGED frontVars
      <4>1. dpc # "none"
        BY <2>1, <3>1, DecoderEffect, Zenon
      <4>2. dpc \in {"waitStart", "done"}
        BY <1>2, <4>1, Zenon DEF CsInv, Decoder, decoding_on
      <4>3. decoder_worker
        BY <3>1, <4>2, Zenon DEF DecoderStep, DecoderAt, PollingBegins, ReadInitPos, Poll,
           SuspendChild, WaitSuspend, DrainDisables, DrainFetches, DrainEnables,
           ContinueChild, DrainDecodes, WaitStop, LastFetch, LastDecode, PollingEnds
      <4>4. QED
        BY <4>3, Zenon DEF decoder_worker
    <3>2. CASE EtfDrains
      <4>1. etf = 0 /\ etf > 0
        BY <3>2, Zenon DEF CsInv, Whole, EtfDrains
      <4>2. QED
        BY <4>1
    <3>3. CASE \/ ChildRuns \/ ProgramTraps \/ ProgramEnds \/ UNCHANGED vars
      BY <3>3, Zenon DEF ChildRuns, ProgramTraps, ProgramEnds
    <3>4. ~ParentStep
      BY <1>2, Zenon DEF ParentStep, WaitForSigstop, StartTrace, ContinueProgram, WaitForProgram,
         StopDisables, StopSignals, StopWaits, FetchesItself, FiniSignals, FiniJoins, FiniExports
    <3>5. QED
      BY <3>1, <3>2, <3>3, <3>4, Zenon DEF Next, ProgramRuns
  <2>2. UNCHANGED <<child, emitted, started, flushed, file>>
    <3>1. CASE DecoderStep /\ UNCHANGED frontVars
      BY <2>1, <3>1, DecoderEffect, Zenon
    <3>2. CASE ProgramRuns \/ ProgramTraps \/ ProgramEnds \/ UNCHANGED vars
      BY <2>1, <3>2, Zenon DEF ProgramRuns, ProgramTraps, ProgramEnds, ChildRuns, EtfDrains
    <3>3. ~ParentStep
      BY <1>2, Zenon DEF ParentStep, WaitForSigstop, StartTrace, ContinueProgram, WaitForProgram,
         StopDisables, StopSignals, StopWaits, FetchesItself, FiniSignals, FiniJoins, FiniExports
    <3>4. QED
      BY <3>1, <3>2, <3>3, Zenon DEF Next
  <2>3. QED
    BY <1>0, <1>2, <2>2, <2>4, Zenon DEF CsInv, FileIsTrace, Ran
<1>3. tpc = "done" \/ FiniExports
  <2>1. CASE ParentStep
    BY <2>1, Zenon DEF ParentStep, WaitForSigstop, StartTrace, ContinueProgram, WaitForProgram,
       StopDisables, StopSignals, StopWaits, FetchesItself, FiniSignals, FiniJoins
  <2>2. CASE ~ParentStep
    <3>1. tpc' = tpc
      BY <2>2, Zenon DEF Next, ProgramRuns, ProgramTraps, ProgramEnds
    <3>2. QED
      BY <3>1, Zenon
  <2>3. QED
    BY <2>1, <2>2, Zenon
<1>4. QED
  BY <1>1, <1>2, <1>3, Zenon

-----------------------------------------------------------------------------
(* The theorems                                                            *)

\* parent() and the decoder thread of cs-trace: a drain begins only in a program
\* that stays stopped for good, and until the export every chunk of a started
\* trace that has left the ETF is in the ETR, in trace_buf or decoded, or it was
\* overwritten in the ETR or not obtained by a failing fetch.
THEOREM CsInvariant == Spec => []CsInv
<1>1. Init => CsInv
  <2> SUFFICES ASSUME Init PROVE CsInv
    BY Zenon
  <2> USE DEF Init, CoreInit, decoding_on
  <2>1. Course /\ Events /\ FileIsTrace
    BY Zenon DEF Course, Events, FileIsTrace, Before, After
  <2>2. Decoder
    <3>1. decoding_on => ~decoder_ready
      BY Zenon
    <3>2. dpc \in {"waitStart", "none"} /\ ~flushed
      BY Zenon
    <3>3. QED
      BY <3>1, <3>2, Zenon DEF Decoder, Draining
  <2>3. Own
    <3>1. /\ etf = 0 /\ emitted = 0 /\ etr = {} /\ buf = {} /\ bitmap = {} /\ file = {}
          /\ lost = {} /\ unread = {}
      BY Zenon
    <3> HIDE DEF Init
    <3>2. etf \in Nat /\ emitted \in Nat /\ etf <= emitted
      BY <3>1
    <3>3. QED
      BY <3>1, <3>2, Zenon DEF Own, Placed
  <2>4. Whole
    BY Zenon DEF Whole, Kept
  <2>5. QED
    BY <2>1, <2>2, <2>3, <2>4, Zenon DEF CsInv
<1>2. CsInv /\ [Next]_vars => CsInv'
  BY CourseStep, EventsStep, DecoderInv, OwnStep, WholeStep, FileStep, Zenon DEF CsInv
<1>3. QED
  BY <1>1, <1>2, PTL DEF Spec

\* The file fini_trace() exports is the trace of the program, for every program,
\* ETR, drain threshold and set of calls that may fail: without a failing fetch all
\* of it, if it fits the ETR, and else all but its beginning.
THEOREM ExportIsTrace == Spec => []FileIsTrace
<1>1. CsInv => FileIsTrace
  BY Zenon DEF CsInv
<1>2. QED
  BY <1>1, CsInvariant, PTL
=============================================================================
