--------------------------- MODULE ProxyLifeProofs ---------------------------
(***************************************************************************)
(* Proofs about ProxyLife: what is in the status pipe and who holds it,    *)
(* whoever dies and whenever; the CPU that init_trace() chooses, on every  *)
(* machine; and the ranges it records, for every list of mappings.         *)
(***************************************************************************)
EXTENDS ProxyLife, FiniteSetTheorems, WellFoundedInduction, TLAPS

-----------------------------------------------------------------------------
(* Who holds the status pipe, and what is in it                            *)

\* The forkserver holds the write end while it lives; its child does until it is
\* continued for the first time.
PipeHeld ==
  /\ writers \subseteq {"forkserver", "child"}
  /\ ppc \in {"main", "shm", "spawn"} => fpc = "none"
  /\ fpc \in {"none", "exec"} => cst = "none"
  /\ fpc = "none" => writers = {}
  /\ fpc \notin {"none", "dead"} => "forkserver" \in writers
  /\ "child" \in writers => cst \in {"forked", "stopped", "orphan", "leaked"}
  /\ cst \in {"orphan", "leaked"} => fpc = "dead"

\* Once the forkserver is dead the status pipe has nobody left that could write to
\* it, and no child stays stopped that waits for a SIGCONT of the proxy's, save for
\* one that had not stopped yet.
NobodyStranded ==
  fpc = "dead" =>
    /\ "forkserver" \notin writers
    /\ "child" \in writers => cst \in {"orphan", "leaked"}
    /\ cst \notin Stopped \cup {"forked"}

\* The forkserver is back in its loop and has no child.
Idle == fpc = "loop" /\ ~ctl /\ cst = "none"
Watching == fpc = "watch" /\ ~ctl

\* The words in the status pipe for each place of the proxy: those of the run it
\* is in, and only those it has not read.
StartingUp == ppc \in {"main", "shm", "spawn"} /\ fpc = "none" /\ ~ctl /\ st = <<>>
AtHello ==
  /\ ppc = "hello"
  /\ \/ fpc = "exec" /\ ~ctl /\ st = <<>>
     \/ Idle /\ st = <<"hello">>
BetweenRuns == ppc \in {"request", "end"} /\ Idle /\ st = <<>>
AtReadPid ==
  /\ ppc = "readPid"
  /\ \/ fpc = "loop" /\ ctl /\ cst = "none" /\ st = <<>>
     \/ fpc = "fork" /\ ~ctl /\ cst = "none" /\ st = <<>>
     \/ fpc = "waitStop" /\ ~ctl /\ cst \in {"forked", "stopped", "zombie"} /\ st = <<>>
     \/ Watching /\ cst \in {"stopped", "zombie"} /\ st = <<"pid">>
     \/ Idle /\ st \in {<<"pid", "exit">>, <<"early">>}
AtInit ==
  /\ ppc \in {"init", "start"}
  /\ \/ Watching /\ cst \in {"stopped", "zombie"} /\ st = <<>>
     \/ Idle /\ st \in {<<>>, <<"exit">>}
AtStatus ==
  /\ ppc = "status"
  /\ \/ Watching /\ cst \in {"stopped", "running", "suspended", "zombie"} /\ st = <<>>
     \/ Watching /\ cst \in {"reported", "zombie"} /\ st = <<"stop">>
     \/ Idle /\ st \in {<<>>, <<"exit">>, <<"stop", "exit">>}

WordsInStep ==
  ppc # "dead" /\ fpc # "dead" =>
    StartingUp \/ AtHello \/ BetweenRuns \/ AtReadPid \/ AtInit \/ AtStatus

LifeInv == PipeHeld /\ NobodyStranded /\ WordsInStep

\* What is in the pipe after a second word.
LEMMA TwoWords == ASSUME NEW a, NEW b PROVE Append(<<a>>, b) = <<a, b>>
<1> DEFINE s == Append(<<a>>, b)
           t == <<a, b>>
<1>1. <<a>> \in Seq({a, b}) /\ Len(<<a>>) = 1 /\ <<a>>[1] = a
  OBVIOUS
<1>2. s \in Seq({a, b}) /\ Len(s) = 2 /\ s[1] = a /\ s[2] = b
  BY <1>1
<1>3. t \in Seq({a, b}) /\ Len(t) = 2 /\ t[1] = a /\ t[2] = b
  OBVIOUS
<1>4. \A i \in 1..2 : i = 1 \/ i = 2
  OBVIOUS
<1> HIDE DEF s, t
<1>5. s = [i \in 1..2 |-> s[i]] /\ t = [i \in 1..2 |-> t[i]]
  BY <1>2, <1>3
<1>6. \A i \in 1..2 : s[i] = t[i]
  BY <1>2, <1>3, <1>4
<1>7. s = t
  BY <1>5, <1>6, Zenon
<1>8. QED
  BY <1>7 DEF s, t

\* The few sequences that occur.
LEMMA FewWords ==
  /\ \A w \in {"hello", "pid", "stop", "exit", "early"} :
       /\ Append(<<>>, w) = <<w>> /\ <<w>> # <<>>
       /\ Head(<<w>>) = w /\ Tail(<<w>>) = <<>>
  /\ \A w \in {"pid", "stop"} :
       /\ Append(<<w>>, "exit") = <<w, "exit">> /\ <<w, "exit">> # <<>>
       /\ Head(<<w, "exit">>) = w /\ Tail(<<w, "exit">>) = <<"exit">>
<1>1. \A a : /\ Append(<<>>, a) = <<a>> /\ <<a>> # <<>>
             /\ Head(<<a>>) = a /\ Tail(<<a>>) = <<>>
  OBVIOUS
<1>2. \A a, b : <<a, b>> # <<>> /\ Head(<<a, b>>) = a /\ Tail(<<a, b>>) = <<b>>
  OBVIOUS
<1>3. QED
  BY <1>1, <1>2, TwoWords, Zenon

\* Every step keeps the ends of the pipe in the right hands.
LEMMA PipeHeldStep == LifeInv /\ [Next]_vars => PipeHeld' /\ NobodyStranded'
<1> SUFFICES ASSUME PipeHeld, NobodyStranded, WordsInStep, [Next]_vars
             PROVE  PipeHeld' /\ NobodyStranded'
  BY Zenon DEF LifeInv
<1> USE DEF PipeHeld, NobodyStranded
<1>1. CASE AflRequests
  BY <1>1 DEF AflRequests, TellAfl
<1>2. CASE AflGoes
  BY <1>2 DEF AflGoes
<1>3. CASE CheckArguments
  BY <1>3 DEF CheckArguments, ProxyAt
<1>4. CASE __afl_map_shm
  BY <1>4 DEF __afl_map_shm, ProxyAt, TellAfl
<1>5. CASE SpawnForkserver
  BY <1>5, Zenon DEF SpawnForkserver, ProxyAt
<1>6. CASE PhoneHome
  BY <1>6 DEF PhoneHome, ProxyAt, TellAfl, EndOfFile
<1>7. CASE ReadRequest
  BY <1>7 DEF ReadRequest, ProxyAt, ControlIsRead
<1>8. CASE ReadPid
  BY <1>8 DEF ReadPid, ProxyAt, EndOfFile
<1>9. CASE init_trace
  BY <1>9 DEF init_trace, ProxyAt
<1>10. CASE start_and_resume
  BY <1>10, Zenon DEF start_and_resume, ProxyAt, TellAfl, Continued, Stopped
<1>11. CASE ReadStatus
  <2>1. cst' # cst => fpc = "watch" /\ cst = "reported" /\ cst' = "running"
    <3>1. ASSUME cst' # cst
          PROVE  /\ ppc = "status" /\ st # <<>> /\ Head(st) = "stop"
                 /\ cst \in Stopped /\ cst' = "running"
      BY <1>11, <3>1, Zenon DEF ReadStatus, Continued
    <3>2. ASSUME cst' # cst PROVE fpc # "dead"
      BY <3>1, <3>2, Zenon
    <3>3. ASSUME cst' # cst PROVE fpc = "watch" /\ cst = "reported"
      BY <3>1, <3>2, <3>3, FewWords
      DEF WordsInStep, StartingUp, AtHello, BetweenRuns, AtReadPid, AtInit, AtStatus, Idle,
          Watching, Stopped
    <3>4. QED
      BY <3>1, <3>3, Zenon
  <2>2. fpc' = fpc /\ writers' = writers /\ ppc' \in {ppc, "end", "dead"} /\ ppc = "status"
    BY <1>11, Zenon DEF ReadStatus
  <2>3. QED
    BY <2>1, <2>2 DEF Stopped
<1>12. CASE __afl_end_testcase
  BY <1>12 DEF __afl_end_testcase, ProxyAt, TellAfl
<1>13. CASE ProxyKilled
  BY <1>13 DEF ProxyKilled
<1>14. CASE StartTarget
  BY <1>14, Zenon DEF StartTarget, Relay, ForkserverDies, Bereaved, Continued, Stopped
<1>15. CASE ReadControl
  BY <1>15, Zenon DEF ReadControl, ForkserverDies, Bereaved, Continued, Stopped
<1>16. CASE ForkChild
  BY <1>16, Zenon DEF ForkChild, ForkserverDies, Bereaved, Continued, Stopped
<1>17. CASE AwaitStop
  BY <1>17, Zenon DEF AwaitStop, Relay, ForkserverDies, Bereaved, Continued, Stopped
<1>18. CASE RelayStatus
  BY <1>18, Zenon DEF RelayStatus, Relay, ForkserverDies, Bereaved, Continued, Stopped
<1>19. CASE TermForkserver
  BY <1>19 DEF TermForkserver, ForkserverDies, Bereaved, Continued, Stopped
<1>20. CASE ForkserverKilled
  BY <1>20 DEF ForkserverKilled, ForkserverDies, Bereaved, Continued, Stopped
<1>21. CASE ChildStops
  BY <1>21 DEF ChildStops, Stopped
<1>22. CASE ChildSuspended
  BY <1>22 DEF ChildSuspended, Stopped
<1>23. CASE ChildDies
  BY <1>23 DEF ChildDies, Stopped
<1>24. CASE UNCHANGED vars
  BY <1>24 DEF vars
<1>25. QED
  BY <1>1, <1>2, <1>3, <1>4, <1>5, <1>6, <1>7, <1>8, <1>9, <1>10, <1>11, <1>12,
     <1>13, <1>14, <1>15, <1>16, <1>17, <1>18, <1>19, <1>20, <1>21, <1>22, <1>23, <1>24, Zenon
  DEF Next, ProxyStep, ForkserverStep

\* Every step leaves the words that the proxy expects.
LEMMA WordsStep == LifeInv /\ [Next]_vars => WordsInStep'
<1> SUFFICES ASSUME PipeHeld, NobodyStranded, WordsInStep, [Next]_vars PROVE WordsInStep'
  BY Zenon DEF LifeInv
<1> USE DEF WordsInStep, StartingUp, AtHello, BetweenRuns, AtReadPid, AtInit, AtStatus, Idle,
           Watching
<1>1. CASE AflRequests
  BY <1>1 DEF AflRequests
<1>2. CASE AflGoes
  BY <1>2 DEF AflGoes
<1>3. CASE CheckArguments
  BY <1>3 DEF CheckArguments, ProxyAt
<1>4. CASE __afl_map_shm
  BY <1>4 DEF __afl_map_shm, ProxyAt
<1>5. CASE SpawnForkserver
  BY <1>5 DEF SpawnForkserver, ProxyAt, PipeHeld
<1>6. CASE PhoneHome
  BY <1>6, FewWords, Zenon DEF PhoneHome, ProxyAt, EndOfFile
<1>7. CASE ReadRequest
  BY <1>7 DEF ReadRequest, ProxyAt, ControlIsRead
<1>8. CASE ReadPid
  BY <1>8, FewWords, Zenon DEF ReadPid, ProxyAt, EndOfFile, PipeHeld
<1>9. CASE init_trace
  BY <1>9 DEF init_trace, ProxyAt
<1>10. CASE start_and_resume
  BY <1>10 DEF start_and_resume, ProxyAt, Continued, Stopped
<1>11. CASE ReadStatus
  BY <1>11, FewWords, Zenon DEF ReadStatus, EndOfFile, Continued, Stopped
<1>12. CASE __afl_end_testcase
  BY <1>12 DEF __afl_end_testcase, ProxyAt
<1>13. CASE ProxyKilled
  BY <1>13 DEF ProxyKilled
<1>14. CASE StartTarget
  BY <1>14, FewWords DEF StartTarget, Relay, ForkserverDies, PipeHeld
<1>15. CASE ReadControl
  BY <1>15 DEF ReadControl, ForkserverDies
<1>16. CASE ForkChild
  BY <1>16 DEF ForkChild, ForkserverDies
<1>17. CASE AwaitStop
  BY <1>17, FewWords DEF AwaitStop, Relay, ForkserverDies
<1>18. CASE RelayStatus
  BY <1>18, FewWords, Zenon DEF RelayStatus, Relay, ForkserverDies
<1>19. CASE TermForkserver
  BY <1>19 DEF TermForkserver, ForkserverDies
<1>20. CASE ForkserverKilled
  BY <1>20 DEF ForkserverKilled, ForkserverDies
<1>21. CASE ChildStops
  BY <1>21 DEF ChildStops
<1>22. CASE ChildSuspended
  BY <1>22 DEF ChildSuspended
<1>23. CASE ChildDies
  BY <1>23 DEF ChildDies
<1>24. CASE UNCHANGED vars
  BY <1>24 DEF vars
<1>25. QED
  BY <1>1, <1>2, <1>3, <1>4, <1>5, <1>6, <1>7, <1>8, <1>9, <1>10, <1>11, <1>12,
     <1>13, <1>14, <1>15, <1>16, <1>17, <1>18, <1>19, <1>20, <1>21, <1>22, <1>23, <1>24, Zenon
  DEF Next, ProxyStep, ForkserverStep

\* All of it, in every state.
LEMMA LifeInvariant == Spec => []LifeInv
<1>1. Init => LifeInv
  BY DEF Init, LifeInv, PipeHeld, NobodyStranded, WordsInStep, StartingUp
<1>2. LifeInv /\ [Next]_vars => LifeInv'
  BY PipeHeldStep, WordsStep, Zenon DEF LifeInv
<1>3. QED
  BY <1>1, <1>2, PTL DEF Spec

\* The safety half of ForkserverDeathEnds and ProxyDeathEnds: when the forkserver is
\* gone, wherever the others were, the proxy's next read finds a word or the end of
\* the pipe, and the child has been continued; but for a child that had not stopped.
THEOREM DeathStrandsNobody == Spec => []NobodyStranded
<1>1. LifeInv => NobodyStranded
  BY Zenon DEF LifeInv
<1>2. QED
  BY <1>1, LifeInvariant, PTL

\* When the proxy takes a request, the last run has left nothing behind: no word in
\* the status pipe, no request in the other, no child; and the word it then takes
\* for the pid is never the status of an earlier run.
RunsApart ==
  fpc # "dead" =>
    /\ ppc = "request" => fpc = "loop" /\ cst = "none" /\ ~ctl /\ st = <<>>
    /\ ppc = "readPid" /\ st # <<>> => Head(st) \in {"pid", "early"}

\* However a run ends (a failed init_trace(), a child killed before it is traced or
\* in the middle of a drain), the words of two runs never mix.
THEOREM RunsStayApart == Spec => []RunsApart
<1>1. LifeInv => RunsApart
  <2> SUFFICES ASSUME WordsInStep PROVE RunsApart
    BY Zenon DEF LifeInv
  <2> USE DEF WordsInStep, StartingUp, AtHello, BetweenRuns, AtReadPid, AtInit, AtStatus, Idle
  <2>1. ASSUME fpc # "dead", ppc = "request"
        PROVE  fpc = "loop" /\ cst = "none" /\ ~ctl /\ st = <<>>
    BY <2>1
  <2>2. ASSUME fpc # "dead", ppc = "readPid", st # <<>> PROVE Head(st) \in {"pid", "early"}
    <3>1. st \in {<<"pid">>, <<"pid", "exit">>, <<"early">>}
      BY <2>2
    <3>2. QED
      BY <3>1, FewWords, Zenon
  <2>3. QED
    BY <2>1, <2>2, Zenon DEF RunsApart
<1>2. QED
  BY <1>1, LifeInvariant, PTL

-----------------------------------------------------------------------------
(* The CPU to trace on                                                     *)

\* A set of numbers has a least one.
LEMMA Least ==
  ASSUME NEW S \in SUBSET Nat, S # {}
  PROVE  \E x \in S : \A y \in S : x <= y
<1> DEFINE R == {ss \in Nat \X Nat : ss[1] < ss[2]}
<1>1. OpToRel(<, Nat) = R
  BY Zenon DEF OpToRel
<1>2. IsWellFoundedOn(R, Nat)
  BY <1>1, NatLessThanWellFounded, Zenon
<1>3. PICK x \in S : \A y \in S : ~(<<y, x>> \in R)
  <2> HIDE DEF R
  <2>1. QED
    BY <1>2, WFMin, Zenon
<1>4. ASSUME NEW y \in S PROVE x <= y
  <2>1. <<y, x>> \in Nat \X Nat /\ <<y, x>>[1] = y /\ <<y, x>>[2] = x
    BY Zenon
  <2>2. y < x => <<y, x>> \in R
    BY <2>1, Zenon
  <2>3. QED
    BY <1>3, <2>2
<1>5. QED
  BY <1>4, Zenon

\* A set of CPUs has a lowest one.
LEMMA Lowest ==
  ASSUME NEW S \in SUBSET Nat, S # {}
  PROVE  Min(S) \in S
BY Least, Zenon DEF Min

\* find_free_cpu() finds a CPU on a machine that has only one.
LEMMA FreeCpu ==
  ASSUME NEW n \in Nat \ {0}, NEW pinned
  PROVE  find_free_cpu(n, pinned) < 0 => n >= 2
<1>1. CASE n < 2
  <2>1. find_free_cpu(n, pinned) = 0
    BY <1>1, Zenon DEF find_free_cpu
  <2>2. QED
    BY <2>1
<1>2. CASE ~(n < 2)
  BY <1>2
<1>3. QED
  BY <1>1, <1>2, Zenon

\* get_preferred_cpu() returns the lowest CPU outside the groups, or none.
LEMMA PreferredCpu ==
  ASSUME NEW n \in Nat \ {0}, NEW core \in [0..n-1 -> 0..n-1], NEW affinity, NEW listed \in BOOLEAN
  PROVE  LET others == 0..n-1 \ UNION {set_core_cpus(core, c) : c \in affinity}
             cpu    == get_preferred_cpu(listed, affinity, core)
         IN  \/ cpu = -1 /\ (~listed \/ others = {})
             \/ cpu \in others /\ listed
<1> DEFINE groups == UNION {set_core_cpus(core, c) : c \in affinity}
           others == 0..n-1 \ groups
<1>1. get_preferred_cpu(listed, affinity, core) =
        IF ~listed \/ others = {} THEN -1 ELSE Min(others)
  BY Zenon DEF get_preferred_cpu, None
<1>2. others \in SUBSET Nat
  OBVIOUS
<1> HIDE DEF others
<1>3. others # {} => Min(others) \in others
  BY <1>2, Lowest, Zenon
<1>4. QED
  BY <1>1, <1>3, Zenon DEF others

\* The CPU to trace on is online, on every machine.
LEMMA CpuOnline == CpuIsOnline
<1> SUFFICES ASSUME NEW n \in 1..MaxCpus, NEW core \in [0..n-1 -> 0..n-1],
                    NEW affinity \in (SUBSET (0..n-1)) \ {{}}, NEW pinned \in SUBSET (0..n-1),
                    NEW listed \in BOOLEAN
             PROVE  TraceCpu(listed, affinity, core, pinned) \in 0..n-1
  BY Zenon DEF CpuIsOnline
<1> DEFINE cpu       == TraceCpu(listed, affinity, core, pinned)
           preferred == get_preferred_cpu(listed, affinity, core)
           nprocs    == Cardinality(DOMAIN core)
           compared  == IF find_free_cpu(nprocs, pinned) < 0 THEN 1 ELSE 0
<1>1. n \in Nat \ {0} /\ 0 \in Int /\ n - 1 \in Int
  BY InitTraceAssumption
<1>2. nprocs = n
  <2>1. DOMAIN core = 0..n-1
    BY Zenon
  <2>2. Cardinality(0..n-1) = IF 0 > n - 1 THEN 0 ELSE n - 1 - 0 + 1
    BY <1>1, FS_Interval, Zenon
  <2>3. QED
    BY <1>1, <2>1, <2>2
<1>3. compared \in 0..n-1
  BY <1>1, <1>2, FreeCpu
<1>4. preferred = -1 \/ preferred \in 0..n-1
  BY <1>1, PreferredCpu, Zenon
<1>5. cpu = LET chosen == IF preferred < 0 THEN compared ELSE preferred
            IN  IF chosen >= 0 THEN chosen ELSE 0
  BY Zenon DEF TraceCpu, DEFAULT_TRACE_CPU
<1> HIDE DEF cpu, preferred, compared, nprocs
<1>6. CASE preferred = -1
  <2>1. cpu = compared
    BY <1>3, <1>5, <1>6
  <2>2. QED
    BY <1>3, <2>1, Zenon DEF cpu
<1>7. CASE preferred \in 0..n-1
  <2>1. cpu = preferred
    BY <1>5, <1>7
  <2>2. QED
    BY <1>7, <2>1, Zenon DEF cpu
<1>8. QED
  BY <1>4, <1>6, <1>7, Zenon

\* Whatever CPUs the machine has, how they share cores, where the forkserver is
\* pinned and which CPUs are taken, init_trace() traces on an online CPU.
THEOREM TracesOnline == Spec => []TraceCpuOnline
<1>1. TraceCpuOnline
  BY CpuOnline, Zenon DEF TraceCpuOnline
<1>2. QED
  BY <1>1, PTL

-----------------------------------------------------------------------------
(* The ranges.                                                             *)

\* g[n] is map_info after n turns of the loop, for N turns.
Turns(lines, N, g) ==
  g = [n \in 0..N |-> IF n = 0 THEN <<>> ELSE Record(g[n-1], lines[n])]

\* However many lines there are, the loop goes through them.
LEMMA LoopRuns ==
  ASSUME NEW lines, NEW N \in Nat
  PROVE  \E g : Turns(lines, N, g)
<1> DEFINE bad == {m \in Nat : ~\E g : Turns(lines, m, g)}
<1>1. ASSUME bad # {} PROVE FALSE
  <2>1. bad \in SUBSET Nat
    BY Zenon
  <2>2. PICK m \in bad : \A y \in bad : m <= y
    <3> HIDE DEF bad
    <3>1. QED
      BY <1>1, <2>1, Least, Zenon
  <2>3. m \in Nat /\ ~\E g : Turns(lines, m, g)
    BY Zenon
  <2>4. CASE m = 0
    <3>1. Turns(lines, 0, [n \in 0..0 |-> <<>>])
      BY DEF Turns
    <3>2. QED
      BY <2>3, <2>4, <3>1, Zenon
  <2>5. CASE m # 0
    <3>1. m - 1 \in Nat /\ ~(m <= m - 1)
      BY <2>3, <2>5
    <3>2. PICK g : Turns(lines, m - 1, g)
      BY <2>2, <3>1, Zenon
    <3> DEFINE h == [n \in 0..m |-> IF n = m THEN Record(g[m-1], lines[m]) ELSE g[n]]
    <3>3. ASSUME NEW n \in 0..m
          PROVE  h[n] = IF n = 0 THEN <<>> ELSE Record(h[n-1], lines[n])
      <4>1. CASE n = m
        BY <2>3, <2>5, <4>1
      <4>2. CASE n # m
        <5>1. n \in 0..m-1 /\ (n # 0 => n - 1 \in 0..m /\ n - 1 # m)
          BY <2>3, <4>2
        <5>2. g[n] = IF n = 0 THEN <<>> ELSE Record(g[n-1], lines[n])
          BY <3>2, <5>1 DEF Turns
        <5>3. h[n] = g[n] /\ (n # 0 => h[n-1] = g[n-1])
          BY <4>2, <5>1, Zenon
        <5>4. QED
          BY <5>2, <5>3, Zenon
      <4>3. QED
        BY <4>1, <4>2, Zenon
    <3>4. Turns(lines, m, h)
      <4>1. h = [n \in 0..m |-> h[n]]
        OBVIOUS
      <4> HIDE DEF h
      <4>2. QED
        BY <3>3, <4>1, Zenon DEF Turns
    <3>5. QED
      BY <2>3, <3>4, Zenon
  <2>6. QED
    BY <2>4, <2>5, Zenon
<1>2. QED
  BY <1>1, Zenon

\* setup_map_info() returns map_info after the last line.
LEMMA LoopEnds ==
  ASSUME NEW lines, Len(lines) \in Nat
  PROVE  \E g : Turns(lines, Len(lines), g) /\ setup_map_info(lines) = g[Len(lines)]
<1> DEFINE g == CHOOSE g : Turns(lines, Len(lines), g)
<1>1. Turns(lines, Len(lines), g)
  BY LoopRuns, Zenon
<1>2. setup_map_info(lines) = g[Len(lines)]
  BY Zenon DEF setup_map_info, Turns
<1>3. QED
  BY <1>1, <1>2, Zenon

\* A line that is recorded gets the next slot.
LEMMA RecordedLine ==
  ASSUME NEW lines, NEW n \in Nat, NEW m, Len(m) \in Nat, Len(m) < RANGE_MAX,
         NEW f \in [1..Len(m) -> Code(lines, n)], InSlots(lines, n, m, f),
         n + 1 \in Code(lines, n + 1),
         Len(m) = RANGE_MAX - 1 => lines[n+1].path = "lib",
         NEW t, Len(t) = Len(m) + 1, t[Len(m) + 1] = lines[n+1],
         \A k \in 1..Len(m) : t[k] = m[k]
  PROVE  FirstMappings(lines, n + 1, t)
<1> DEFINE L == Len(m)
           g == [k \in 1..L+1 |-> IF k = L + 1 THEN n + 1 ELSE f[k]]
<1>0. L \in Nat /\ RANGE_MAX \in Nat /\ Len(t) = L + 1 /\ L < RANGE_MAX
  BY InitTraceAssumption
<1>1. Code(lines, n + 1) = Code(lines, n) \cup {n + 1} /\ Code(lines, n) \subseteq 1..n
  BY DEF Code
<1>2. \A k \in 1..L : f[k] \in Code(lines, n) /\ f[k] \in 1..n
  BY <1>1, Zenon
<1>3. g[L + 1] = n + 1 /\ \A k \in 1..L : g[k] = f[k]
  BY <1>0
<1>4. g \in [1..Len(t) -> Code(lines, n + 1)]
  BY <1>0, <1>1, <1>2, SMTT(20)
<1> HIDE DEF g
<1>5. \A k \in 1..Len(t) : k = L + 1 \/ k \in 1..L
  BY <1>0
<1>6. \A k \in 1..Len(t) : t[k] = lines[g[k]]
  BY <1>3, <1>5, Zenon DEF InSlots
<1>7. \A j, k \in 1..Len(t) : j < k => g[j] < g[k]
  <2> SUFFICES ASSUME NEW j \in 1..Len(t), NEW k \in 1..Len(t), j < k PROVE g[j] < g[k]
    BY Zenon
  <2>1. j \in 1..L
    BY <1>0
  <2>2. CASE k = L + 1
    BY <1>2, <1>3, <2>1, <2>2, SMTT(20)
  <2>3. CASE k \in 1..L
    BY <1>3, <2>1, <2>3, Zenon DEF InSlots
  <2>4. QED
    BY <1>5, <2>2, <2>3, Zenon
<1>8. Len(t) = RANGE_MAX => lines[g[RANGE_MAX]].path = "lib"
  <2>1. Len(t) = RANGE_MAX => RANGE_MAX = L + 1 /\ L = RANGE_MAX - 1
    BY <1>0
  <2>2. QED
    BY <1>3, <2>1, Zenon
<1>9. ASSUME NEW i \in Code(lines, n + 1)
      PROVE  \/ \E k \in 1..Len(t) : g[k] = i
             \/ /\ RANGE_MAX - 1 <= Len(t)
                /\ \A k \in 1..RANGE_MAX-1 : g[k] < i
                /\ lines[i].path = "lib" => Len(t) = RANGE_MAX /\ g[RANGE_MAX] < i
  <2>1. CASE i = n + 1
    <3>1. L + 1 \in 1..Len(t)
      BY <1>0
    <3>2. QED
      BY <1>3, <2>1, <3>1, Zenon
  <2>2. CASE \E k \in 1..L : f[k] = i
    <3>1. \A k \in 1..L : k \in 1..Len(t)
      BY <1>0
    <3>2. QED
      BY <1>3, <2>2, <3>1, Zenon
  <2>3. CASE i # n + 1 /\ ~\E k \in 1..L : f[k] = i
    <3>1. i \in Code(lines, n)
      BY <1>1, <2>3, Zenon
    <3>2. /\ RANGE_MAX - 1 <= L
          /\ \A k \in 1..RANGE_MAX-1 : f[k] < i
          /\ lines[i].path = "lib" => L = RANGE_MAX
      BY <2>3, <3>1, Zenon DEF InSlots
    <3>3. L # RANGE_MAX /\ RANGE_MAX - 1 <= Len(t) /\ \A k \in 1..RANGE_MAX-1 : k \in 1..L
      BY <1>0, <3>2
    <3>4. QED
      BY <1>3, <3>2, <3>3, Zenon
  <2>4. QED
    BY <2>1, <2>2, <2>3, Zenon
<1>10. InSlots(lines, n + 1, t, g)
  BY <1>6, <1>7, <1>8, <1>9, Zenon DEF InSlots
<1>11. Len(t) <= RANGE_MAX
  BY <1>0
<1>12. QED
  BY <1>4, <1>10, <1>11, Zenon DEF FirstMappings

\* A line that is not recorded is no mapping, or there is no slot for it.
LEMMA SkippedLine ==
  ASSUME NEW lines, NEW n \in Nat, NEW m, Len(m) \in Nat, Len(m) <= RANGE_MAX,
         NEW f \in [1..Len(m) -> Code(lines, n)], InSlots(lines, n, m, f),
         \/ n + 1 \notin Code(lines, n + 1)
         \/ Len(m) = RANGE_MAX
         \/ Len(m) = RANGE_MAX - 1 /\ lines[n+1].path # "lib"
  PROVE  FirstMappings(lines, n + 1, m)
<1> DEFINE L == Len(m)
<1>0. L \in Nat /\ RANGE_MAX \in Nat \ {0} /\ L <= RANGE_MAX
  BY InitTraceAssumption
<1>1. Code(lines, n + 1) \subseteq Code(lines, n) \cup {n + 1} /\ Code(lines, n) \subseteq 1..n
      /\ Code(lines, n) \subseteq Code(lines, n + 1)
  BY DEF Code
<1>2. \A k \in 1..L : f[k] \in Code(lines, n) /\ f[k] \in 1..n
  BY <1>1, Zenon
<1>3. f \in [1..L -> Code(lines, n + 1)]
  BY <1>1
<1>4. ASSUME NEW i \in Code(lines, n + 1)
      PROVE  \/ \E k \in 1..L : f[k] = i
             \/ /\ RANGE_MAX - 1 <= L
                /\ \A k \in 1..RANGE_MAX-1 : f[k] < i
                /\ lines[i].path = "lib" => L = RANGE_MAX /\ f[RANGE_MAX] < i
  <2>1. CASE i \in Code(lines, n)
    BY <2>1, Zenon DEF InSlots
  <2>2. CASE i \notin Code(lines, n)
    <3>1. i = n + 1
      BY <1>1, <2>2, Zenon
    <3>2. L = RANGE_MAX \/ (L = RANGE_MAX - 1 /\ lines[i].path # "lib")
      BY <3>1, Zenon
    <3>3. /\ RANGE_MAX - 1 <= L
          /\ \A k \in 1..RANGE_MAX-1 : k \in 1..L
          /\ L = RANGE_MAX => RANGE_MAX \in 1..L
      BY <1>0, <3>2
    <3>4. \A k \in 1..L : f[k] < i
      BY <1>2, <3>1
    <3>5. lines[i].path = "lib" => L = RANGE_MAX
      BY <3>2, Zenon
    <3>6. QED
      BY <3>3, <3>4, <3>5, Zenon
  <2>3. QED
    BY <2>1, <2>2, Zenon
<1>5. QED
  BY <1>0, <1>3, <1>4, Zenon DEF FirstMappings, InSlots

\* One turn of the loop keeps map_info the first mappings of the lines read.
LEMMA OneTurn ==
  ASSUME NEW lines, NEW n \in Nat, lines[n+1] \in MapLine, NEW m \in Seq(MapLine),
         FirstMappings(lines, n, m)
  PROVE  /\ Record(m, lines[n+1]) \in Seq(MapLine)
         /\ FirstMappings(lines, n + 1, Record(m, lines[n+1]))
<1> DEFINE line  == lines[n+1]
           taken == /\ line.x /\ Len(m) < RANGE_MAX
                    /\ Len(m) = RANGE_MAX - 1 => line.path = "lib"
                    /\ line.path # "none"
<1>1. Record(m, line) = IF taken THEN Append(m, line) ELSE m
  BY Zenon DEF Record
<1>2. Len(m) \in Nat /\ RANGE_MAX \in Nat /\ Len(m) <= RANGE_MAX
  BY InitTraceAssumption DEF FirstMappings
<1>3. PICK f \in [1..Len(m) -> Code(lines, n)] : InSlots(lines, n, m, f)
  BY Zenon DEF FirstMappings
<1>4. n + 1 \in Code(lines, n + 1) <=> line.x /\ line.path # "none"
  BY DEF Code
<1>5. CASE taken
  <2> DEFINE t == Append(m, line)
  <2>1. /\ t \in Seq(MapLine) /\ Len(t) = Len(m) + 1 /\ t[Len(m) + 1] = line
        /\ \A k \in 1..Len(m) : t[k] = m[k]
    OBVIOUS
  <2> HIDE DEF t
  <2>2. FirstMappings(lines, n + 1, t)
    BY <1>2, <1>3, <1>4, <1>5, <2>1, RecordedLine, Zenon
  <2>3. QED
    BY <1>1, <1>5, <2>1, <2>2, Zenon DEF t
<1>6. CASE ~taken
  <2>1. \/ ~(line.x /\ line.path # "none")
        \/ Len(m) = RANGE_MAX
        \/ Len(m) = RANGE_MAX - 1 /\ line.path # "lib"
    BY <1>2, <1>6
  <2>2. FirstMappings(lines, n + 1, m)
    BY <1>2, <1>3, <1>4, <2>1, SkippedLine, Zenon
  <2>3. QED
    BY <1>1, <1>6, <2>2, Zenon
<1>7. QED
  BY <1>5, <1>6, Zenon

\* Before the first line map_info is empty, as it should be.
LEMMA NoTurn == ASSUME NEW lines PROVE FirstMappings(lines, 0, <<>>)
<1>1. Len(<<>>) = 0 /\ RANGE_MAX \in Nat /\ RANGE_MAX # 0 /\ 1..0 = {} /\ Code(lines, 0) = {}
  BY InitTraceAssumption DEF Code
<1>2. [k \in 1..0 |-> 0] \in [1..Len(<<>>) -> Code(lines, 0)]
  BY <1>1
<1>3. InSlots(lines, 0, <<>>, [k \in 1..0 |-> 0])
  BY <1>1, Zenon DEF InSlots
<1>4. Len(<<>>) <= RANGE_MAX
  BY <1>1
<1>5. QED
  BY <1>2, <1>3, <1>4, Zenon DEF FirstMappings

\* After every turn of the loop map_info is the first mappings of the lines read.
LEMMA EveryTurn ==
  ASSUME NEW lines \in Seq(MapLine), NEW g, Turns(lines, Len(lines), g), NEW n \in 0..Len(lines)
  PROVE  g[n] \in Seq(MapLine) /\ FirstMappings(lines, n, g[n])
<1> DEFINE P(i) == g[i] \in Seq(MapLine) /\ FirstMappings(lines, i, g[i])
           bad  == {i \in 0..Len(lines) : ~P(i)}
<1>1. Len(lines) \in Nat
  OBVIOUS
<1>2. \A i \in 0..Len(lines) : g[i] = IF i = 0 THEN <<>> ELSE Record(g[i-1], lines[i])
  BY Zenon DEF Turns
<1>3. ASSUME bad # {} PROVE FALSE
  <2>1. bad \in SUBSET Nat
    BY <1>1
  <2>2. PICK i \in bad : \A y \in bad : i <= y
    <3> HIDE DEF bad
    <3>1. QED
      BY <1>3, <2>1, Least, Zenon
  <2>3. i \in 0..Len(lines) /\ ~P(i)
    BY Zenon
  <2>4. CASE i = 0
    <3>1. g[0] = <<>>
      BY <1>2, <2>3, <2>4, Zenon
    <3>2. <<>> \in Seq(MapLine)
      OBVIOUS
    <3>3. QED
      BY <2>3, <2>4, <3>1, <3>2, NoTurn, Zenon
  <2>5. CASE i # 0
    <3>1. i - 1 \in Nat /\ i - 1 \in 0..Len(lines) /\ ~(i <= i - 1) /\ (i - 1) + 1 = i /\ i \in 1..Len(lines)
      BY <1>1, <2>3, <2>5
    <3>2. P(i - 1)
      BY <2>2, <3>1, Zenon
    <3>3. lines[(i - 1) + 1] \in MapLine
      BY <3>1
    <3>4. g[i] = Record(g[i-1], lines[(i - 1) + 1])
      BY <1>2, <2>3, <2>5, <3>1, Zenon
    <3>5. QED
      BY <2>3, <3>1, <3>2, <3>3, <3>4, OneTurn, Zenon
  <2>6. QED
    BY <2>4, <2>5, Zenon
<1>4. QED
  BY <1>3, Zenon

\* setup_map_info() records the first mappings, and the library's, of every process.
LEMMA RangesFirst == RangesAreFirst
<1> SUFFICES ASSUME NEW lines \in BoundedSeq(MapLine, MaxLines)
             PROVE  FirstMappings(lines, Len(lines), setup_map_info(lines))
  BY Zenon DEF RangesAreFirst
<1>1. lines \in Seq(MapLine) /\ Len(lines) \in Nat
  <2>1. PICK n \in 0..MaxLines : lines \in [1..n -> MapLine]
    BY Zenon DEF BoundedSeq, SeqOf
  <2>2. QED
    BY <2>1, InitTraceAssumption
<1>2. PICK g : Turns(lines, Len(lines), g) /\ setup_map_info(lines) = g[Len(lines)]
  BY <1>1, LoopEnds, Zenon
<1>3. Len(lines) \in 0..Len(lines)
  BY <1>1, SMTT(20)
<1>4. QED
  BY <1>1, <1>2, <1>3, EveryTurn, Zenon

\* However many executable mappings the traced process has, and in whatever order,
\* map_info holds the first of them and the library that CS_TRACE_LIB names:
\* neither crowds out the other.
THEOREM RangesStayExact == Spec => []RangesExact
<1>1. RangesExact
  BY RangesFirst, Zenon DEF RangesExact
<1>2. QED
  BY <1>1, PTL
=============================================================================
