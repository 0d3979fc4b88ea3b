------------------------------- MODULE ProxyLife -------------------------------
(***************************************************************************)
(* The life of cs-proxy and of its forkserver: start-up, the words that    *)
(* pass between AFL++, the proxy (src/src/cs-proxy.c) and the forkserver   *)
(* (src/libforksrv/libforksrv.c), and what becomes of the processes when   *)
(* one of them is gone.  The loop is main()'s without                      *)
(* AFLCS_STALKER_DECODER (ProxyLoop has the other); start_trace() and      *)
(* stop_trace() return (TraceSession is about whether they do).            *)
(*                                                                         *)
(* A read from a pipe ends when a word is there or when nobody is left     *)
(* that holds the write end.  The forkserver's child holds the write end   *)
(* of the status pipe until it is continued for the first time.            *)
(***************************************************************************)
EXTENDS InitTrace

VARIABLES
  ppc,        \* where the proxy is, from "main" to "dead"
  first_run,  \* has init_trace() not succeeded yet?
  child_pid,  \* what was read as the pid: the child's, or a status ("zero": 0)
  fpc,        \* where the forkserver is: "none" before it is forked
  cst,        \* the child: "none" before the fork and once it is reaped
  ctl,        \* is a request in the control pipe?
  st,         \* the words in the status pipe
  writers,    \* who holds the write end of the status pipe
  afl,        \* what AFL++ read last, or "gone"
  req         \* is a request of AFL++ in its pipe?

vars == <<ppc, first_run, child_pid, fpc, cst, ctl, st, writers, afl, req>>

Init ==
  /\ ppc = "main" /\ first_run = TRUE /\ child_pid = "zero"
  /\ fpc = "none" /\ cst = "none"
  /\ ctl = FALSE /\ st = <<>> /\ writers = {}
  /\ afl = "nothing" /\ req = FALSE

ProxyAt(from, to) == ppc = from /\ ppc' = to
EndOfFile == st = <<>> /\ writers = {}

-----------------------------------------------------------------------------
(* AFL++, external.                                                        *)

AflRequests ==
  /\ afl \in {"hello", "status"} /\ ~req /\ ppc # "dead"
  /\ req' = TRUE /\ afl' = "asked"
  /\ UNCHANGED <<ppc, first_run, child_pid, fpc, cst, ctl, st, writers>>

AflGoes ==
  /\ afl # "gone" /\ afl' = "gone"
  /\ UNCHANGED <<ppc, first_run, child_pid, fpc, cst, ctl, st, writers, req>>

\* A write to AFL++ fails if it is gone.
TellAfl(word) == afl # "gone" /\ afl' = word

-----------------------------------------------------------------------------
(* The proxy.                                                              *)

\* main(): the checks before anything is said to AFL++.
CheckArguments ==
  /\ ProxyAt("main", "shm") \/ ProxyAt("main", "dead")
  /\ UNCHANGED <<first_run, child_pid, fpc, cst, ctl, st, writers, afl, req>>

\* An error is reported with send_forkserver_error() and the proxy exits.
__afl_map_shm ==
  /\ \/ ProxyAt("shm", "spawn") /\ UNCHANGED afl
     \/ ProxyAt("shm", "dead") /\ (TellAfl("error") \/ (afl = "gone" /\ UNCHANGED afl))
  /\ UNCHANGED <<first_run, child_pid, fpc, cst, ctl, st, writers, req>>

\* Mutant: the proxy does not close its copy of the write end.
SpawnKeepsPipe ==
  /\ ProxyAt("spawn", "hello") /\ fpc' = "exec" /\ writers' = {"forkserver", "proxy"}
  /\ UNCHANGED <<first_run, child_pid, cst, ctl, st, afl, req>>

\* __afl_start_forkserver(), up to its read.
SpawnForkserver ==
  /\ \/ ProxyAt("spawn", "hello") /\ fpc' = "exec" /\ writers' = {"forkserver"}
     \/ ProxyAt("spawn", "dead") /\ UNCHANGED <<fpc, writers>>
  /\ UNCHANGED <<first_run, child_pid, cst, ctl, st, afl, req>>

\* The rest of it: the forkserver's hello is passed on with the options set.
PhoneHome ==
  /\ \/ /\ st # <<>> /\ st' = Tail(st)
        /\ \/ ProxyAt("hello", "request") /\ TellAfl("hello")
           \/ ProxyAt("hello", "dead") /\ afl = "gone" /\ UNCHANGED afl
     \/ ProxyAt("hello", "dead") /\ EndOfFile /\ UNCHANGED <<st, afl>>
  /\ UNCHANGED <<first_run, child_pid, fpc, cst, ctl, writers, req>>

\* The child has the read end of the control pipe as long as the other end.
ControlIsRead == fpc # "dead" \/ "child" \in writers

\* __afl_next_testcase() returns a u32: after -1 as after the 1 of a failed read
\* main() goes on to wait for a status.
ReadRequest ==
  /\ \/ /\ req /\ req' = FALSE
        /\ \/ ProxyAt("request", "readPid") /\ ControlIsRead /\ ctl' = TRUE
           \/ ProxyAt("request", "status") /\ ~ControlIsRead /\ UNCHANGED ctl
     \/ ProxyAt("request", "status") /\ ~req /\ afl = "gone" /\ UNCHANGED <<req, ctl>>
  /\ UNCHANGED <<first_run, child_pid, fpc, cst, st, writers, afl>>

\* The status of a child that was gone too early is taken for a pid.
ReadPid ==
  /\ \/ /\ st # <<>> /\ ProxyAt("readPid", IF first_run THEN "init" ELSE "start")
        /\ child_pid' \in IF Head(st) = "pid" THEN {"child"} ELSE {"status", "zero"}
     \/ EndOfFile /\ ProxyAt("readPid", "status") /\ UNCHANGED child_pid
  /\ st' = IF st = <<>> THEN st ELSE Tail(st)
  /\ UNCHANGED <<first_run, fpc, cst, ctl, writers, afl, req>>

\* There is no process 0; a status may be the number of some other process.
init_trace ==
  /\ \/ ProxyAt("init", "start") /\ child_pid # "zero" /\ first_run' = FALSE
     \/ ProxyAt("init", "status") /\ UNCHANGED first_run
  /\ UNCHANGED <<child_pid, fpc, cst, ctl, st, writers, afl, req>>

\* The child's state after SIGCONT; continued the first time, it closes its pipes.
Stopped == {"stopped", "suspended", "reported"}
Continued(c) == IF c \in Stopped THEN "running" ELSE c

\* AFL++ is told the pid, and the child is continued; if it is gone, kill() fails.
\* With a status in the place of the pid nobody is, and a 0 ends main()'s loop.
start_and_resume ==
  /\ \/ /\ child_pid = "child" /\ ProxyAt("start", "status")
        /\ TellAfl("pid") /\ cst' = Continued(cst)
        /\ writers' = IF cst = "stopped" THEN writers \ {"child"} ELSE writers
     \/ /\ child_pid # "child" /\ ProxyAt("start", IF child_pid = "zero" THEN "dead" ELSE "status")
        /\ TellAfl("pid") /\ UNCHANGED <<cst, writers>>
     \/ ProxyAt("start", "status") /\ afl = "gone" /\ UNCHANGED <<cst, writers, afl>>
  /\ UNCHANGED <<first_run, child_pid, fpc, ctl, st, req>>

\* wait_for_child_and_stop_trace(): a stop is the decoder's, which then continues
\* the child; after the end stop_trace() may fail.
ReadStatus ==
  /\ ppc = "status"
  /\ \/ st # <<>> /\ Head(st) = "stop" /\ cst' = Continued(cst) /\ UNCHANGED ppc
     \/ st # <<>> /\ Head(st) # "stop" /\ ppc' \in {"end", "dead"} /\ UNCHANGED cst
     \/ EndOfFile /\ ppc' = "dead" /\ UNCHANGED cst
  /\ st' = IF st = <<>> THEN st ELSE Tail(st)
  /\ UNCHANGED <<first_run, child_pid, fpc, ctl, writers, afl, req>>

__afl_end_testcase ==
  /\ \/ ProxyAt("end", "request") /\ TellAfl("status")
     \/ ProxyAt("end", "dead") /\ afl = "gone" /\ UNCHANGED afl
  /\ UNCHANGED <<first_run, child_pid, fpc, cst, ctl, st, writers, req>>

\* Somebody kills it (AFL++ does at the end of a campaign), or SIGPIPE does.
ProxyKilled ==
  /\ ppc # "dead" /\ ppc' = "dead"
  /\ UNCHANGED <<first_run, child_pid, fpc, cst, ctl, st, writers, afl, req>>

ProxyStep ==
  \/ CheckArguments \/ __afl_map_shm \/ SpawnForkserver \/ PhoneHome \/ ReadRequest
  \/ ReadPid \/ init_trace \/ start_and_resume \/ ReadStatus \/ __afl_end_testcase

-----------------------------------------------------------------------------
(* The forkserver and its child.                                           *)

\* Mutant: the child is not woken when the forkserver dies.
StaysStopped(c) == IF c = "forked" THEN "orphan" ELSE c

\* PR_SET_PDEATHSIG SIGCONT: the death of the forkserver continues its child.  One
\* that has not stopped yet has not asked for it, or gets it too early.
Bereaved(c) == IF c = "forked" THEN "orphan" ELSE Continued(c)

ForkserverDies ==
  /\ fpc' = "dead" /\ cst' = Bereaved(cst)
  /\ writers' = writers \ ({"forkserver"} \cup IF cst' = "running" THEN {"child"} ELSE {})
  /\ UNCHANGED <<ppc, first_run, child_pid, ctl, st, afl, req>>

\* A word for the proxy; if the proxy is gone, the write fails and _exit() follows.
Relay(word, child, next) ==
  \/ /\ ppc # "dead" /\ st' = Append(st, word)
     /\ cst' = child /\ fpc' = next
     /\ UNCHANGED <<ppc, first_run, child_pid, ctl, writers, afl, req>>
  \/ ppc = "dead" /\ ForkserverDies

\* execve() and the constructor, up to the hello; the target may also fail to start.
StartTarget == fpc = "exec" /\ (Relay("hello", cst, "loop") \/ ForkserverDies)

\* The parent is dead when the control pipe has come to its end.
ReadControl ==
  /\ fpc = "loop"
  /\ \/ /\ ctl /\ ctl' = FALSE /\ fpc' = "fork"
        /\ UNCHANGED <<ppc, first_run, child_pid, cst, st, writers, afl, req>>
     \/ ~ctl /\ ppc = "dead" /\ ForkserverDies

\* fork(), which may fail ten times over.
ForkChild ==
  /\ fpc = "fork"
  /\ \/ /\ fpc' = "waitStop" /\ cst' = "forked" /\ writers' = writers \cup {"child"}
        /\ UNCHANGED <<ppc, first_run, child_pid, ctl, st, afl, req>>
     \/ ForkserverDies

\* The first waitpid(): the pid goes to the proxy, or the status of a child that is
\* gone already.
AwaitStop ==
  /\ fpc = "waitStop"
  /\ \/ cst = "stopped" /\ Relay("pid", cst, "watch")
     \/ cst = "zombie" /\ Relay("early", "none", "loop")

\* The loop of waitpid() and write().
RelayStatus ==
  /\ fpc = "watch"
  /\ \/ cst = "suspended" /\ Relay("stop", "reported", "watch")
     \/ cst = "zombie" /\ Relay("exit", "none", "loop")

\* PR_SET_PDEATHSIG SIGTERM, set before the hello.
TermForkserver == ppc = "dead" /\ fpc \notin {"none", "exec", "dead"} /\ ForkserverDies

ForkserverKilled == fpc \notin {"none", "dead"} /\ ForkserverDies

ForkserverStep ==
  StartTarget \/ ReadControl \/ ForkChild \/ AwaitStop \/ RelayStatus \/ TermForkserver

\* The child reaches its raise(SIGSTOP).
ChildStops ==
  /\ \/ cst = "forked" /\ cst' = "stopped"
     \/ cst = "orphan" /\ cst' = "leaked"
  /\ UNCHANGED <<ppc, first_run, child_pid, fpc, ctl, st, writers, afl, req>>

\* The decoder thread stops the running child to drain the ETR.
ChildSuspended ==
  /\ cst = "running" /\ ppc = "status" /\ fpc = "watch" /\ cst' = "suspended"
  /\ UNCHANGED <<ppc, first_run, child_pid, fpc, ctl, st, writers, afl, req>>

\* It exits, or is killed in whatever state it is.
ChildDies ==
  /\ cst \notin {"none", "zombie"} /\ cst' = "zombie"
  /\ writers' = writers \ {"child"}
  /\ UNCHANGED <<ppc, first_run, child_pid, fpc, ctl, st, afl, req>>

Next ==
  \/ AflRequests \/ AflGoes
  \/ ProxyStep \/ ProxyKilled
  \/ ForkserverStep \/ ForkserverKilled
  \/ ChildStops \/ ChildSuspended \/ ChildDies

\* All processes are scheduled, and AFL++ goes on fuzzing; nobody owes anybody a
\* death.
Spec ==
  /\ Init /\ [][Next]_vars
  /\ WF_vars(AflRequests) /\ WF_vars(ProxyStep) /\ WF_vars(ForkserverStep)
  /\ WF_vars(ChildStops)

-----------------------------------------------------------------------------
\* On whatever machine init_trace() is called, the CPU it will trace on is one the
\* machine has: also where preferred_cpu is not a CPU but the outcome of a comparison,
\* which is 1 when find_free_cpu() fails.
TraceCpuOnline == ppc = "init" => CpuIsOnline

\* However many mappings the child has, and in whatever order, setup_map_info()
\* records the first executable files and then the first mapping of CS_TRACE_LIB:
\* a program with many libraries never crowds that one out.
RangesExact == ppc = "init" => RangesAreFirst

\* When the forkserver dies, wherever it is and whatever the child does, the proxy
\* comes to the end of the status pipe and exits, so AFL++ is not left waiting.
\* The exception is a child forked but not yet stopped at that moment: nobody
\* continues it, and it keeps the pipe open.
ForkserverDeathEnds == fpc = "dead" ~> ppc = "dead" \/ cst = "leaked"

\* When the proxy dies, at any point of start-up or of a run, the forkserver goes
\* too and no child it has reported stays stopped, not even in the middle of a
\* drain; again with the exception of a child that had not stopped yet.
ProxyDeathEnds ==
  ppc = "dead" ~> fpc \in {"none", "dead"} /\ cst \notin Stopped
=============================================================================
