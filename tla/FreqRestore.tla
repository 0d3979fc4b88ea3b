----------------------------- MODULE FreqRestore -----------------------------
(***************************************************************************)
(* The cpufreq policy under the governor, src/src/freq_gov.c: one write to *)
(* sysfs at a time, and how the policy is put back when the proxy exits, is *)
(* signalled or is killed.  A signal may be handled on the decoder thread  *)
(* while the main thread goes on; the guard is a process of its own.       *)
(* Reading sysfs succeeds.                                                 *)
(***************************************************************************)
EXTENDS Naturals, Sequences

CONSTANTS
  system_min_cpufreq, system_max_cpufreq,
  Governors  \* governors other than "userspace"

Freqs == system_min_cpufreq .. system_max_cpufreq

ASSUME BoundsAssumption ==
  /\ system_min_cpufreq \in Nat \ {0} /\ system_max_cpufreq \in Nat
  /\ system_min_cpufreq <= system_max_cpufreq
  /\ "userspace" \notin Governors

VARIABLES
  policy,         \* the four files of the policy
  found,          \* history: the policy freq_gov_init() found
  main,           \* where the main thread is
  todo,           \* the writes left of the call it is in
  target,         \* the argument of its set_freq()
  handler,        \* "none", or the thread the handler runs on
  handler_todo,
  proxy,          \* "alive" or "dead"
  last_set_freq,
  restore_ops,
  guard, guard_todo,
  writers         \* who has the write end of the guard's pipe open

mainVars == <<main, todo, target, last_set_freq>>
handlerVars == <<handler, handler_todo>>
guardVars == <<guard, guard_todo, writers>>
vars == <<policy, found, mainVars, handlerVars, proxy, restore_ops, guardVars>>

Policies == [scaling_governor : Governors \cup {"userspace"}, scaling_min_freq : Freqs,
             scaling_max_freq : Freqs, scaling_setspeed : Freqs]
Write(f, v) == [file |-> f, val |-> v]
Writes ==
  [file : {"scaling_min_freq", "scaling_max_freq", "scaling_setspeed"}, val : Freqs]
    \cup [file : {"scaling_governor"}, val : Governors \cup {"userspace"}]

TypeOK ==
  /\ policy \in Policies /\ found \in Policies
  /\ policy.scaling_min_freq <= policy.scaling_max_freq
  /\ main \in {"save", "spawn", "hook", "init", "idle", "set", "exit"}
  /\ todo \in Seq(Writes) /\ handler_todo \in Seq(Writes) /\ guard_todo \in Seq(Writes)
  /\ target \in Freqs /\ last_set_freq \in Freqs \cup {0}
  /\ handler \in {"none", "main", "decoder"} /\ proxy \in {"alive", "dead"}
  /\ restore_ops \in Seq(Writes) /\ Len(restore_ops) <= 5
  /\ guard \in {"none", "failed", "forked", "waiting", "restoring", "done"}
  /\ writers \subseteq {"proxy", "guard"}

Init ==
  /\ policy \in {p \in Policies : p.scaling_min_freq <= p.scaling_max_freq}
  /\ found = policy
  /\ main = "save" /\ todo = <<>> /\ target = system_max_cpufreq
  /\ last_set_freq = 0 /\ restore_ops = <<>>
  /\ handler = "none" /\ handler_todo = <<>>
  /\ proxy = "alive" /\ guard = "none" /\ guard_todo = <<>> /\ writers = {}

\* The kernel refuses bounds that cross and a speed without the userspace
\* governor, which begins at a speed of its own.
Accepted(w) ==
  LET set == [policy EXCEPT ![w.file] = w.val]
  IN  CASE w.file = "scaling_setspeed" ->
             {IF policy.scaling_governor = "userspace" THEN set ELSE policy}
        [] w.file = "scaling_governor" ->
             IF w.val = "userspace" /\ policy.scaling_governor # "userspace"
               THEN {[set EXCEPT !.scaling_setspeed = f] : f \in Freqs}
               ELSE {set}
        [] OTHER -> {IF set.scaling_min_freq <= set.scaling_max_freq THEN set ELSE policy}

-----------------------------------------------------------------------------
(* freq_gov_init()                                                         *)

MainRuns == proxy = "alive" /\ handler # "main"

\* Mutant: the lower bound is not taken out of the way first.
RestoreInPlace(p) ==
  <<Write("scaling_max_freq", p.scaling_max_freq),
    Write("scaling_min_freq", p.scaling_min_freq),
    Write("scaling_governor", p.scaling_governor)>>
  \o (IF p.scaling_governor = "userspace"
        THEN <<Write("scaling_setspeed", p.scaling_setspeed)>> ELSE <<>>)

RestoreOps(p) ==
  <<Write("scaling_min_freq", system_min_cpufreq),
    Write("scaling_max_freq", p.scaling_max_freq),
    Write("scaling_min_freq", p.scaling_min_freq),
    Write("scaling_governor", p.scaling_governor)>>
  \o (IF p.scaling_governor = "userspace"
        THEN <<Write("scaling_setspeed", p.scaling_setspeed)>> ELSE <<>>)

SavePolicy ==
  /\ MainRuns /\ main = "save" /\ main' = "spawn"
  /\ restore_ops' = RestoreOps(policy)
  /\ UNCHANGED <<policy, found, todo, target, last_set_freq, handlerVars, proxy, guardVars>>

\* Without pipe or fork there is no guard; with them it has both ends of the pipe.
freq_gov_spawn_guard ==
  /\ MainRuns /\ main = "spawn" /\ main' = "hook"
  /\ guard' \in {"forked", "failed"} /\ guard_todo' = restore_ops
  /\ writers' = IF guard' = "forked" THEN {"proxy", "guard"} ELSE {}
  /\ UNCHANGED <<policy, found, todo, target, last_set_freq, handlerVars, proxy, restore_ops>>

\* atexit() and the three signals; then the governor is written.
freq_gov_hook_signal ==
  /\ MainRuns /\ main = "hook" /\ main' = "init"
  /\ todo' = <<Write("scaling_governor", "userspace")>>
  /\ UNCHANGED <<policy, found, target, last_set_freq, handlerVars, proxy, restore_ops, guardVars>>

-----------------------------------------------------------------------------
\* Mutant: the lower bound is left where the last call put it.
SetWithoutFloor(t) ==
  <<Write("scaling_max_freq", t), Write("scaling_min_freq", t), Write("scaling_setspeed", t)>>

\* Mutant: the frequency is taken one step below.
SetBelow(t) ==
  <<Write("scaling_min_freq", system_min_cpufreq), Write("scaling_max_freq", t),
    Write("scaling_min_freq", t - 1), Write("scaling_setspeed", t - 1)>>

SetWrites(t) ==
  <<Write("scaling_min_freq", system_min_cpufreq), Write("scaling_max_freq", t),
    Write("scaling_min_freq", t), Write("scaling_setspeed", t)>>

set_freq(t) ==
  /\ MainRuns /\ main = "idle"
  /\ t # last_set_freq
  /\ main' = "set" /\ todo' = SetWrites(t) /\ target' = t
  /\ UNCHANGED <<policy, found, last_set_freq, handlerVars, proxy, restore_ops, guardVars>>

\* Mutant: no atexit().
ExitWithoutRestore ==
  /\ MainRuns /\ main = "idle" /\ main' = "exit" /\ todo' = <<>>
  /\ UNCHANGED <<policy, found, target, last_set_freq, handlerVars, proxy, restore_ops, guardVars>>

\* exit(), by a return from main() or FATAL().
Exit ==
  /\ MainRuns /\ main = "idle" /\ main' = "exit" /\ todo' = restore_ops
  /\ UNCHANGED <<policy, found, target, last_set_freq, handlerVars, proxy, restore_ops, guardVars>>

\* The kernel closes the files of a process that dies.
Dies == proxy' = "dead" /\ writers' = writers \ {"proxy"}

\* The next write of the call the main thread is in.
MainWrites ==
  /\ MainRuns /\ todo # <<>>
  /\ policy' \in Accepted(Head(todo)) /\ todo' = Tail(todo)
  /\ UNCHANGED <<found, main, target, last_set_freq, handlerVars, proxy, restore_ops, guardVars>>

MainReturns ==
  /\ MainRuns /\ todo = <<>>
  /\ \/ main = "init" /\ main' = "idle" /\ last_set_freq' = 0 /\ UNCHANGED <<proxy, writers>>
     \/ main = "set" /\ main' = "idle" /\ last_set_freq' = target /\ UNCHANGED <<proxy, writers>>
     \/ main = "exit" /\ last_set_freq' = 0 /\ Dies /\ UNCHANGED main
  /\ UNCHANGED <<policy, found, todo, target, handlerVars, restore_ops, guard, guard_todo>>

-----------------------------------------------------------------------------
(* Signals                                                                 *)

\* SIGTERM, SIGINT or SIGHUP, on either thread.  Another one may interrupt the
\* handler: it restores, and ends the process, before the first goes on.
freq_gov_signal_restore ==
  /\ proxy = "alive" /\ main \in {"init", "idle", "set", "exit"}
  /\ handler' \in IF handler = "none" THEN {"main", "decoder"} ELSE {handler}
  /\ handler_todo' = restore_ops
  /\ UNCHANGED <<policy, found, mainVars, proxy, restore_ops, guardVars>>

HandlerWrites ==
  /\ proxy = "alive" /\ handler # "none" /\ handler_todo # <<>>
  /\ policy' \in Accepted(Head(handler_todo)) /\ handler_todo' = Tail(handler_todo)
  /\ UNCHANGED <<found, mainVars, handler, proxy, restore_ops, guardVars>>

\* The signal is raised again with its default action.
HandlerRaises ==
  /\ proxy = "alive" /\ handler # "none" /\ handler_todo = <<>>
  /\ Dies /\ last_set_freq' = 0
  /\ UNCHANGED <<policy, found, main, todo, target, handlerVars, restore_ops, guard, guard_todo>>

\* SIGKILL, or a signal before the handlers are there.
Kill ==
  /\ proxy = "alive" /\ Dies
  /\ UNCHANGED <<policy, found, mainVars, handlerVars, restore_ops, guard, guard_todo>>

-----------------------------------------------------------------------------
(* The guard                                                               *)

\* A signal to the proxy's process group, from the terminal, before setsid().
GuardSignalled ==
  /\ guard = "forked" /\ guard' = "failed" /\ writers' = writers \ {"guard"}
  /\ UNCHANGED <<policy, found, mainVars, handlerVars, proxy, restore_ops, guard_todo>>

\* Mutant: the guard closes the files it got from the proxy, but not its copy of
\* the write end.
GuardKeepsEnd ==
  /\ guard = "forked" /\ guard' = "waiting"
  /\ UNCHANGED <<policy, found, mainVars, handlerVars, proxy, restore_ops, guard_todo, writers>>

\* setsid(), the three signals are ignored, and every file but stderr and the read
\* end is closed.
GuardCloses ==
  /\ guard = "forked" /\ guard' = "waiting" /\ writers' = writers \ {"guard"}
  /\ UNCHANGED <<policy, found, mainVars, handlerVars, proxy, restore_ops, guard_todo>>

\* read() comes to the end of the pipe when nobody can write to it any more.
GuardWakes ==
  /\ guard = "waiting" /\ writers = {} /\ guard' = "restoring"
  /\ UNCHANGED <<policy, found, mainVars, handlerVars, proxy, restore_ops, guard_todo, writers>>

GuardRestores ==
  /\ guard = "restoring"
  /\ IF guard_todo = <<>> THEN guard' = "done" /\ UNCHANGED <<policy, guard_todo>>
     ELSE /\ policy' \in Accepted(Head(guard_todo)) /\ guard_todo' = Tail(guard_todo)
          /\ UNCHANGED guard
  /\ UNCHANGED <<found, mainVars, handlerVars, proxy, restore_ops, writers>>

Next ==
  \/ SavePolicy \/ freq_gov_spawn_guard \/ freq_gov_hook_signal
  \/ (\E t \in Freqs : set_freq(t)) \/ Exit \/ MainWrites \/ MainReturns
  \/ freq_gov_signal_restore \/ HandlerWrites \/ HandlerRaises \/ Kill
  \/ GuardSignalled \/ GuardCloses \/ GuardWakes \/ GuardRestores

Spec == Init /\ [][Next]_vars
\* The kernel lets the guard run.
FairSpec == Spec /\ WF_vars(GuardCloses \/ GuardWakes \/ GuardRestores)

-----------------------------------------------------------------------------
(* Properties                                                              *)

\* A speed only means something under the userspace governor.
SamePolicy(p, q) ==
  /\ p.scaling_governor = q.scaling_governor
  /\ p.scaling_min_freq = q.scaling_min_freq /\ p.scaling_max_freq = q.scaling_max_freq
  /\ q.scaling_governor = "userspace" => p.scaling_setspeed = q.scaling_setspeed

\* Once the guard has run, the policy is the one freq_gov_init() found: whenever
\* the proxy died, in the middle of a set_freq(), of a restore, or with a handler
\* and set_freq() writing side by side.
RestoredByGuard == guard = "done" => SamePolicy(policy, found)

\* Without a guard the proxy still restores when it leaves through exit().
RestoredByExit ==
  proxy = "dead" /\ guard = "failed" /\ main = "exit" /\ todo = <<>> /\ handler = "none"
    => SamePolicy(policy, found)

\* Whatever set_freq() believes to be set already is: bounds, governor and speed
\* pin the last frequency, so that skipping the writes is right.
PinnedWhenSkipped ==
  proxy = "alive" /\ handler = "none" /\ main = "idle" /\ last_set_freq # 0 =>
    policy = [scaling_governor |-> "userspace", scaling_min_freq |-> last_set_freq,
              scaling_max_freq |-> last_set_freq, scaling_setspeed |-> last_set_freq]

\* However and whenever the proxy dies, its guard, unless a signal hit it before it
\* was deaf to signals, sees the end of the pipe and puts the policy back: nobody
\* else, the guard included, keeps the write end open.
EventuallyRestored ==
  (proxy = "dead" /\ guard \in {"forked", "waiting"}) ~> (guard \in {"failed", "done"})
=============================================================================
