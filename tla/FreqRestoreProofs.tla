-------------------------- MODULE FreqRestoreProofs --------------------------
(***************************************************************************)
(* Proofs about FreqRestore, for every range of frequencies and every set  *)
(* of governors.                                                           *)
(***************************************************************************)
EXTENDS FreqRestore, SequenceTheorems, TLAPS

\* left is what remains of the list of writes all.
Remains(left, all) ==
  /\ left \in Seq(Writes) /\ Len(left) <= Len(all)
  /\ \A i \in 1..Len(left) : left[i] = all[Len(all) - Len(left) + i]

\* What holds of the policy p after n writes of a restore to f that nothing
\* disturbs.
Restored(p, f, n) ==
  /\ n \in {1, 2} => p.scaling_min_freq = system_min_cpufreq
  /\ n >= 2 => p.scaling_max_freq = f.scaling_max_freq
  /\ n >= 3 => p.scaling_min_freq = f.scaling_min_freq
  /\ n >= 4 => p.scaling_governor = f.scaling_governor
  /\ n >= 5 => p.scaling_setspeed = f.scaling_setspeed

Restoring(p, f, left) ==
  Remains(left, RestoreOps(f)) /\ Restored(p, f, Len(RestoreOps(f)) - Len(left))

\* The same for a set_freq(t).
Pinned(p, t, n) ==
  /\ p.scaling_governor = "userspace"
  /\ n \in {1, 2} => p.scaling_min_freq = system_min_cpufreq
  /\ n >= 2 => p.scaling_max_freq = t
  /\ n >= 3 => p.scaling_min_freq = t
  /\ n >= 4 => p.scaling_setspeed = t

Setting(p, t, left) == Remains(left, SetWrites(t)) /\ Pinned(p, t, 4 - Len(left))

\* What is there to restore, and from where on.
Saved ==
  /\ found.scaling_min_freq <= found.scaling_max_freq
  /\ main = "save" => policy = found
  /\ main # "save" => restore_ops = RestoreOps(found)
  /\ main \in {"save", "spawn", "hook", "idle"} => todo = <<>>
  /\ main \in {"save", "spawn", "hook"} => handler = "none"
  /\ guard = "none" <=> main \in {"save", "spawn"}

\* The guard is alone when it restores: until the proxy dies it keeps the pipe open.
GuardAlone ==
  /\ guard \in {"forked", "waiting"} =>
       guard_todo = RestoreOps(found) /\ (proxy = "alive" => "proxy" \in writers)
  /\ guard \in {"restoring", "done"} => proxy = "dead" /\ Restoring(policy, found, guard_todo)
  /\ guard = "done" => guard_todo = <<>>

\* The main thread is, until there is a signal handler or the proxy is dead.
MainAlone ==
  handler = "none" =>
    /\ main = "exit" /\ guard \notin {"restoring", "done"} => Restoring(policy, found, todo)
    /\ proxy = "alive" =>
         /\ main = "init" => \/ todo = <<Write("scaling_governor", "userspace")>>
                             \/ todo = <<>> /\ policy.scaling_governor = "userspace"
         /\ main = "idle" => policy.scaling_governor = "userspace"
         /\ main = "set"  => Setting(policy, target, todo)

FreqInv == TypeOK /\ Saved /\ GuardAlone /\ MainAlone /\ PinnedWhenSkipped

-----------------------------------------------------------------------------
(* Lists of writes                                                         *)

Files == {"scaling_min_freq", "scaling_max_freq", "scaling_setspeed", "scaling_governor"}

\* A write is what it was made of.
LEMMA WriteType ==
  /\ \A v \in Freqs : /\ Write("scaling_min_freq", v) \in Writes
                      /\ Write("scaling_max_freq", v) \in Writes
                      /\ Write("scaling_setspeed", v) \in Writes
  /\ \A v \in Governors \cup {"userspace"} : Write("scaling_governor", v) \in Writes
BY Zenon DEF Write, Writes

\* The list that puts the policy p back, write by write.
LEMMA RestoreList ==
  ASSUME NEW p \in Policies
  PROVE  /\ RestoreOps(p) \in Seq(Writes)
         /\ p.scaling_governor = "userspace" => Len(RestoreOps(p)) = 5
         /\ p.scaling_governor # "userspace" => Len(RestoreOps(p)) = 4
         /\ RestoreOps(p)[1] = Write("scaling_min_freq", system_min_cpufreq)
         /\ RestoreOps(p)[2] = Write("scaling_max_freq", p.scaling_max_freq)
         /\ RestoreOps(p)[3] = Write("scaling_min_freq", p.scaling_min_freq)
         /\ RestoreOps(p)[4] = Write("scaling_governor", p.scaling_governor)
         /\ p.scaling_governor = "userspace" =>
              RestoreOps(p)[5] = Write("scaling_setspeed", p.scaling_setspeed)
<1> DEFINE first == <<Write("scaling_min_freq", system_min_cpufreq),
                      Write("scaling_max_freq", p.scaling_max_freq),
                      Write("scaling_min_freq", p.scaling_min_freq),
                      Write("scaling_governor", p.scaling_governor)>>
           last == IF p.scaling_governor = "userspace"
                     THEN <<Write("scaling_setspeed", p.scaling_setspeed)>> ELSE <<>>
<1>1. /\ system_min_cpufreq \in Freqs /\ p.scaling_max_freq \in Freqs
      /\ p.scaling_min_freq \in Freqs /\ p.scaling_setspeed \in Freqs
      /\ p.scaling_governor \in Governors \cup {"userspace"}
  BY BoundsAssumption DEF Policies, Freqs
<1>2. first \in Seq(Writes) /\ Len(first) = 4
  BY <1>1, WriteType
<1>3. /\ last \in Seq(Writes)
      /\ p.scaling_governor = "userspace" => Len(last) = 1
      /\ p.scaling_governor # "userspace" => Len(last) = 0
  BY <1>1, WriteType
<1>4. RestoreOps(p) = first \o last
  BY Zenon DEF RestoreOps
<1>5. /\ first[1] = Write("scaling_min_freq", system_min_cpufreq)
      /\ first[2] = Write("scaling_max_freq", p.scaling_max_freq)
      /\ first[3] = Write("scaling_min_freq", p.scaling_min_freq)
      /\ first[4] = Write("scaling_governor", p.scaling_governor)
      /\ p.scaling_governor = "userspace" =>
           last[1] = Write("scaling_setspeed", p.scaling_setspeed)
  BY Zenon
<1> HIDE DEF first, last
<1>6. /\ first \o last \in Seq(Writes) /\ Len(first \o last) = Len(first) + Len(last)
      /\ \A i \in 1 .. Len(first) + Len(last) :
           (first \o last)[i] = IF i <= Len(first) THEN first[i] ELSE last[i - Len(first)]
  BY <1>2, <1>3, ConcatProperties, Zenon
<1>7. /\ (first \o last)[1] = first[1] /\ (first \o last)[2] = first[2]
      /\ (first \o last)[3] = first[3] /\ (first \o last)[4] = first[4]
      /\ Len(last) = 1 => (first \o last)[5] = last[1]
  BY <1>2, <1>3, <1>6
<1>8. QED
  BY <1>2, <1>3, <1>4, <1>5, <1>6, <1>7

\* The list of a set_freq().
LEMMA SetList ==
  ASSUME NEW t \in Freqs
  PROVE  /\ SetWrites(t) \in Seq(Writes) /\ Len(SetWrites(t)) = 4
         /\ SetWrites(t)[1] = Write("scaling_min_freq", system_min_cpufreq)
         /\ SetWrites(t)[2] = Write("scaling_max_freq", t)
         /\ SetWrites(t)[3] = Write("scaling_min_freq", t)
         /\ SetWrites(t)[4] = Write("scaling_setspeed", t)
<1>1. system_min_cpufreq \in Freqs
  BY BoundsAssumption DEF Freqs
<1>2. QED
  BY <1>1, WriteType DEF SetWrites

\* All of a list remains at first.
LEMMA RemainsAll == ASSUME NEW all \in Seq(Writes) PROVE Remains(all, all)
BY DEF Remains

\* The next write of a list, and what remains after it.
LEMMA RemainsTail ==
  ASSUME NEW all \in Seq(Writes), NEW left, Remains(left, all), left # <<>>
  PROVE  /\ Remains(Tail(left), all)
         /\ Head(left) = all[Len(all) - Len(left) + 1] /\ Head(left) \in Writes
         /\ Len(left) \in 1..Len(all) /\ Len(Tail(left)) = Len(left) - 1
<1>1. left \in Seq(Writes) /\ Len(left) \in Nat \ {0} /\ Len(left) <= Len(all)
  BY DEF Remains
<1>2. /\ Tail(left) \in Seq(Writes) /\ Len(Tail(left)) = Len(left) - 1
      /\ \A i \in 1..Len(Tail(left)) : Tail(left)[i] = left[i + 1]
      /\ Head(left) = left[1] /\ Head(left) \in Writes
  BY <1>1
<1>3. \A i \in 1..Len(Tail(left)) : Tail(left)[i] = all[Len(all) - Len(Tail(left)) + i]
  <2> SUFFICES ASSUME NEW i \in 1..Len(Tail(left))
               PROVE  Tail(left)[i] = all[Len(all) - Len(Tail(left)) + i]
    BY Zenon
  <2>1. i + 1 \in 1..Len(left) /\ Tail(left)[i] = left[i + 1]
    BY <1>1, <1>2
  <2>2. left[i + 1] = all[Len(all) - Len(left) + (i + 1)]
    BY <2>1, Zenon DEF Remains
  <2>3. Len(all) - Len(left) + (i + 1) = Len(all) - Len(Tail(left)) + i
    BY <1>1, <1>2
  <2>4. QED
    BY <2>1, <2>2, <2>3, Zenon
<1>4. QED
  BY <1>1, <1>2, <1>3 DEF Remains

-----------------------------------------------------------------------------
(* What a write does                                                       *)

PolicyOK == policy \in Policies /\ policy.scaling_min_freq <= policy.scaling_max_freq

\* Whatever is written, the policy stays one.
LEMMA AcceptedType ==
  ASSUME PolicyOK, NEW w \in Writes, policy' \in Accepted(w) PROVE PolicyOK'
<1>1. CASE w.file = "scaling_setspeed"
  BY <1>1, Zenon DEF Accepted, PolicyOK, Policies, Writes
<1>2. CASE w.file = "scaling_governor"
  <2>1. w.val \in Governors \cup {"userspace"}
    BY <1>2, Zenon DEF Writes
  <2>2. CASE w.val = "userspace" /\ policy.scaling_governor # "userspace"
    <3>1. PICK f \in Freqs :
            policy' = [[policy EXCEPT ![w.file] = w.val] EXCEPT !.scaling_setspeed = f]
      BY <1>2, <2>2, Zenon DEF Accepted
    <3>2. QED
      BY <1>2, <2>1, <3>1, Zenon DEF PolicyOK, Policies
  <2>3. CASE ~(w.val = "userspace" /\ policy.scaling_governor # "userspace")
    <3>1. policy' = [policy EXCEPT ![w.file] = w.val]
      BY <1>2, <2>3, Zenon DEF Accepted
    <3>2. QED
      BY <1>2, <2>1, <3>1, Zenon DEF PolicyOK, Policies
  <2>4. QED
    BY <2>2, <2>3, Zenon
<1>3. CASE w.file = "scaling_min_freq"
  BY <1>3, Zenon DEF Accepted, PolicyOK, Policies, Writes
<1>4. CASE w.file = "scaling_max_freq"
  BY <1>4, Zenon DEF Accepted, PolicyOK, Policies, Writes
<1>5. QED
  BY <1>1, <1>2, <1>3, <1>4, Zenon DEF Writes

\* A lower bound that does not cross the upper one is taken.
LEMMA AcceptedMin ==
  ASSUME PolicyOK, NEW v \in Freqs, v <= policy.scaling_max_freq,
         policy' \in Accepted(Write("scaling_min_freq", v))
  PROVE  policy' = [policy EXCEPT !.scaling_min_freq = v]
BY Zenon DEF PolicyOK, Policies, Accepted, Write

\* So is an upper one.
LEMMA AcceptedMax ==
  ASSUME PolicyOK, NEW v \in Freqs, policy.scaling_min_freq <= v,
         policy' \in Accepted(Write("scaling_max_freq", v))
  PROVE  policy' = [policy EXCEPT !.scaling_max_freq = v]
BY Zenon DEF PolicyOK, Policies, Accepted, Write

\* A governor is taken, and the bounds stay.
LEMMA AcceptedGovernor ==
  ASSUME PolicyOK, NEW v \in Governors \cup {"userspace"},
         policy' \in Accepted(Write("scaling_governor", v))
  PROVE  /\ policy'.scaling_governor = v
         /\ policy'.scaling_min_freq = policy.scaling_min_freq
         /\ policy'.scaling_max_freq = policy.scaling_max_freq
BY Zenon DEF PolicyOK, Policies, Accepted, Write

\* A speed is taken under the userspace governor.
LEMMA AcceptedSpeed ==
  ASSUME PolicyOK, NEW v \in Freqs, policy.scaling_governor = "userspace",
         policy' \in Accepted(Write("scaling_setspeed", v))
  PROVE  policy' = [policy EXCEPT !.scaling_setspeed = v]
BY Zenon DEF PolicyOK, Policies, Accepted, Write

\* The next write of a restore.
LEMMA RestoreWrite ==
  ASSUME PolicyOK, NEW f \in Policies, f.scaling_min_freq <= f.scaling_max_freq,
         NEW left, Restoring(policy, f, left), left # <<>>, policy' \in Accepted(Head(left))
  PROVE  Restoring(policy', f, Tail(left)) /\ PolicyOK'
<1> DEFINE all == RestoreOps(f)
           n   == Len(all) - Len(left)
<1>1. /\ all \in Seq(Writes) /\ Remains(left, all) /\ Restored(policy, f, n)
      /\ f.scaling_governor = "userspace" => Len(all) = 5
      /\ f.scaling_governor # "userspace" => Len(all) = 4
  BY RestoreList, Zenon DEF Restoring
<1>2. /\ Remains(Tail(left), all) /\ Head(left) = all[n + 1] /\ Head(left) \in Writes
      /\ Len(left) \in 1..Len(all) /\ Len(all) - Len(Tail(left)) = n + 1
  <2> HIDE DEF all
  <2>1. Len(left) \in 1..Len(all) /\ Len(Tail(left)) = Len(left) - 1
    BY <1>1, RemainsTail, Zenon
  <2>2. Len(all) - Len(Tail(left)) = n + 1
    BY <1>1, <2>1
  <2>3. QED
    BY <1>1, <2>1, <2>2, RemainsTail, Zenon
<1>3. PolicyOK'
  BY <1>2, AcceptedType, Zenon
<1>4. /\ f.scaling_max_freq \in Freqs /\ f.scaling_min_freq \in Freqs
      /\ f.scaling_setspeed \in Freqs /\ f.scaling_governor \in Governors \cup {"userspace"}
      /\ system_min_cpufreq \in Freqs
      /\ \A x \in Freqs : x \in Nat /\ system_min_cpufreq <= x
      /\ policy.scaling_max_freq \in Freqs
  BY BoundsAssumption DEF Policies, PolicyOK, Freqs
<1>5. /\ DOMAIN policy = Files
      /\ n \in 0..4 /\ (n = 4 => f.scaling_governor = "userspace")
  <2>1. DOMAIN policy = Files
    BY Zenon DEF PolicyOK, Policies, Files
  <2> HIDE DEF all
  <2>2. Len(all) \in {4, 5} /\ (Len(all) = 5 => f.scaling_governor = "userspace")
    <3>1. CASE f.scaling_governor = "userspace"
      BY <1>1, <3>1, Zenon
    <3>2. CASE f.scaling_governor # "userspace"
      <4>1. Len(all) = 4
        BY <1>1, <3>2, Zenon
      <4>2. QED
        BY <4>1
    <3>3. QED
      BY <3>1, <3>2, Zenon
  <2>3. n \in 0..4 /\ (n = 4 => Len(all) = 5)
    BY <1>2, <2>2
  <2>4. QED
    BY <2>1, <2>2, <2>3, Zenon
<1> HIDE DEF n, all
<1>6. Restored(policy', f, n + 1)
  <2>1. CASE n = 0
    <3>1. policy' = [policy EXCEPT !.scaling_min_freq = system_min_cpufreq]
      BY <1>2, <1>4, <2>1, RestoreList, AcceptedMin DEF all
    <3>2. QED
      BY <1>5, <2>1, <3>1 DEF Restored, Files
  <2>2. CASE n = 1
    <3>1. policy.scaling_min_freq = system_min_cpufreq
      BY <1>1, <2>2, Zenon DEF Restored
    <3>2. policy' = [policy EXCEPT !.scaling_max_freq = f.scaling_max_freq]
      BY <1>2, <1>4, <2>2, <3>1, RestoreList, AcceptedMax DEF all
    <3>3. QED
      BY <1>5, <2>2, <3>1, <3>2 DEF Restored, Files
  <2>3. CASE n = 2
    <3>1. policy.scaling_max_freq = f.scaling_max_freq
      BY <1>1, <2>3 DEF Restored
    <3>2. policy' = [policy EXCEPT !.scaling_min_freq = f.scaling_min_freq]
      BY <1>2, <1>4, <2>3, <3>1, RestoreList, AcceptedMin DEF all
    <3>3. QED
      BY <1>5, <2>3, <3>1, <3>2 DEF Restored, Files
  <2>4. CASE n = 3
    <3>1. /\ policy.scaling_max_freq = f.scaling_max_freq
          /\ policy.scaling_min_freq = f.scaling_min_freq
      BY <1>1, <2>4 DEF Restored
    <3>2. /\ policy'.scaling_governor = f.scaling_governor
          /\ policy'.scaling_min_freq = policy.scaling_min_freq
          /\ policy'.scaling_max_freq = policy.scaling_max_freq
      BY <1>2, <1>4, <2>4, RestoreList, AcceptedGovernor DEF all
    <3>3. QED
      BY <2>4, <3>1, <3>2 DEF Restored
  <2>5. CASE n = 4
    <3>1. /\ policy.scaling_max_freq = f.scaling_max_freq
          /\ policy.scaling_min_freq = f.scaling_min_freq
          /\ policy.scaling_governor = f.scaling_governor
      BY <1>1, <2>5 DEF Restored
    <3>2. policy' = [policy EXCEPT !.scaling_setspeed = f.scaling_setspeed]
      BY <1>2, <1>4, <1>5, <2>5, <3>1, RestoreList, AcceptedSpeed DEF all
    <3>3. QED
      BY <1>5, <2>5, <3>1, <3>2 DEF Restored, Files
  <2>6. QED
    BY <1>5, <2>1, <2>2, <2>3, <2>4, <2>5
<1>7. QED
  BY <1>2, <1>3, <1>6, Zenon DEF Restoring, all

\* A restore begins with nothing done, and ends with the policy put back.
LEMMA RestoreEnds ==
  ASSUME NEW p, NEW f \in Policies
  PROVE  Restoring(p, f, RestoreOps(f)) /\ (Restoring(p, f, <<>>) => SamePolicy(p, f))
<1>1. Restoring(p, f, RestoreOps(f))
  BY RestoreList, RemainsAll DEF Restoring, Restored
<1>2. ASSUME Restoring(p, f, <<>>) PROVE SamePolicy(p, f)
  <2>1. PICK n : n = Len(RestoreOps(f)) - Len(<<>>) /\ Restored(p, f, n)
    BY <1>2, Zenon DEF Restoring
  <2>2. Len(<<>>) = 0
    BY Zenon
  <2>3. /\ f.scaling_governor = "userspace" => n = 5
        /\ f.scaling_governor # "userspace" => n = 4
    <3>1. CASE f.scaling_governor = "userspace"
      <4>1. Len(RestoreOps(f)) = 5
        BY <3>1, RestoreList, Zenon
      <4>2. QED
        BY <2>1, <2>2, <3>1, <4>1
    <3>2. CASE f.scaling_governor # "userspace"
      <4>1. Len(RestoreOps(f)) = 4
        BY <3>2, RestoreList, Zenon
      <4>2. QED
        BY <2>1, <2>2, <3>2, <4>1
    <3>3. QED
      BY <3>1, <3>2, Zenon
  <2>4. QED
    BY <2>1, <2>3 DEF Restored, SamePolicy
<1>3. QED
  BY <1>1, <1>2, Zenon

\* The next write of a set_freq(t).
LEMMA SetWrite ==
  ASSUME PolicyOK, NEW t \in Freqs,
         NEW left, Setting(policy, t, left), left # <<>>, policy' \in Accepted(Head(left))
  PROVE  Setting(policy', t, Tail(left))
<1> DEFINE all == SetWrites(t)
           n   == 4 - Len(left)
<1>1. all \in Seq(Writes) /\ Remains(left, all) /\ Pinned(policy, t, n) /\ Len(all) = 4
  BY SetList, Zenon DEF Setting
<1>2. /\ Remains(Tail(left), all) /\ Head(left) = all[n + 1]
      /\ n \in 0..3 /\ 4 - Len(Tail(left)) = n + 1
  <2> HIDE DEF all
  <2>1. /\ Len(left) \in 1..4 /\ Len(Tail(left)) = Len(left) - 1
        /\ Remains(Tail(left), all) /\ Head(left) = all[n + 1]
    BY <1>1, RemainsTail, Zenon
  <2>2. QED
    BY <2>1
<1>3. /\ DOMAIN policy = Files /\ system_min_cpufreq \in Freqs
      /\ system_min_cpufreq <= t /\ system_min_cpufreq <= policy.scaling_max_freq
      /\ t <= t
  BY BoundsAssumption DEF PolicyOK, Policies, Files, Freqs
<1>4. policy.scaling_governor = "userspace"
  BY <1>1, Zenon DEF Pinned
<1> HIDE DEF n, all
<1>5. Pinned(policy', t, n + 1)
  <2>1. CASE n = 0
    <3>1. policy' = [policy EXCEPT !.scaling_min_freq = system_min_cpufreq]
      BY <1>2, <1>3, <2>1, SetList, AcceptedMin DEF all
    <3>2. QED
      BY <1>3, <1>4, <2>1, <3>1 DEF Pinned, Files
  <2>2. CASE n = 1
    <3>1. policy.scaling_min_freq = system_min_cpufreq
      BY <1>1, <2>2, Zenon DEF Pinned
    <3>2. policy' = [policy EXCEPT !.scaling_max_freq = t]
      BY <1>2, <1>3, <2>2, <3>1, SetList, AcceptedMax DEF all
    <3>3. QED
      BY <1>3, <1>4, <2>2, <3>1, <3>2 DEF Pinned, Files
  <2>3. CASE n = 2
    <3>1. policy.scaling_max_freq = t
      BY <1>1, <2>3 DEF Pinned
    <3>2. policy' = [policy EXCEPT !.scaling_min_freq = t]
      BY <1>2, <1>3, <2>3, <3>1, SetList, AcceptedMin DEF all
    <3>3. QED
      BY <1>3, <1>4, <2>3, <3>1, <3>2 DEF Pinned, Files
  <2>4. CASE n = 3
    <3>1. policy.scaling_max_freq = t /\ policy.scaling_min_freq = t
      BY <1>1, <2>4 DEF Pinned
    <3>2. policy' = [policy EXCEPT !.scaling_setspeed = t]
      BY <1>2, <1>4, <2>4, SetList, AcceptedSpeed DEF all
    <3>3. QED
      BY <1>3, <1>4, <2>4, <3>1, <3>2 DEF Pinned, Files
  <2>5. QED
    BY <1>2, <2>1, <2>2, <2>3, <2>4
<1>6. QED
  BY <1>2, <1>5, Zenon DEF Setting, all

-----------------------------------------------------------------------------
(* Every step preserves the invariant.                                     *)

\* The type, the bounds of the policy included.
LEMMA TypeStep == FreqInv /\ [Next]_vars => TypeOK'
<1> SUFFICES ASSUME FreqInv, [Next]_vars PROVE TypeOK'
  BY Zenon
<1> USE DEF mainVars, handlerVars, guardVars
<1>0. TypeOK /\ PolicyOK
  BY Zenon DEF FreqInv, TypeOK, PolicyOK
<1>1. CASE SavePolicy
  <2>1. RestoreOps(policy) \in Seq(Writes) /\ Len(RestoreOps(policy)) <= 5
    <3>1. RestoreOps(policy) \in Seq(Writes)
      BY <1>0, RestoreList, Zenon DEF PolicyOK
    <3>2. Len(RestoreOps(policy)) = 4 \/ Len(RestoreOps(policy)) = 5
      <4>1. policy \in Policies
        BY <1>0, Zenon DEF PolicyOK
      <4>2. CASE policy.scaling_governor = "userspace"
        BY <4>1, <4>2, RestoreList, Zenon
      <4>3. CASE policy.scaling_governor # "userspace"
        BY <4>1, <4>3, RestoreList, Zenon
      <4>4. QED
        BY <4>2, <4>3, Zenon
    <3>3. \A n : n = 4 \/ n = 5 => n <= 5
      OBVIOUS
    <3>4. QED
      BY <3>1, <3>2, <3>3, Zenon
  <2>2. QED
    BY <1>0, <1>1, <2>1, Zenon DEF TypeOK, SavePolicy
<1>2. CASE freq_gov_spawn_guard
  BY <1>0, <1>2, Zenon DEF TypeOK, freq_gov_spawn_guard
<1>3. CASE freq_gov_hook_signal
  <2>1. <<Write("scaling_governor", "userspace")>> \in Seq(Writes)
    BY WriteType
  <2>2. QED
    BY <1>0, <1>3, <2>1, Zenon DEF TypeOK, freq_gov_hook_signal
<1>4. ASSUME NEW t \in Freqs, set_freq(t) PROVE TypeOK'
  <2>1. SetWrites(t) \in Seq(Writes)
    BY SetList, Zenon
  <2>2. QED
    BY <1>0, <1>4, <2>1, Zenon DEF TypeOK, set_freq
<1>5. CASE Exit
  BY <1>0, <1>5, Zenon DEF TypeOK, Exit
<1>6. CASE MainWrites
  <2>1. Head(todo) \in Writes /\ Tail(todo) \in Seq(Writes)
    BY <1>0, <1>6 DEF TypeOK, MainWrites
  <2>2. PolicyOK'
    BY <1>0, <1>6, <2>1, AcceptedType, Zenon DEF MainWrites
  <2>3. QED
    BY <1>0, <1>6, <2>1, <2>2, Zenon DEF TypeOK, MainWrites, PolicyOK
<1>7. CASE MainReturns
  BY <1>0, <1>7, Zenon DEF TypeOK, MainReturns, Dies
<1>8. CASE freq_gov_signal_restore
  BY <1>0, <1>8, Zenon DEF TypeOK, freq_gov_signal_restore
<1>9. CASE HandlerWrites
  <2>1. Head(handler_todo) \in Writes /\ Tail(handler_todo) \in Seq(Writes)
    BY <1>0, <1>9 DEF TypeOK, HandlerWrites
  <2>2. PolicyOK'
    BY <1>0, <1>9, <2>1, AcceptedType, Zenon DEF HandlerWrites
  <2>3. QED
    BY <1>0, <1>9, <2>1, <2>2, Zenon DEF TypeOK, HandlerWrites, PolicyOK
<1>10. CASE HandlerRaises \/ Kill
  BY <1>0, <1>10, Zenon DEF TypeOK, HandlerRaises, Kill, Dies
<1>11. CASE GuardSignalled \/ GuardCloses \/ GuardWakes
  BY <1>0, <1>11, Zenon DEF TypeOK, GuardSignalled, GuardCloses, GuardWakes
<1>12. CASE GuardRestores
  <2>1. CASE guard_todo = <<>>
    BY <1>0, <1>12, <2>1, Zenon DEF TypeOK, GuardRestores
  <2>2. CASE guard_todo # <<>>
    <3>1. Head(guard_todo) \in Writes /\ Tail(guard_todo) \in Seq(Writes)
      BY <1>0, <2>2 DEF TypeOK
    <3>2. PolicyOK'
      BY <1>0, <1>12, <2>2, <3>1, AcceptedType, Zenon DEF GuardRestores
    <3>3. QED
      BY <1>0, <1>12, <2>2, <3>1, <3>2, Zenon DEF TypeOK, GuardRestores, PolicyOK
  <2>3. QED
    BY <2>1, <2>2, Zenon
<1>13. CASE UNCHANGED vars
  BY <1>0, <1>13, Zenon DEF TypeOK, vars
<1>14. QED
  BY <1>1, <1>2, <1>3, <1>4, <1>5, <1>6, <1>7, <1>8, <1>9, <1>10, <1>11, <1>12, <1>13, Zenon
     DEF Next

\* What was saved stays, and nobody writes before it is.
LEMMA SavedStep == FreqInv /\ [Next]_vars => Saved'
<1> SUFFICES ASSUME FreqInv, [Next]_vars PROVE Saved'
  BY Zenon
<1> USE DEF FreqInv, Saved, TypeOK, mainVars, handlerVars, guardVars
<1>1. CASE SavePolicy
  BY <1>1, Zenon DEF SavePolicy
<1>2. CASE freq_gov_spawn_guard
  BY <1>2, Zenon DEF freq_gov_spawn_guard
<1>3. CASE freq_gov_hook_signal
  BY <1>3, Zenon DEF freq_gov_hook_signal
<1>4. CASE \E t \in Freqs : set_freq(t)
  BY <1>4, Zenon DEF set_freq
<1>5. CASE Exit
  BY <1>5, Zenon DEF Exit
<1>6. CASE MainWrites
  BY <1>6, Zenon DEF MainWrites
<1>7. CASE MainReturns
  BY <1>7, Zenon DEF MainReturns
<1>8. CASE freq_gov_signal_restore \/ HandlerWrites
  BY <1>8, Zenon DEF freq_gov_signal_restore, HandlerWrites
<1>9. CASE HandlerRaises \/ Kill
  BY <1>9, Zenon DEF HandlerRaises, Kill
<1>10. CASE GuardSignalled \/ GuardCloses \/ GuardWakes
  BY <1>10, Zenon DEF GuardSignalled, GuardCloses, GuardWakes
<1>11. CASE GuardRestores
  BY <1>11, Zenon DEF GuardRestores
<1>12. CASE UNCHANGED vars
  BY <1>12, Zenon DEF vars
<1>13. QED
  BY <1>1, <1>2, <1>3, <1>4, <1>5, <1>6, <1>7, <1>8, <1>9, <1>10, <1>11, <1>12, Zenon DEF Next

\* The guard restores after the last write of the proxy.
LEMMA GuardStep == FreqInv /\ [Next]_vars => GuardAlone'
<1> SUFFICES ASSUME FreqInv, [Next]_vars PROVE GuardAlone'
  BY Zenon
<1>0. /\ PolicyOK /\ found \in Policies
      /\ found.scaling_min_freq <= found.scaling_max_freq
  BY Zenon DEF FreqInv, TypeOK, Saved, PolicyOK
<1> USE DEF mainVars, handlerVars, guardVars
<1>1. CASE /\ UNCHANGED <<guard, guard_todo, found>> /\ proxy = "alive"
           /\ UNCHANGED writers \/ proxy' = "dead"
  BY <1>1, Zenon DEF FreqInv, GuardAlone
<1>2. CASE freq_gov_spawn_guard
  BY <1>2, Zenon DEF freq_gov_spawn_guard, FreqInv, GuardAlone, Saved
<1>3. CASE GuardWakes
  <2>1. proxy = "dead"
    <3>1. proxy # "alive"
      BY <1>3, Zenon DEF GuardWakes, FreqInv, GuardAlone
    <3>2. QED
      BY <3>1, Zenon DEF FreqInv, TypeOK
  <2>2. QED
    BY <1>0, <1>3, <2>1, RestoreEnds, Zenon DEF GuardWakes, FreqInv, GuardAlone
<1>4. CASE GuardSignalled
  BY <1>4, Zenon DEF GuardSignalled, GuardAlone
<1>5. CASE GuardCloses
  BY <1>5, Zenon DEF GuardCloses, FreqInv, GuardAlone
<1>6. CASE GuardRestores
  <2>1. CASE guard_todo = <<>>
    BY <1>6, <2>1, Zenon DEF GuardRestores, FreqInv, GuardAlone
  <2>2. CASE guard_todo # <<>>
    <3>1. /\ guard = "restoring" /\ guard' = guard /\ found' = found /\ proxy' = proxy
          /\ policy' \in Accepted(Head(guard_todo)) /\ guard_todo' = Tail(guard_todo)
      BY <1>6, <2>2, Zenon DEF GuardRestores
    <3>2. proxy = "dead" /\ Restoring(policy, found, guard_todo)
      BY <3>1, Zenon DEF FreqInv, GuardAlone
    <3>3. Restoring(policy', found, Tail(guard_todo))
      BY <1>0, <2>2, <3>1, <3>2, RestoreWrite, Zenon
    <3>4. QED
      BY <3>1, <3>2, <3>3, Zenon DEF GuardAlone
  <2>3. QED
    BY <2>1, <2>2, Zenon
<1>7. CASE UNCHANGED vars
  BY <1>7, Zenon DEF vars, FreqInv, GuardAlone
<1>8. QED
  BY <1>1, <1>2, <1>3, <1>4, <1>5, <1>6, <1>7, Zenon
     DEF Next, SavePolicy, freq_gov_hook_signal, set_freq, Exit, MainWrites, MainReturns,
         MainRuns, freq_gov_signal_restore, HandlerWrites, HandlerRaises, Kill, Dies

\* The main thread's writes, while nobody else writes.
LEMMA MainStep == FreqInv /\ [Next]_vars => MainAlone' /\ PinnedWhenSkipped'
<1> SUFFICES ASSUME FreqInv, [Next]_vars PROVE MainAlone' /\ PinnedWhenSkipped'
  BY Zenon
<1>0. /\ PolicyOK /\ found \in Policies /\ target \in Freqs
      /\ found.scaling_min_freq <= found.scaling_max_freq
  BY Zenon DEF FreqInv, TypeOK, Saved, PolicyOK
<1> USE DEF mainVars, handlerVars, guardVars
<1>1. CASE SavePolicy \/ freq_gov_spawn_guard
  BY <1>1, Zenon DEF SavePolicy, freq_gov_spawn_guard, MainAlone, PinnedWhenSkipped
<1>2. CASE freq_gov_hook_signal
  BY <1>2, Zenon DEF freq_gov_hook_signal, MainAlone, PinnedWhenSkipped
<1>3. ASSUME NEW t \in Freqs, set_freq(t) PROVE MainAlone' /\ PinnedWhenSkipped'
  <2>1. /\ main' = "set" /\ todo' = SetWrites(t) /\ target' = t /\ policy' = policy
        /\ handler' = handler /\ proxy' = proxy /\ main = "idle" /\ proxy = "alive"
    BY <1>3, Zenon DEF set_freq, MainRuns
  <2>2. handler = "none" => Setting(policy, t, SetWrites(t))
    <3>1. Remains(SetWrites(t), SetWrites(t)) /\ Len(SetWrites(t)) = 4
      BY SetList, RemainsAll, Zenon
    <3>2. handler = "none" => Pinned(policy, t, 0)
      BY <2>1 DEF FreqInv, MainAlone, Pinned
    <3>3. QED
      BY <3>1, <3>2 DEF Setting
  <2>3. QED
    BY <2>1, <2>2, Zenon DEF MainAlone, PinnedWhenSkipped
<1>4. CASE Exit
  <2>1. /\ main' = "exit" /\ todo' = RestoreOps(found) /\ policy' = policy /\ found' = found
    BY <1>4, Zenon DEF Exit, FreqInv, Saved
  <2>2. QED
    BY <1>0, <2>1, RestoreEnds, Zenon DEF MainAlone, PinnedWhenSkipped
<1>5. CASE MainWrites
  <2>1. /\ proxy = "alive" /\ todo # <<>>
        /\ policy' \in Accepted(Head(todo)) /\ todo' = Tail(todo)
        /\ UNCHANGED <<found, main, target, last_set_freq, handler, proxy, guard>>
    BY <1>5, Zenon DEF MainWrites, MainRuns
  <2>2. main # "idle"
    BY <2>1, Zenon DEF FreqInv, Saved
  <2>3. handler = "none" /\ main = "exit" /\ guard \notin {"restoring", "done"} =>
          Restoring(policy', found, Tail(todo))
    BY <1>0, <2>1, RestoreWrite, Zenon DEF FreqInv, MainAlone
  <2>4. handler = "none" /\ main = "set" => Setting(policy', target, Tail(todo))
    BY <1>0, <2>1, SetWrite, Zenon DEF FreqInv, MainAlone
  <2>5. handler = "none" /\ main = "init" =>
          Tail(todo) = <<>> /\ policy'.scaling_governor = "userspace"
    <3> SUFFICES ASSUME handler = "none", main = "init"
                 PROVE  Tail(todo) = <<>> /\ policy'.scaling_governor = "userspace"
      BY Zenon
    <3>1. todo = <<Write("scaling_governor", "userspace")>>
      BY <2>1, Zenon DEF FreqInv, MainAlone
    <3>2. Head(todo) = Write("scaling_governor", "userspace") /\ Tail(todo) = <<>>
      BY <3>1
    <3>3. QED
      BY <1>0, <2>1, <3>2, AcceptedGovernor, Zenon
  <2>6. QED
    BY <2>1, <2>2, <2>3, <2>4, <2>5, Zenon DEF MainAlone, PinnedWhenSkipped
<1>6. CASE MainReturns
  <2>1. /\ proxy = "alive" /\ todo = <<>> /\ handler' = handler /\ todo' = todo
        /\ UNCHANGED <<policy, found, guard>>
    BY <1>6, Zenon DEF MainReturns, MainRuns
  <2>2. CASE main = "init" /\ main' = "idle" /\ last_set_freq' = 0
    BY <2>1, <2>2, Zenon DEF FreqInv, MainAlone, PinnedWhenSkipped
  <2>3. CASE main = "set" /\ main' = "idle" /\ last_set_freq' = target
    <3>1. handler = "none" => Pinned(policy, target, 4)
      <4>1. Len(<<>>) = 0
        BY Zenon
      <4>2. handler = "none" => Pinned(policy, target, 4 - Len(<<>>))
        BY <2>1, <2>3, Zenon DEF FreqInv, MainAlone, Setting
      <4>3. 4 - Len(<<>>) = 4
        BY <4>1
      <4>4. QED
        BY <4>2, <4>3, Zenon
    <3>2. handler = "none" =>
            policy = [scaling_governor |-> "userspace", scaling_min_freq |-> target,
                      scaling_max_freq |-> target, scaling_setspeed |-> target]
      BY <1>0, <3>1 DEF Pinned, PolicyOK, Policies
    <3>3. QED
      BY <2>1, <2>3, <3>1, <3>2, Zenon DEF Pinned, MainAlone, PinnedWhenSkipped
  <2>4. CASE main = "exit" /\ proxy' = "dead" /\ UNCHANGED main
    BY <2>1, <2>4, Zenon DEF FreqInv, MainAlone, PinnedWhenSkipped
  <2>5. QED
    BY <1>6, <2>2, <2>3, <2>4, Zenon DEF MainReturns, Dies
<1>7. CASE freq_gov_signal_restore \/ HandlerWrites \/ HandlerRaises
  <2>1. handler' # "none"
    BY <1>7, Zenon DEF freq_gov_signal_restore, HandlerWrites, HandlerRaises
  <2>2. QED
    BY <2>1, Zenon DEF MainAlone, PinnedWhenSkipped
<1>8. CASE Kill \/ GuardSignalled \/ GuardCloses \/ GuardWakes
  BY <1>8, Zenon DEF Kill, Dies, GuardSignalled, GuardCloses, GuardWakes, FreqInv, MainAlone,
         PinnedWhenSkipped
<1>9. CASE GuardRestores
  <2>1. /\ guard' \in {"restoring", "done"} /\ proxy' = "dead"
    BY <1>9, Zenon DEF GuardRestores, FreqInv, GuardAlone
  <2>2. QED
    BY <2>1, Zenon DEF MainAlone, PinnedWhenSkipped
<1>10. CASE UNCHANGED vars
  BY <1>10, Zenon DEF vars, FreqInv, MainAlone, PinnedWhenSkipped
<1>11. QED
  BY <1>1, <1>2, <1>3, <1>4, <1>5, <1>6, <1>7, <1>8, <1>9, <1>10, Zenon DEF Next

-----------------------------------------------------------------------------
(* The theorems                                                            *)

\* The invariant of freq_gov.c's writes, under every interleaving of the main
\* thread, a signal handler and the guard.
THEOREM FreqInvariant == Spec => []FreqInv
<1>1. Init => FreqInv
  <2> SUFFICES ASSUME Init PROVE FreqInv
    BY Zenon
  <2>1. TypeOK
    BY BoundsAssumption DEF Init, TypeOK, Freqs
  <2>2. Saved /\ GuardAlone /\ MainAlone /\ PinnedWhenSkipped
    BY Zenon DEF Init, Saved, GuardAlone, MainAlone, PinnedWhenSkipped
  <2>3. QED
    BY <2>1, <2>2, Zenon DEF FreqInv
<1>2. FreqInv /\ [Next]_vars => FreqInv'
  BY TypeStep, SavedStep, GuardStep, MainStep, Zenon DEF FreqInv
<1>3. QED
  BY <1>1, <1>2, PTL DEF Spec

\* The policy keeps its type, and its bounds never cross.
THEOREM FreqTypes == Spec => []TypeOK
<1>1. FreqInv => TypeOK
  BY Zenon DEF FreqInv
<1>2. QED
  BY <1>1, FreqInvariant, PTL

\* The guard puts back the policy freq_gov_init() found, however the proxy died.
THEOREM GuardRestoresPolicy == Spec => []RestoredByGuard
<1>1. FreqInv => RestoredByGuard
  BY RestoreEnds, Zenon DEF FreqInv, GuardAlone, TypeOK, RestoredByGuard
<1>2. QED
  BY <1>1, FreqInvariant, PTL

\* exit() puts it back where there is no guard.
THEOREM ExitRestoresPolicy == Spec => []RestoredByExit
<1>1. FreqInv => RestoredByExit
  BY RestoreEnds, Zenon DEF FreqInv, MainAlone, TypeOK, RestoredByExit
<1>2. QED
  BY <1>1, FreqInvariant, PTL

\* A set_freq() that writes nothing finds the policy as it wants it.
THEOREM SkippedWritesAreDone == Spec => []PinnedWhenSkipped
<1>1. FreqInv => PinnedWhenSkipped
  BY Zenon DEF FreqInv
<1>2. QED
  BY <1>1, FreqInvariant, PTL
=============================================================================
