------------------------------ MODULE ProxyLoop ------------------------------
(***************************************************************************)
(* The attempts afl-cs-proxy makes at one request of AFL++ in the Stalker  *)
(* build (cs-proxy.c: __afl_next_testcase() and the loop in main()), with  *)
(* the frequency governor that decides about them: calibration ramps,      *)
(* retries of runs that overflowed, the forced run at the floor, and the   *)
(* hybrid mode's edge pass; and with what the ETMs are programmed for each *)
(* attempt.  What one attempt is made of is in TraceSession; here it is    *)
(* two steps, the start (up to SIGCONT) and the result (from SIGCHLD on).  *)
(***************************************************************************)
EXTENDS FreqGov, EtmConfig

CONSTANTS
  MaxExecs,  \* bound: executions the governor counts before AFL++ stops
  LoopFaults \* which calls may fail: "fork", "stop", "bb"

\* Only the Stalker build has a governor.
ASSUME LoopAssumption ==
  MaxExecs \in Nat /\ LoopFaults \subseteq {"fork", "stop", "bb"} /\ StalkerEtm = TRUE

VARIABLES
  pc,
  cov_type, decoding_on,
  needs_calibration, needs_bb_enable,
  fsrv_gone,      \* the forkserver no longer answers
  child_pid,      \* the child forked last
  fresh,          \* history: children forked and not yet resumed
  ramp_idx,       \* freq_gov_calibrate()'s i
  have_child,     \* calib_ctx.have_child
  did_calibrate,
  cur_repetition_num, forced_min_done, overflowed,
  ran,            \* history: the frequency of the last attempt
  attempts        \* history: attempts at this request, calibration apart

childVars == <<fsrv_gone, child_pid, fresh>>
rampVars == <<ramp_idx, have_child, did_calibrate>>
retryVars == <<cur_repetition_num, forced_min_done, overflowed, ran, attempts>>
modeVars == <<cov_type, decoding_on, needs_calibration, needs_bb_enable>>
vars == <<govVars, etmVars, pc, childVars, modeVars, rampVars, retryVars>>

current_freq_mode == IF cov_type = "edge" THEN "ADDR" ELSE "ATOM"
calibrated_mode == IF cov_type = "path" THEN "ATOM" ELSE "ADDR"

TypeOK ==
  /\ GovTypeOK /\ EtmTypeOK
  /\ pc \in {"idle", "calibrate", "calibrating", "calibrated", "prepare", "start",
             "run", "retry", "hybrid", "confirm", "confirming", "confirmed", "end",
             "dead"}
  /\ cov_type \in {"edge", "path", "hybrid"} /\ decoding_on \in BOOLEAN
  /\ needs_calibration \in BOOLEAN /\ needs_bb_enable \in BOOLEAN
  /\ fsrv_gone \in BOOLEAN /\ child_pid \in Pids \cup {NoCid} /\ fresh \in Nat
  /\ ramp_idx \in Index
  /\ have_child \in BOOLEAN /\ did_calibrate \in BOOLEAN
  /\ cur_repetition_num \in Nat /\ forced_min_done \in BOOLEAN
  /\ overflowed \in BOOLEAN
  /\ ran \in Nat /\ attempts \in Nat

\* main() has read the environment; the first testcase runs freq_gov_init().
Init ==
  /\ cov_type \in {"edge", "path", "hybrid"} /\ decoding_on \in BOOLEAN
  /\ freq_gov_init(cov_type = "edge")
  /\ pc = "idle"
  /\ needs_calibration \in BOOLEAN /\ needs_bb_enable = TRUE
  /\ EtmInit
  /\ fsrv_gone = FALSE /\ child_pid = NoCid /\ fresh = 0
  /\ ramp_idx = 0 /\ have_child = FALSE /\ did_calibrate = FALSE
  /\ cur_repetition_num = 0 /\ forced_min_done = FALSE /\ overflowed = FALSE
  /\ ran = 0 /\ attempts = 0

At(from, to) == pc = from /\ pc' = to
\* The child of an attempt runs, calibration apart.
Attempting == pc \in {"run", "confirming"}
MayFail(call) == call \in LoopFaults
\* trace_did_overflow() tells only if there is a decoder.
Outcomes == IF decoding_on THEN BOOLEAN ELSE {FALSE}

\* The forkserver hands over a child, stopped.
fork_fresh_child == ~fsrv_gone /\ child_pid' \in Pids /\ UNCHANGED fsrv_gone

\* An attempt starts on a new child, or on the one at hand.
start_and_resume(fork) ==
  /\ IF fork THEN fork_fresh_child /\ fresh' = fresh + 1 - 1
     ELSE fresh' = fresh - 1 /\ UNCHANGED <<fsrv_gone, child_pid>>
  /\ enable_etms(NoCid, child_pid')

\* An attempt is over: stop_trace(), then full speed.
stop_and_restore == disable_etms(FALSE) /\ freq_gov_restore_max

-----------------------------------------------------------------------------
(* __afl_next_testcase()                                                   *)

\* freq_gov_calibrate() starts at the floor.
BeginRamp(mode, child) ==
  /\ cur_idx' = [cur_idx EXCEPT ![mode] = 0]
  /\ ramp_idx' = 0 /\ have_child' = child
  /\ UNCHANGED evidenceVars

\* The request is passed on; the first input is calibrated on, unless the
\* governor is disabled.  Hybrid calibrates the edge pass.
NextTestcase ==
  /\ pc = "idle" /\ total_execs["ATOM"] + total_execs["ADDR"] < MaxExecs
  /\ fork_fresh_child /\ fresh' = fresh + 1
  /\ needs_calibration' = FALSE
  /\ did_calibrate' = (needs_calibration /\ g_enabled)
  /\ IF needs_calibration /\ cov_type = "hybrid" THEN trace_set_bb_mode(TRUE)
     ELSE UNCHANGED etmVars
  /\ IF did_calibrate' THEN BeginRamp(calibrated_mode, TRUE)
     ELSE UNCHANGED <<searchVars, ramp_idx, have_child>>
  /\ pc' = IF did_calibrate' THEN "calibrate"
           ELSE IF needs_calibration THEN "calibrated" ELSE "prepare"
  /\ UNCHANGED <<configVars, sysfsVars, force_min_pending, cov_type, decoding_on,
                 needs_bb_enable, retryVars>>

\* calibration_run_one_shot(): the first shot takes the child at hand.
CalibrationRun ==
  /\ At("calibrate", "calibrating")
  /\ set_freq(freq_table[ramp_idx])
  /\ start_and_resume(~have_child)
  /\ have_child' = FALSE
  /\ UNCHANGED <<configVars, searchVars, force_min_pending, modeVars, ramp_idx,
                 did_calibrate, retryVars>>

\* A shot that cannot fork counts as an overflow.
CalibrationForkFails ==
  /\ At("calibrate", "calibrated") /\ (MayFail("fork") \/ fsrv_gone) /\ ~have_child
  /\ set_freq(freq_table[ramp_idx])
  /\ fsrv_gone' = TRUE
  /\ UNCHANGED <<configVars, searchVars, force_min_pending, etmVars, child_pid,
                 fresh, modeVars, rampVars, retryVars>>

\* So does one whose child cannot be resumed or whose status cannot be read, for the
\* forkserver is gone, or whose stop_trace() fails: without a decoder it fetches.
\* The frequency stays where the shot had it.
CalibrationShotFails ==
  /\ At("calibrating", "calibrated") /\ MayFail("stop")
  /\ \/ fsrv_gone' = TRUE /\ UNCHANGED etmVars
     \/ ~decoding_on /\ disable_etms(FALSE) /\ UNCHANGED fsrv_gone
  /\ UNCHANGED <<govVars, child_pid, fresh, modeVars, rampVars, retryVars>>

\* The first overflow ends the ramp; a clean run moves the search up to its rung.
CalibrationResult ==
  /\ pc = "calibrating" /\ stop_and_restore
  /\ \E o \in Outcomes :
       /\ cur_idx' = [cur_idx EXCEPT ![calibrated_mode] = IF o THEN @ ELSE ramp_idx]
       /\ pc' = IF o \/ ramp_idx = freq_table_num - 1 THEN "calibrated" ELSE "calibrate"
       /\ ramp_idx' = IF pc' = "calibrate" THEN ramp_idx + 1 ELSE ramp_idx
  /\ UNCHANGED <<configVars, evidenceVars, force_min_pending, childVars, modeVars,
                 have_child, did_calibrate, retryVars>>

\* Hybrid's path pass starts where the edge pass settled.
CalibrationEnds ==
  /\ At("calibrated", "prepare")
  /\ IF cov_type = "hybrid"
       THEN freq_gov_copy_start("ATOM", "ADDR") /\ trace_set_bb_mode(FALSE)
       ELSE UNCHANGED <<searchVars, etmVars>>
  /\ UNCHANGED <<configVars, sysfsVars, force_min_pending, childVars, modeVars,
                 rampVars, retryVars>>

\* Edge coverage turns branch broadcast on, once, and ramps again with it.
EnableBroadcast ==
  /\ pc = "prepare"
  /\ IF needs_bb_enable /\ cov_type = "edge"
       THEN /\ needs_bb_enable' = FALSE /\ trace_set_bb_mode(TRUE)
            /\ IF did_calibrate THEN pc' = "calibrate" /\ BeginRamp("ADDR", FALSE)
               ELSE pc' = "start" /\ UNCHANGED <<searchVars, ramp_idx, have_child>>
       ELSE /\ pc' = "start"
            /\ UNCHANGED <<searchVars, ramp_idx, have_child, needs_bb_enable, etmVars>>
  /\ UNCHANGED <<configVars, sysfsVars, force_min_pending, childVars, cov_type,
                 decoding_on, needs_calibration, did_calibrate, retryVars>>

\* Mutant: the child the ramp consumed is not replaced.
StartWithoutReplacement ==
  /\ At("start", "run")
  /\ start_and_resume(FALSE)
  /\ freq_gov_apply(current_freq_mode)
  /\ cur_repetition_num' = 0 /\ forced_min_done' = FALSE /\ attempts' = 1
  /\ UNCHANGED <<configVars, searchVars, modeVars, rampVars, overflowed, ran>>

\* The attempt AFL++ is told of: on the child at hand, or on a replacement for
\* the one the ramp consumed.
StartTestcase ==
  /\ At("start", "run")
  /\ start_and_resume(did_calibrate)
  /\ freq_gov_apply(current_freq_mode)
  /\ cur_repetition_num' = 0 /\ forced_min_done' = FALSE /\ attempts' = 1
  /\ UNCHANGED <<configVars, searchVars, modeVars, rampVars, overflowed, ran>>

-----------------------------------------------------------------------------
(* The loop in main()                                                      *)

\* The retries are used up and the search is not at the floor.
ForceMin(mode) ==
  /\ overflowed' /\ mode = "ADDR" /\ ~forced_min_done
  /\ ~freq_gov_at_floor(mode)' /\ cur_repetition_num >= MaxRepetition

\* The governor is told; then a retry one step lower, or one at the floor, or on.
AttemptResult ==
  /\ pc = "run" /\ stop_and_restore
  /\ UNCHANGED <<configVars, childVars, modeVars, rampVars, attempts>>
  /\ overflowed' \in Outcomes /\ ran' = freq
  /\ LET mode  == current_freq_mode
         retry == freq_gov_should_retry(mode, overflowed', cur_repetition_num)
     IN  /\ freq_gov_on_result(mode, overflowed')
         /\ \/ /\ retry /\ pc' = "retry"
               /\ cur_repetition_num' = cur_repetition_num + 1
               /\ UNCHANGED <<forced_min_done, force_min_pending>>
            \/ /\ ~retry /\ ForceMin(mode) /\ pc' = "retry"
               /\ forced_min_done' = TRUE /\ force_min_pending' = TRUE
               /\ UNCHANGED cur_repetition_num
            \/ /\ ~retry /\ ~ForceMin(mode) /\ pc' = "hybrid"
               /\ UNCHANGED <<cur_repetition_num, forced_min_done, force_min_pending>>

\* A fresh child at the governor's frequency for the mode.
retry_child(mode) ==
  /\ start_and_resume(TRUE)
  /\ freq_gov_apply(mode)
  /\ attempts' = attempts + 1
  /\ UNCHANGED <<configVars, searchVars, modeVars, rampVars, cur_repetition_num,
                 forced_min_done, overflowed, ran>>

RetryAttempt == At("retry", "run") /\ retry_child(current_freq_mode)

\* Hybrid's verdict on the path map: an edge pass to confirm or to sample it, or
\* none.  A crash or a timeout keeps its path map.
HybridVerdict ==
  /\ pc = "hybrid"
  /\ \/ pc' = "end" /\ UNCHANGED etmVars
     \/ /\ cov_type = "hybrid" /\ decoding_on
        /\ pc' = "confirm" /\ trace_set_bb_mode(TRUE)
  /\ UNCHANGED <<govVars, childVars, modeVars, rampVars, retryVars>>

EdgePass == At("confirm", "confirming") /\ retry_child("ADDR")

EdgePassResult ==
  /\ At("confirming", "confirmed") /\ stop_and_restore
  /\ \E o \in BOOLEAN : freq_gov_on_result("ADDR", o)
  /\ UNCHANGED <<configVars, force_min_pending, childVars, modeVars, rampVars, retryVars>>

\* Mutant: the edge pass leaves branch broadcast on.
EdgePassLeavesBroadcast ==
  /\ At("confirmed", "end") /\ UNCHANGED etmVars
  /\ UNCHANGED <<govVars, childVars, modeVars, rampVars, retryVars>>

EdgePassEnds ==
  /\ At("confirmed", "end") /\ trace_set_bb_mode(FALSE)
  /\ UNCHANGED <<govVars, childVars, modeVars, rampVars, retryVars>>

EndTestcase ==
  /\ At("end", "idle")
  /\ UNCHANGED <<govVars, etmVars, childVars, modeVars, rampVars, retryVars>>

\* The proxy ends: a fork fails, the attempt cannot be resumed or stopped, or
\* trace_set_bb_mode() fails.
ProxyFails ==
  /\ \/ MayFail("stop") /\ Attempting
     \/ /\ MayFail("fork") \/ fsrv_gone
        /\ pc \in {"idle", "retry", "confirm"} \/ (pc = "start" /\ did_calibrate)
     \/ /\ MayFail("bb")
        /\ \/ cov_type = "hybrid" /\ pc \in {"hybrid", "calibrated", "confirmed"}
           \/ cov_type = "hybrid" /\ pc = "idle" /\ needs_calibration
           \/ cov_type = "edge" /\ pc = "prepare" /\ needs_bb_enable
  /\ pc' = "dead"
  /\ UNCHANGED <<govVars, etmVars, childVars, modeVars, rampVars, retryVars>>

Next ==
  \/ NextTestcase \/ CalibrationRun \/ CalibrationForkFails \/ CalibrationShotFails
  \/ CalibrationResult
  \/ CalibrationEnds \/ EnableBroadcast \/ StartTestcase
  \/ AttemptResult \/ RetryAttempt \/ HybridVerdict
  \/ EdgePass \/ EdgePassResult \/ EdgePassEnds \/ EndTestcase \/ ProxyFails

Spec == Init /\ [][Next]_vars

-----------------------------------------------------------------------------
(* Properties                                                              *)

Running == Attempting \/ pc = "calibrating"
attempt_mode == IF pc = "confirming" THEN "ADDR" ELSE current_freq_mode

\* An attempt runs at the frequency the governor chose for its mode, the forced
\* one at the floor, and nothing is left throttled after it: the cache of
\* set_freq() and the pending force_min never make an attempt run at another.
FreqInStep ==
  g_enabled =>
    /\ Attempting => freq = IF forced_min_done /\ pc = "run" THEN freq_table[0]
                            ELSE freq_table[cur_idx[attempt_mode]]
    /\ pc = "calibrating" => freq = freq_table[ramp_idx]
    /\ pc \in {"retry", "hybrid", "confirm", "confirmed", "end"} => freq = system_max_cpufreq

\* While a child runs, the ETM is started, was started within this window of
\* trace (its only A-Sync), matches this child and no other if it filters, and
\* broadcasts branches exactly if the decoder expects it.
EtmInStep ==
  Running =>
    /\ etm.on /\ synced
    /\ etm.ctxt = pid_filter /\ (pid_filter => etm.cid = child_pid)
    /\ etm.bb = current_bb_mode /\ decoder_bb = current_bb_mode

\* Branch broadcast is on in the attempts whose map is an edge map, and only in
\* these: the passes that turn it on for a while turn it off again.
BroadcastForMode == Attempting => (current_bb_mode <=> attempt_mode = "ADDR")

\* The forkserver holds one stopped child at most, and none once it was resumed:
\* the ramps take the child of the request and replace it.
ChildPerAttempt ==
  /\ fresh \in {0, 1}
  /\ Running \/ pc \in {"idle", "retry", "hybrid", "confirm", "confirmed", "end"} => fresh = 0

\* A request takes so many attempts at most.
AttemptsBounded ==
  attempts <= CASE cov_type = "path" -> 1
                [] cov_type = "hybrid" -> 2
                [] OTHER -> MaxRepetition + 2

\* A retry of a run that overflowed runs at a lower frequency.
LowerOnRetry == [][RetryAttempt => freq' < ran]_vars

\* The settled frequency of the report is a rung of the table without clamping.
SettledInTable == \A m \in Modes : stable_nums[m] > 0 => OptIdx(m) \in Index

\* A disabled governor never touches the frequency.
GovernorOff == [][~g_enabled => UNCHANGED freq]_vars

\* A run that is reported as overflowed was the last resort, at the lowest rung.
OverflowEndsAtFloor ==
  pc = "end" /\ cov_type = "edge" /\ g_enabled /\ overflowed => ran = freq_table[0]
=============================================================================
