--------------------------- MODULE ProxyLoopProofs ---------------------------
(***************************************************************************)
(* For every table of frequencies, every bound and every fault: frequency, *)
(* ETM and children are in step with the attempts at a request, and the    *)
(* attempts are bounded.                                                   *)
(***************************************************************************)
EXTENDS ProxyLoop, Integers, TLAPS

-----------------------------------------------------------------------------
(* The parts of the inductive invariant                                    *)

\* Where each mode of the proxy can be.
Course ==
  /\ pc \in {"calibrate", "calibrating"} => g_enabled /\ did_calibrate
  /\ pc = "calibrating" => ~have_child
  /\ pc = "calibrated" => did_calibrate = g_enabled
  /\ pc = "calibrated" /\ did_calibrate => ~have_child
  /\ did_calibrate => g_enabled
  /\ pc = "retry" => g_enabled /\ cov_type = "edge"
  /\ pc \in {"confirm", "confirming", "confirmed"} => cov_type = "hybrid"
  /\ fsrv_gone => /\ pc \in {"calibrate", "calibrated", "prepare", "start", "dead"}
                  /\ pc \in {"calibrated", "prepare", "start"} => did_calibrate
                  /\ pc = "calibrate" => ~have_child

\* The forkserver's stopped children.
Children ==
  /\ fresh \in {0, 1}
  /\ pc \in {"idle", "calibrating", "run", "retry", "hybrid", "confirm",
             "confirming", "confirmed", "end"} => fresh = 0
  /\ pc = "calibrate" => fresh = IF have_child THEN 1 ELSE 0
  /\ pc \in {"calibrated", "prepare", "start"} => fresh = IF did_calibrate THEN 0 ELSE 1

\* The ETM, started or not, against what was asked for.
Etm ==
  /\ decoder_bb = current_bb_mode
  /\ ~is_first_trace => etm.bb = current_bb_mode /\ etm.ctxt = pid_filter
  /\ Running => ~is_first_trace /\ etm.on /\ synced /\ (pid_filter => etm.cid = child_pid)
  /\ ~Running /\ ~is_first_trace /\ ~fsrv_gone /\ pc # "dead" => ~etm.on
  /\ pc \notin {"idle", "dead"} => child_pid \in Pids

\* Which passes have branch broadcast.
Broadcast ==
  /\ cov_type = "path" => ~current_bb_mode
  /\ cov_type = "edge" => current_bb_mode = ~needs_bb_enable
  /\ cov_type = "edge" /\ pc \in {"start", "run", "retry", "hybrid", "end"} => ~needs_bb_enable
  /\ cov_type = "hybrid" /\ pc # "dead" =>
       (current_bb_mode <=> pc \in {"calibrate", "calibrating", "calibrated", "confirm",
                                    "confirming", "confirmed"})

\* The attempts made, against the loop's counters.
MaxAttempts ==
  CASE cov_type = "path" -> 1 [] cov_type = "hybrid" -> 2 [] OTHER -> MaxRepetition + 2
Forced == IF forced_min_done THEN 1 ELSE 0
Attempts ==
  /\ attempts <= MaxAttempts
  /\ pc \in {"run", "retry"} =>
       /\ cur_repetition_num <= MaxRepetition
       /\ forced_min_done => cur_repetition_num = MaxRepetition
  /\ pc = "run" => attempts = 1 + cur_repetition_num + Forced
  /\ pc = "retry" => attempts = cur_repetition_num + Forced
  /\ pc \in {"run", "hybrid", "confirm"} /\ cov_type # "edge" => attempts = 1
  /\ pc = "run" /\ cov_type # "edge" => ~forced_min_done

\* The frequency, the cache of it and the request for a run at the floor.
Frequency ==
  /\ last_set_freq # 0 => freq = last_set_freq
  /\ pc = "retry" => force_min_pending = forced_min_done
  /\ pc \notin {"retry", "dead"} => ~force_min_pending
  /\ FreqInStep
  /\ pc = "retry" =>
       (IF forced_min_done THEN freq_table[0] ELSE freq_table[cur_idx["ADDR"]]) < ran

\* The types, by concern; EtmTypeOK is that of EtmConfig.
SearchTypeOK ==
  /\ cur_idx \in [Modes -> Index]
  /\ opt_idx_sum \in [Modes -> Nat] /\ stable_nums \in [Modes -> Nat]
  /\ non_overflow_nums \in [Modes -> Nat]
  /\ total_execs \in [Modes -> Nat] /\ total_overflow_execs \in [Modes -> Nat]
  /\ freq_interval \in MinInterval..MaxInterval

Flags ==
  /\ g_enabled \in BOOLEAN /\ addr_only_mode \in BOOLEAN /\ force_min_pending \in BOOLEAN
  /\ decoding_on \in BOOLEAN /\ needs_calibration \in BOOLEAN /\ needs_bb_enable \in BOOLEAN
  /\ fsrv_gone \in BOOLEAN /\ have_child \in BOOLEAN /\ did_calibrate \in BOOLEAN
  /\ forced_min_done \in BOOLEAN /\ overflowed \in BOOLEAN
Places ==
  /\ last_set_freq \in Nat /\ freq \in Nat
  /\ pc \in {"idle", "calibrate", "calibrating", "calibrated", "prepare", "start",
             "run", "retry", "hybrid", "confirm", "confirming", "confirmed", "end",
             "dead"}
  /\ cov_type \in {"edge", "path", "hybrid"}
  /\ child_pid \in Pids \cup {NoCid}
  /\ ramp_idx \in Index /\ cur_repetition_num \in Nat
  /\ ran \in Nat /\ attempts \in Nat

\* The windows were recorded at positions of the table.
Settled == \A m \in Modes : opt_idx_sum[m] <= stable_nums[m] * (freq_table_num - 1)

LoopInv ==
  TypeOK /\ Course /\ Children /\ Etm /\ Broadcast /\ Attempts /\ Frequency /\ Settled

-----------------------------------------------------------------------------
(* Every step preserves the attempts, the children and the ETM             *)

\* What the loop in main() does after an attempt: a retry, a retry at the floor,
\* or on.
LEMMA RetryOrOn ==
  ASSUME AttemptResult
  PROVE  /\ pc = "run"
         /\ \/ /\ pc' = "retry" /\ cov_type = "edge" /\ g_enabled /\ overflowed'
               /\ \/ /\ cur_idx["ADDR"] > 0 /\ cur_repetition_num < MaxRepetition
                     /\ cur_repetition_num' = cur_repetition_num + 1
                     /\ UNCHANGED <<forced_min_done, force_min_pending>>
                  \/ /\ cur_idx'["ADDR"] # 0 /\ cur_repetition_num >= MaxRepetition
                     /\ ~forced_min_done /\ forced_min_done' /\ force_min_pending'
                     /\ UNCHANGED cur_repetition_num
            \/ /\ pc' = "hybrid"
               /\ UNCHANGED <<cur_repetition_num, forced_min_done, force_min_pending>>
<1> DEFINE mode == current_freq_mode
           retry == freq_gov_should_retry(mode, overflowed', cur_repetition_num)
<1>1. mode = "ADDR" => cov_type = "edge"
  BY Zenon DEF current_freq_mode
<1>2. UNCHANGED <<g_enabled, cov_type>>
  BY Zenon DEF AttemptResult, configVars, modeVars
<1>3. retry => mode = "ADDR" /\ g_enabled /\ overflowed' /\ cur_idx["ADDR"] > 0
                 /\ cur_repetition_num < MaxRepetition
  BY Zenon DEF freq_gov_should_retry
<1>4. ForceMin(mode) => /\ mode = "ADDR" /\ g_enabled /\ overflowed' /\ cur_idx'["ADDR"] # 0
                        /\ ~forced_min_done /\ cur_repetition_num >= MaxRepetition
  BY <1>2, Zenon DEF ForceMin, freq_gov_at_floor, current_freq_mode
<1>5. QED
  <2> HIDE DEF mode, retry
  <2>1. /\ pc = "run"
        /\ \/ /\ retry /\ pc' = "retry"
              /\ cur_repetition_num' = cur_repetition_num + 1
              /\ UNCHANGED <<forced_min_done, force_min_pending>>
           \/ /\ ForceMin(mode) /\ pc' = "retry"
              /\ forced_min_done' = TRUE /\ force_min_pending' = TRUE
              /\ UNCHANGED cur_repetition_num
           \/ /\ pc' = "hybrid"
              /\ UNCHANGED <<cur_repetition_num, forced_min_done, force_min_pending>>
    BY Zenon DEF AttemptResult, mode, retry
  <2>2. QED
    BY <1>1, <1>3, <1>4, <2>1, Zenon

\* start_trace(): the ETM runs, newly started, for this child, with the branch
\* broadcast that was asked for.
LEMMA EtmsEnabled ==
  ASSUME EtmTypeOK, NEW c \in Pids, enable_etms(NoCid, c),
         ~is_first_trace => etm.bb = current_bb_mode /\ etm.ctxt = pid_filter /\ ~etm.on
  PROVE  /\ EtmTypeOK' /\ ~is_first_trace'
         /\ UNCHANGED <<pid_filter, current_bb_mode, decoder_bb>>
         /\ etm'.on /\ synced' /\ etm'.bb = current_bb_mode /\ etm'.ctxt = pid_filter
         /\ pid_filter => etm'.cid = c
<1> USE LoopAssumption, EtmAssumption DEF EtmTypeOK, enable_etms
<1>1. CASE is_first_trace
  <2>1. etm' = [on |-> TRUE, bb |-> current_bb_mode, cid |-> c, ctxt |-> pid_filter]
    BY <1>1, Zenon DEF enable_trace, configure_trace, configure_etmv4_addr_range_cid, init_etm,
       set_etm_bb_mode
  <2>2. QED
    BY <1>1, <2>1, Zenon
<1>2. CASE ~is_first_trace
  <2>1. etm' = [etm EXCEPT !.on = TRUE, !.cid = IF pid_filter THEN c ELSE @]
    BY <1>2, Zenon DEF enable_trace_sinks_only, etm_cycled_per_window
  <2>2. QED
    BY <1>2, <2>1, Zenon
<1>3. QED
  BY <1>1, <1>2, Zenon

\* stop_trace(): the ETM is stopped and keeps its configuration.
LEMMA EtmsDisabled ==
  ASSUME EtmTypeOK, disable_etms(FALSE)
  PROVE  /\ EtmTypeOK' /\ ~etm'.on
         /\ etm'.bb = etm.bb /\ etm'.ctxt = etm.ctxt
         /\ UNCHANGED <<pid_filter, is_first_trace, current_bb_mode, decoder_bb>>
BY LoopAssumption, Zenon DEF EtmTypeOK, disable_etms, disable_trace,
   disable_trace_sinks_only, etm_cycled_per_window

\* trace_set_bb_mode(): the next window configures the ETM anew.
LEMMA BroadcastSet ==
  ASSUME EtmTypeOK, NEW bb \in BOOLEAN, trace_set_bb_mode(bb)
  PROVE  /\ EtmTypeOK' /\ is_first_trace'
         /\ current_bb_mode' = bb /\ decoder_bb' = bb /\ UNCHANGED pid_filter
BY LoopAssumption, Zenon DEF EtmTypeOK, trace_set_bb_mode, set_etm_bb_mode

\* Every step keeps the course.
LEMMA CourseStep ==
  ASSUME TypeOK, Course, [Next]_vars
  PROVE  Course'
<1> USE DEF TypeOK, GovTypeOK, Course, configVars, modeVars, childVars,
        rampVars, retryVars, govVars
<1>1. CASE NextTestcase
  BY <1>1, Zenon DEF NextTestcase, BeginRamp, fork_fresh_child
<1>2. CASE CalibrationRun
  BY <1>2, Zenon DEF CalibrationRun, At, start_and_resume, fork_fresh_child
<1>3. CASE CalibrationForkFails
  BY <1>3, Zenon DEF CalibrationForkFails, At
<1>4. CASE CalibrationResult
  BY <1>4, Zenon DEF CalibrationResult
<1>5. CASE CalibrationEnds
  BY <1>5, Zenon DEF CalibrationEnds, At
<1>6. CASE EnableBroadcast
  BY <1>6, Zenon DEF EnableBroadcast, BeginRamp
<1>7. CASE StartTestcase
  BY <1>7, Zenon DEF StartTestcase, At, start_and_resume, fork_fresh_child
<1>8. CASE AttemptResult
  BY <1>8, RetryOrOn, Zenon DEF AttemptResult
<1>9. CASE RetryAttempt
  BY <1>9, Zenon DEF RetryAttempt, At, retry_child, start_and_resume, fork_fresh_child
<1>10. CASE HybridVerdict
  BY <1>10, Zenon DEF HybridVerdict
<1>11. CASE EdgePass
  BY <1>11, Zenon DEF EdgePass, At, retry_child, start_and_resume, fork_fresh_child
<1>12. CASE EdgePassResult
  BY <1>12, Zenon DEF EdgePassResult, At
<1>13. CASE EdgePassEnds
  BY <1>13, Zenon DEF EdgePassEnds, At
<1>14. CASE EndTestcase
  BY <1>14, Zenon DEF EndTestcase, At
<1>15. CASE ProxyFails
  BY <1>15, Zenon DEF ProxyFails
<1>16. CASE UNCHANGED vars
  BY <1>16, Zenon DEF vars
<1>17. CASE CalibrationShotFails
  BY <1>17, Zenon DEF CalibrationShotFails, At
<1>18. QED
  BY <1>1, <1>2, <1>3, <1>4, <1>5, <1>6, <1>7, <1>8, <1>9, <1>10, <1>11, <1>12,
     <1>13, <1>14, <1>15, <1>16, <1>17, Zenon DEF Next

\* Every step keeps one stopped child at most: forks and resumes match.
LEMMA ChildrenStep ==
  ASSUME TypeOK, Course, Children, [Next]_vars
  PROVE  Children'
<1> USE DEF Course, Children, configVars, modeVars, childVars, rampVars,
        retryVars, govVars
<1>1. CASE NextTestcase
  BY <1>1 DEF NextTestcase, BeginRamp
<1>2. CASE CalibrationRun
  BY <1>2 DEF CalibrationRun, At, start_and_resume
<1>3. CASE CalibrationForkFails
  BY <1>3, Zenon DEF CalibrationForkFails, At
<1>4. CASE CalibrationResult
  BY <1>4, Zenon DEF CalibrationResult
<1>5. CASE CalibrationEnds
  BY <1>5, Zenon DEF CalibrationEnds, At
<1>6. CASE EnableBroadcast
  BY <1>6, Zenon DEF EnableBroadcast, BeginRamp
<1>7. CASE StartTestcase
  BY <1>7 DEF StartTestcase, At, start_and_resume
<1>8. CASE AttemptResult
  BY <1>8, RetryOrOn, Zenon DEF AttemptResult
<1>9. CASE RetryAttempt
  BY <1>9 DEF RetryAttempt, At, retry_child, start_and_resume
<1>10. CASE HybridVerdict
  BY <1>10, Zenon DEF HybridVerdict
<1>11. CASE EdgePass
  BY <1>11 DEF EdgePass, At, retry_child, start_and_resume
<1>12. CASE EdgePassResult
  BY <1>12, Zenon DEF EdgePassResult, At
<1>13. CASE EdgePassEnds
  BY <1>13, Zenon DEF EdgePassEnds, At
<1>14. CASE EndTestcase
  BY <1>14, Zenon DEF EndTestcase, At
<1>15. CASE ProxyFails
  BY <1>15, Zenon DEF ProxyFails
<1>16. CASE UNCHANGED vars
  BY <1>16, Zenon DEF vars
<1>17. CASE CalibrationShotFails
  BY <1>17, Zenon DEF CalibrationShotFails, At
<1>18. QED
  BY <1>1, <1>2, <1>3, <1>4, <1>5, <1>6, <1>7, <1>8, <1>9, <1>10, <1>11, <1>12,
     <1>13, <1>14, <1>15, <1>16, <1>17, Zenon DEF Next

\* An attempt that starts finds the ETM stopped, and leaves it set up for the child.
LEMMA Started ==
  ASSUME TypeOK, Etm, ~Running, ~fsrv_gone, pc # "dead", NEW fork \in BOOLEAN, start_and_resume(fork),
         fork \/ child_pid \in Pids, Running'
  PROVE  Etm' /\ EtmTypeOK'
<1>1. child_pid' \in Pids /\ enable_etms(NoCid, child_pid')
  BY Zenon DEF start_and_resume, fork_fresh_child
<1>2. EtmTypeOK /\ (~is_first_trace
        => etm.bb = current_bb_mode /\ etm.ctxt = pid_filter /\ ~etm.on)
  BY Zenon DEF TypeOK, Etm
<1>3. /\ EtmTypeOK' /\ ~is_first_trace'
      /\ UNCHANGED <<pid_filter, current_bb_mode, decoder_bb>>
      /\ etm'.on /\ synced' /\ etm'.bb = current_bb_mode /\ etm'.ctxt = pid_filter
      /\ pid_filter => etm'.cid = child_pid'
  BY <1>1, <1>2, EtmsEnabled, Zenon
<1>4. QED
  BY <1>1, <1>3, Zenon DEF Etm

\* An attempt that ends leaves the ETM stopped, and set up for the next.
LEMMA Stopped ==
  ASSUME TypeOK, Etm, Running, ~Running', stop_and_restore, UNCHANGED child_pid
  PROVE  Etm' /\ EtmTypeOK'
<1>1. EtmTypeOK /\ disable_etms(FALSE)
  BY Zenon DEF TypeOK, stop_and_restore
<1>2. /\ EtmTypeOK' /\ ~etm'.on /\ etm'.bb = etm.bb /\ etm'.ctxt = etm.ctxt
      /\ UNCHANGED <<pid_filter, is_first_trace, current_bb_mode, decoder_bb>>
  BY <1>1, EtmsDisabled, Zenon
<1>3. child_pid \in Pids
  BY Zenon DEF Etm, Running, Attempting
<1>4. QED
  BY <1>2, <1>3, Zenon DEF Etm

\* A change of the branch broadcast mode between two attempts keeps Etm.
LEMMA ModeSet ==
  ASSUME TypeOK, NEW bb \in BOOLEAN, trace_set_bb_mode(bb), ~Running',
         pc' \notin {"idle", "dead"} => child_pid' \in Pids
  PROVE  Etm' /\ EtmTypeOK'
<1>1. EtmTypeOK' /\ is_first_trace' /\ decoder_bb' = current_bb_mode'
  BY BroadcastSet, Zenon DEF TypeOK
<1>2. QED
  BY <1>1, Zenon DEF Etm

\* Every step keeps the ETM in step with what was asked for.
LEMMA EtmStep ==
  ASSUME TypeOK, Course, Children, Etm, [Next]_vars
  PROVE  (Etm /\ EtmTypeOK)'
<1> USE DEF Course, Children, Running, Attempting, TypeOK, etmVars,
        configVars, modeVars, childVars, rampVars, retryVars, govVars
<1>1. CASE NextTestcase
  <2>1. child_pid' \in Pids /\ ~Running /\ ~Running' /\ ~fsrv_gone /\ pc # "dead"
    BY <1>1, Zenon DEF NextTestcase, fork_fresh_child
  <2>2. CASE trace_set_bb_mode(TRUE)
    BY <2>1, <2>2, ModeSet, Zenon
  <2>3. CASE UNCHANGED etmVars
    BY <2>1, <2>3 DEF Etm, EtmTypeOK
  <2>4. QED
    BY <1>1, <2>2, <2>3, Zenon DEF NextTestcase
<1>2. CASE CalibrationRun
  <2>1. ~Running /\ Running' /\ start_and_resume(~have_child) /\ (~have_child \/ child_pid \in Pids)
    BY <1>2, Zenon DEF CalibrationRun, At, Etm
  <2>2. ~fsrv_gone /\ pc # "dead"
    BY <1>2, <2>1, Zenon DEF CalibrationRun, At, start_and_resume, fork_fresh_child
  <2>3. QED
    BY <2>1, <2>2, Started, Zenon
<1>3. CASE CalibrationForkFails
  BY <1>3 DEF CalibrationForkFails, At, Etm, EtmTypeOK
<1>4. CASE CalibrationResult
  <2>1. Running /\ ~Running' /\ stop_and_restore /\ UNCHANGED child_pid
    BY <1>4, Zenon DEF CalibrationResult
  <2>2. QED
    BY <2>1, Stopped, Zenon
<1>5. CASE CalibrationEnds
  <2>1. UNCHANGED childVars /\ pc' = "prepare" /\ pc = "calibrated"
    BY <1>5, Zenon DEF CalibrationEnds, At
  <2>2. CASE trace_set_bb_mode(FALSE)
    BY <2>1, <2>2, ModeSet, Zenon DEF Etm
  <2>3. CASE UNCHANGED etmVars
    BY <2>1, <2>3 DEF Etm, EtmTypeOK
  <2>4. QED
    BY <1>5, <2>2, <2>3, Zenon DEF CalibrationEnds
<1>6. CASE EnableBroadcast
  <2>1. UNCHANGED childVars /\ pc = "prepare" /\ pc' \in {"calibrate", "start"}
    BY <1>6, Zenon DEF EnableBroadcast
  <2>2. CASE trace_set_bb_mode(TRUE)
    BY <2>1, <2>2, ModeSet, Zenon DEF Etm
  <2>3. CASE UNCHANGED etmVars /\ pc' = "start"
    BY <2>1, <2>3 DEF Etm, EtmTypeOK
  <2>4. QED
    BY <1>6, <2>2, <2>3, Zenon DEF EnableBroadcast
<1>7. CASE StartTestcase
  <2>1. ~Running /\ Running' /\ start_and_resume(did_calibrate) /\ (did_calibrate \/ child_pid \in Pids)
    BY <1>7, Zenon DEF StartTestcase, At, Etm
  <2>2. ~fsrv_gone /\ pc # "dead"
    BY <1>7, <2>1, Zenon DEF StartTestcase, At, start_and_resume, fork_fresh_child
  <2>3. QED
    BY <2>1, <2>2, Started, Zenon
<1>8. CASE AttemptResult
  <2>1. Running /\ ~Running' /\ stop_and_restore /\ UNCHANGED child_pid
    BY <1>8, RetryOrOn, Zenon DEF AttemptResult
  <2>2. QED
    BY <2>1, Stopped, Zenon
<1>9. CASE RetryAttempt
  <2>1. ~Running /\ Running' /\ start_and_resume(TRUE) /\ (TRUE \/ child_pid \in Pids)
    BY <1>9, Zenon DEF RetryAttempt, At, retry_child
  <2>2. ~fsrv_gone /\ pc # "dead"
    BY <1>9, <2>1, Zenon DEF RetryAttempt, At, start_and_resume, fork_fresh_child
  <2>3. QED
    BY <2>1, <2>2, Started, Zenon
<1>10. CASE HybridVerdict
  <2>1. UNCHANGED childVars /\ pc = "hybrid" /\ pc' \in {"end", "confirm"}
    BY <1>10, Zenon DEF HybridVerdict
  <2>2. CASE trace_set_bb_mode(TRUE)
    BY <2>1, <2>2, ModeSet, Zenon DEF Etm
  <2>3. CASE UNCHANGED etmVars
    BY <2>1, <2>3 DEF Etm, EtmTypeOK
  <2>4. QED
    BY <1>10, <2>2, <2>3, Zenon DEF HybridVerdict
<1>11. CASE EdgePass
  <2>1. ~Running /\ Running' /\ start_and_resume(TRUE) /\ (TRUE \/ child_pid \in Pids)
    BY <1>11, Zenon DEF EdgePass, At, retry_child
  <2>2. ~fsrv_gone /\ pc # "dead"
    BY <1>11, <2>1, Zenon DEF EdgePass, At, start_and_resume, fork_fresh_child
  <2>3. QED
    BY <2>1, <2>2, Started, Zenon
<1>12. CASE EdgePassResult
  <2>1. Running /\ ~Running' /\ stop_and_restore /\ UNCHANGED child_pid
    BY <1>12, Zenon DEF EdgePassResult, At
  <2>2. QED
    BY <2>1, Stopped, Zenon
<1>13. CASE EdgePassEnds
  <2>1. UNCHANGED childVars /\ pc' = "end" /\ pc = "confirmed" /\ trace_set_bb_mode(FALSE)
    BY <1>13, ZenonT(40) DEF EdgePassEnds, At
  <2>2. QED
    BY <2>1, ModeSet, Zenon DEF Etm
<1>14. CASE EndTestcase
  BY <1>14 DEF EndTestcase, At, Etm, EtmTypeOK
<1>15. CASE ProxyFails
  BY <1>15 DEF ProxyFails, Etm, EtmTypeOK
<1>16. CASE UNCHANGED vars
  BY <1>16, SMTT(30) DEF vars, Etm, EtmTypeOK
<1>17. CASE CalibrationShotFails
  <2>1. Running /\ ~Running' /\ UNCHANGED child_pid /\ pc' = "calibrated"
    BY <1>17, Zenon DEF CalibrationShotFails, At
  <2>2. CASE fsrv_gone' /\ UNCHANGED etmVars
    BY <2>1, <2>2 DEF Etm, EtmTypeOK
  <2>3. CASE disable_etms(FALSE)
    <3>1. /\ EtmTypeOK' /\ ~etm'.on /\ etm'.bb = etm.bb /\ etm'.ctxt = etm.ctxt
          /\ UNCHANGED <<pid_filter, is_first_trace, current_bb_mode, decoder_bb>>
      BY <2>3, EtmsDisabled, Zenon
    <3>2. QED
      BY <2>1, <3>1, Zenon DEF Etm
  <2>4. QED
    BY <1>17, <2>2, <2>3, Zenon DEF CalibrationShotFails
<1>18. QED
  BY <1>1, <1>2, <1>3, <1>4, <1>5, <1>6, <1>7, <1>8, <1>9, <1>10, <1>11, <1>12,
     <1>13, <1>14, <1>15, <1>16, <1>17, Zenon DEF Next

\* Every step keeps the branch broadcast to the passes it is meant for.
LEMMA BroadcastStep ==
  ASSUME TypeOK, Course, Broadcast, [Next]_vars
  PROVE  Broadcast'
<1> USE DEF Course, Broadcast, TypeOK, EtmTypeOK, etmVars, configVars,
        modeVars, childVars, rampVars, retryVars, govVars
<1>1. CASE NextTestcase
  BY <1>1, Zenon DEF NextTestcase, BeginRamp, trace_set_bb_mode
<1>2. CASE CalibrationRun
  BY <1>2, Zenon DEF CalibrationRun, At, start_and_resume, enable_etms
<1>3. CASE CalibrationForkFails
  BY <1>3, Zenon DEF CalibrationForkFails, At
<1>4. CASE CalibrationResult
  BY <1>4, Zenon DEF CalibrationResult, stop_and_restore, disable_etms
<1>5. CASE CalibrationEnds
  BY <1>5, Zenon DEF CalibrationEnds, At, trace_set_bb_mode
<1>6. CASE EnableBroadcast
  BY <1>6, ZenonT(40) DEF EnableBroadcast, BeginRamp, trace_set_bb_mode
<1>7. CASE StartTestcase
  BY <1>7, Zenon DEF StartTestcase, At, start_and_resume, enable_etms
<1>8. CASE AttemptResult
  BY <1>8, RetryOrOn, Zenon DEF AttemptResult, stop_and_restore, disable_etms
<1>9. CASE RetryAttempt
  BY <1>9, Zenon DEF RetryAttempt, At, retry_child, start_and_resume, enable_etms
<1>10. CASE HybridVerdict
  <2>1. pc = "hybrid" /\ UNCHANGED <<cov_type, needs_bb_enable>>
    BY <1>10, Zenon DEF HybridVerdict
  <2>2. CASE pc' = "end" /\ UNCHANGED current_bb_mode
    BY <2>1, <2>2, Zenon
  <2>3. CASE cov_type = "hybrid" /\ pc' = "confirm" /\ trace_set_bb_mode(TRUE)
    BY <2>1, <2>3, Zenon DEF trace_set_bb_mode
  <2>4. QED
    BY <1>10, <2>2, <2>3, Zenon DEF HybridVerdict
<1>11. CASE EdgePass
  BY <1>11, Zenon DEF EdgePass, At, retry_child, start_and_resume, enable_etms
<1>12. CASE EdgePassResult
  BY <1>12, Zenon DEF EdgePassResult, At, stop_and_restore, disable_etms
<1>13. CASE EdgePassEnds
  BY <1>13, Zenon DEF EdgePassEnds, At, trace_set_bb_mode
<1>14. CASE EndTestcase
  BY <1>14, Zenon DEF EndTestcase, At
<1>15. CASE ProxyFails
  BY <1>15, Zenon DEF ProxyFails
<1>16. CASE UNCHANGED vars
  BY <1>16, SMTT(30) DEF vars
<1>17. CASE CalibrationShotFails
  <2>1. /\ UNCHANGED <<cov_type, needs_bb_enable, current_bb_mode>>
        /\ pc = "calibrating" /\ pc' = "calibrated"
    BY <1>17, Zenon DEF CalibrationShotFails, At, disable_etms
  <2>2. QED
    BY <2>1, Zenon
<1>18. QED
  BY <1>1, <1>2, <1>3, <1>4, <1>5, <1>6, <1>7, <1>8, <1>9, <1>10, <1>11, <1>12,
     <1>13, <1>14, <1>15, <1>16, <1>17, ZenonT(40) DEF Next

\* Every step keeps the attempts within the loop's counters.
LEMMA AttemptsStep ==
  ASSUME TypeOK, Course, Attempts, [Next]_vars
  PROVE  Attempts'
<1> USE DEF Course, Attempts, MaxAttempts, Forced, TypeOK, configVars,
        modeVars, childVars, rampVars, retryVars, govVars
<1>1. CASE NextTestcase
  BY <1>1, Zenon DEF NextTestcase, BeginRamp
<1>2. CASE CalibrationRun
  BY <1>2, Zenon DEF CalibrationRun, At
<1>3. CASE CalibrationForkFails
  BY <1>3, Zenon DEF CalibrationForkFails, At
<1>4. CASE CalibrationResult
  BY <1>4, Zenon DEF CalibrationResult
<1>5. CASE CalibrationEnds
  BY <1>5, Zenon DEF CalibrationEnds, At
<1>6. CASE EnableBroadcast
  BY <1>6, Zenon DEF EnableBroadcast, BeginRamp
<1>7. CASE StartTestcase
  BY <1>7, IntervalAssumption DEF StartTestcase, At
<1>8. CASE AttemptResult
  <2>1. pc = "run" /\ UNCHANGED <<cov_type, attempts>> /\ forced_min_done \in BOOLEAN
    BY <1>8, Zenon DEF AttemptResult
  <2>2. CASE /\ pc' = "retry" /\ cov_type = "edge" /\ cur_repetition_num < MaxRepetition
             /\ cur_repetition_num' = cur_repetition_num + 1 /\ UNCHANGED forced_min_done
    BY <2>1, <2>2, IntervalAssumption
  <2>3. CASE /\ pc' = "retry" /\ cov_type = "edge" /\ cur_repetition_num >= MaxRepetition
             /\ ~forced_min_done /\ forced_min_done' /\ UNCHANGED cur_repetition_num
    BY <2>1, <2>3, IntervalAssumption
  <2>4. CASE pc' = "hybrid" /\ UNCHANGED <<cur_repetition_num, forced_min_done>>
    BY <2>1, <2>4, Zenon
  <2>5. QED
    BY <1>8, <2>2, <2>3, <2>4, RetryOrOn, Zenon
<1>9. CASE RetryAttempt
  <2>1. /\ pc = "retry" /\ pc' = "run" /\ attempts' = attempts + 1
        /\ UNCHANGED <<cov_type, cur_repetition_num, forced_min_done>>
    BY <1>9, Zenon DEF RetryAttempt, At, retry_child
  <2>2. QED
    BY <2>1, IntervalAssumption
<1>10. CASE HybridVerdict
  BY <1>10, Zenon DEF HybridVerdict
<1>11. CASE EdgePass
  BY <1>11 DEF EdgePass, At, retry_child
<1>12. CASE EdgePassResult
  BY <1>12, Zenon DEF EdgePassResult, At
<1>13. CASE EdgePassEnds
  BY <1>13, Zenon DEF EdgePassEnds, At
<1>14. CASE EndTestcase
  BY <1>14, Zenon DEF EndTestcase, At
<1>15. CASE ProxyFails
  BY <1>15, Zenon DEF ProxyFails
<1>16. CASE UNCHANGED vars
  BY <1>16, Zenon DEF vars
<1>17. CASE CalibrationShotFails
  BY <1>17, Zenon DEF CalibrationShotFails, At
<1>18. QED
  BY <1>1, <1>2, <1>3, <1>4, <1>5, <1>6, <1>7, <1>8, <1>9, <1>10, <1>11, <1>12,
     <1>13, <1>14, <1>15, <1>16, <1>17, Zenon DEF Next

-----------------------------------------------------------------------------
(* Every step preserves the frequency and the types                        *)

\* set_freq() skips the write only if the frequency is the wanted one already.
LEMMA FreqSet ==
  ASSUME last_set_freq # 0 => freq = last_set_freq, NEW target, target # 0, set_freq(target)
  PROVE  freq' = target /\ last_set_freq' = target
BY Zenon DEF set_freq, sysfsVars

\* freq_gov_apply(): the search's frequency, or the floor if that was asked for.
LEMMA Applied ==
  ASSUME TypeOK, last_set_freq # 0 => freq = last_set_freq, NEW m \in Modes, freq_gov_apply(m)
  PROVE  /\ last_set_freq' # 0 => freq' = last_set_freq'
         /\ force_min_pending' = (force_min_pending /\ ~g_enabled)
         /\ g_enabled => freq' = IF force_min_pending THEN freq_table[0]
                                 ELSE freq_table[cur_idx[m]]
         /\ ~g_enabled => UNCHANGED freq
<1>1. cur_idx[m] \in Index /\ 0 \in Index /\ g_enabled \in BOOLEAN
  BY FreqTableAssumption DEF TypeOK, GovTypeOK, Index
<1>2. freq_table[cur_idx[m]] # 0 /\ freq_table[0] # 0
  BY <1>1, FreqTableAssumption, Zenon DEF Index
<1>3. QED
  BY <1>1, <1>2, FreqSet, Zenon DEF freq_gov_apply, sysfsVars

\* freq_gov_restore_max(): full speed, if the governor is on.
LEMMA Restored ==
  ASSUME last_set_freq # 0 => freq = last_set_freq, freq_gov_restore_max
  PROVE  /\ last_set_freq' # 0 => freq' = last_set_freq'
         /\ g_enabled => freq' = system_max_cpufreq
         /\ ~g_enabled => UNCHANGED freq
BY FreqSet, FreqTableAssumption, Zenon DEF freq_gov_restore_max, sysfsVars

\* freq_gov_on_result(): an overflow takes the search one step down.
LEMMA SteppedDown ==
  ASSUME TypeOK, g_enabled, NEW m \in Modes, NEW o \in BOOLEAN, freq_gov_on_result(m, o), o
  PROVE  cur_idx'[m] = StepDown(cur_idx[m])
BY SMTT(30) DEF TypeOK, GovTypeOK, freq_gov_on_result

\* Every step keeps the frequency in step with the search.
LEMMA FrequencyStep ==
  ASSUME TypeOK, Course, Attempts, Frequency, [Next]_vars
  PROVE  Frequency'
<1> USE DEF Course, Frequency, FreqInStep, Attempting, attempt_mode,
        current_freq_mode, TypeOK, GovTypeOK, sysfsVars, searchVars, configVars,
        modeVars, childVars, rampVars, retryVars, govVars
<1>1. CASE NextTestcase
  BY <1>1, Zenon DEF NextTestcase, BeginRamp
<1>2. CASE CalibrationRun
  <2>1. /\ pc = "calibrate" /\ pc' = "calibrating" /\ set_freq(freq_table[ramp_idx])
        /\ UNCHANGED <<g_enabled, ramp_idx, force_min_pending>>
    BY <1>2, Zenon DEF CalibrationRun, At
  <2>2. freq_table[ramp_idx] # 0
    BY FreqTableAssumption, Zenon DEF Index
  <2>3. freq' = freq_table[ramp_idx] /\ last_set_freq' = freq_table[ramp_idx]
    BY <2>1, <2>2, FreqSet, Zenon
  <2>4. QED
    BY <2>1, <2>3, Zenon
<1>3. CASE CalibrationForkFails
  <2>1. /\ pc = "calibrate" /\ pc' = "calibrated" /\ set_freq(freq_table[ramp_idx])
        /\ UNCHANGED force_min_pending
    BY <1>3, Zenon DEF CalibrationForkFails, At
  <2>2. freq_table[ramp_idx] # 0
    BY FreqTableAssumption, Zenon DEF Index
  <2>3. freq' = last_set_freq'
    BY <2>1, <2>2, FreqSet, Zenon
  <2>4. QED
    BY <2>1, <2>3, Zenon
<1>4. CASE CalibrationResult
  <2>1. /\ pc = "calibrating" /\ pc' \in {"calibrate", "calibrated"}
        /\ freq_gov_restore_max /\ UNCHANGED force_min_pending
    BY <1>4, Zenon DEF CalibrationResult, stop_and_restore
  <2>2. last_set_freq' # 0 => freq' = last_set_freq'
    BY <2>1, Restored, Zenon
  <2>3. QED
    BY <2>1, <2>2, Zenon
<1>5. CASE CalibrationEnds
  BY <1>5, Zenon DEF CalibrationEnds, At, freq_gov_copy_start
<1>6. CASE EnableBroadcast
  BY <1>6, Zenon DEF EnableBroadcast, BeginRamp
<1>7. CASE StartTestcase
  <2>1. /\ pc = "start" /\ pc' = "run" /\ freq_gov_apply(current_freq_mode)
        /\ ~forced_min_done' /\ UNCHANGED <<g_enabled, cov_type, cur_idx>>
    BY <1>7, Zenon DEF StartTestcase, At
  <2>2. current_freq_mode \in Modes
    BY Zenon DEF Modes
  <2>3. /\ last_set_freq' # 0 => freq' = last_set_freq'
        /\ ~force_min_pending'
        /\ g_enabled => freq' = freq_table[cur_idx[current_freq_mode]]
    BY <2>1, <2>2, Applied, Zenon
  <2>4. QED
    BY <2>1, <2>3, Zenon
<1>8. CASE AttemptResult
  <2>0. freq_gov_restore_max /\ ran' = freq /\ UNCHANGED <<g_enabled, cov_type>>
    BY <1>8, Zenon DEF AttemptResult, stop_and_restore
  <2>1. /\ last_set_freq' # 0 => freq' = last_set_freq'
        /\ g_enabled => freq' = system_max_cpufreq
    BY <2>0, Restored, Zenon
  <2>2. CASE pc' = "hybrid" /\ UNCHANGED force_min_pending
    BY <2>0, <2>1, <2>2, RetryOrOn, <1>8, Zenon
  <2>3. ASSUME pc' = "retry", cov_type = "edge", g_enabled, overflowed', ~forced_min_done,
               cur_idx["ADDR"] > 0
        PROVE  /\ cur_idx'["ADDR"] \in Index /\ cur_idx'["ADDR"] < cur_idx["ADDR"]
               /\ freq_table[cur_idx'["ADDR"]] < ran'
    <3>1. freq_gov_on_result("ADDR", overflowed') /\ overflowed' \in BOOLEAN
      BY <1>8, <2>3, Zenon DEF AttemptResult, Outcomes
    <3>2. cur_idx'["ADDR"] = cur_idx["ADDR"] - 1 /\ cur_idx["ADDR"] \in Index
      BY <2>3, <3>1, SteppedDown, Zenon DEF StepDown, Modes
    <3>3. ran' = freq_table[cur_idx["ADDR"]]
      BY <1>8, <2>0, <2>3, RetryOrOn, Zenon
    <3>4. QED
      BY <2>3, <3>2, <3>3, FreqTableAssumption, SMTT(30) DEF Index
  <2>4. CASE /\ pc' = "retry" /\ cov_type = "edge" /\ g_enabled /\ overflowed'
             /\ cur_idx["ADDR"] > 0 /\ cur_repetition_num < MaxRepetition
             /\ UNCHANGED <<forced_min_done, force_min_pending>>
    <3>1. ~forced_min_done /\ ~force_min_pending
      BY <1>8, <2>4, RetryOrOn, IntervalAssumption DEF Attempts
    <3>2. QED
      BY <2>0, <2>1, <2>3, <2>4, <3>1, Zenon
  <2>5. CASE /\ pc' = "retry" /\ cov_type = "edge" /\ g_enabled /\ overflowed'
             /\ cur_idx'["ADDR"] # 0 /\ ~forced_min_done
             /\ forced_min_done' /\ force_min_pending'
    <3>1. cur_idx["ADDR"] > 0
      <4>1. freq_gov_on_result("ADDR", overflowed') /\ overflowed' \in BOOLEAN
        BY <1>8, <2>5, Zenon DEF AttemptResult, Outcomes
      <4>2. cur_idx'["ADDR"] = StepDown(cur_idx["ADDR"]) /\ cur_idx["ADDR"] \in Index
        BY <2>5, <4>1, SteppedDown, Zenon DEF Modes
      <4>3. QED
        BY <2>5, <4>2, FreqTableAssumption DEF StepDown, Index
    <3>2. ran' = freq_table[cur_idx["ADDR"]] /\ cur_idx["ADDR"] \in Index
      BY <1>8, <2>0, <2>5, RetryOrOn, Zenon DEF Modes
    <3>3. freq_table[0] < ran'
      BY <3>1, <3>2, FreqTableAssumption DEF Index
    <3>4. QED
      BY <2>0, <2>1, <2>5, <3>3, Zenon
  <2>6. QED
    BY ONLY <1>8, <2>2, <2>4, <2>5, RetryOrOn, Zenon
<1>9. CASE RetryAttempt
  <2>1. /\ pc = "retry" /\ pc' = "run" /\ freq_gov_apply("ADDR") /\ cov_type = "edge"
        /\ g_enabled /\ UNCHANGED <<g_enabled, cov_type, cur_idx, forced_min_done>>
    BY <1>9, Zenon DEF RetryAttempt, At, retry_child
  <2>2. /\ last_set_freq' # 0 => freq' = last_set_freq'
        /\ ~force_min_pending'
        /\ freq' = IF force_min_pending THEN freq_table[0] ELSE freq_table[cur_idx["ADDR"]]
    BY <2>1, Applied, Zenon DEF Modes
  <2>3. force_min_pending = forced_min_done
    BY <2>1, Zenon
  <2>4. QED
    BY <2>1, <2>2, <2>3, Zenon
<1>10. CASE HybridVerdict
  BY <1>10, Zenon DEF HybridVerdict
<1>11. CASE EdgePass
  <2>1. /\ pc = "confirm" /\ pc' = "confirming" /\ freq_gov_apply("ADDR")
        /\ UNCHANGED <<g_enabled, cur_idx>>
    BY <1>11, Zenon DEF EdgePass, At, retry_child
  <2>2. /\ last_set_freq' # 0 => freq' = last_set_freq'
        /\ ~force_min_pending'
        /\ g_enabled => freq' = freq_table[cur_idx["ADDR"]]
    BY <2>1, Applied, Zenon DEF Modes
  <2>3. QED
    BY <2>1, <2>2, Zenon
<1>12. CASE EdgePassResult
  <2>1. /\ pc = "confirming" /\ pc' = "confirmed" /\ freq_gov_restore_max
        /\ UNCHANGED <<g_enabled, force_min_pending>>
    BY <1>12, Zenon DEF EdgePassResult, At, stop_and_restore
  <2>2. /\ last_set_freq' # 0 => freq' = last_set_freq'
        /\ g_enabled => freq' = system_max_cpufreq
    BY <2>1, Restored, Zenon
  <2>3. QED
    BY <2>1, <2>2, Zenon
<1>13. CASE EdgePassEnds
  BY <1>13, Zenon DEF EdgePassEnds, At
<1>14. CASE EndTestcase
  BY <1>14, Zenon DEF EndTestcase, At
<1>15. CASE ProxyFails
  BY <1>15, Zenon DEF ProxyFails
<1>16. CASE UNCHANGED vars
  BY <1>16, Zenon DEF vars
<1>17. CASE CalibrationShotFails
  BY <1>17, Zenon DEF CalibrationShotFails, At
<1>18. QED
  BY <1>1, <1>2, <1>3, <1>4, <1>5, <1>6, <1>7, <1>8, <1>9, <1>10, <1>11, <1>12,
     <1>13, <1>14, <1>15, <1>16, <1>17, Zenon DEF Next

\* set_freq() sets frequencies.
LEMMA FreqTyped ==
  ASSUME TypeOK, NEW target \in Nat, set_freq(target)
  PROVE  last_set_freq' \in Nat /\ freq' \in Nat
BY Zenon DEF TypeOK, GovTypeOK, set_freq, sysfsVars

\* freq_gov_on_result() keeps the search in the table and the window in bounds, and
\* a window is recorded at a position of the table.
LEMMA ResultTyped ==
  ASSUME TypeOK, Settled, NEW m \in Modes, NEW o \in BOOLEAN, freq_gov_on_result(m, o)
  PROVE  SearchTypeOK' /\ Settled'
<1> USE DEF TypeOK, GovTypeOK, SearchTypeOK
<1>1. CASE ~g_enabled
  BY <1>1, Zenon DEF freq_gov_on_result, searchVars, evidenceVars, Settled
<1>2. CASE g_enabled
  <2> DEFINE clean     == non_overflow_nums[m] + 1
             window    == ~o /\ clean >= freq_interval
             execs     == Bump(total_execs, m, 1)
             overflows == Bump(total_overflow_execs, m, IF o THEN 1 ELSE 0)
  <2>1. execs \in [Modes -> Nat] /\ overflows \in [Modes -> Nat]
    BY DEF Bump
  <2>2. /\ total_execs' = execs /\ total_overflow_execs' = overflows
        /\ cur_idx' = [cur_idx EXCEPT ![m] =
             IF o THEN StepDown(@) ELSE IF window THEN StepUp(@) ELSE @]
        /\ non_overflow_nums' = [non_overflow_nums EXCEPT ![m] =
             IF o \/ window THEN 0 ELSE clean]
        /\ stable_nums' = Bump(stable_nums, m, IF window THEN 1 ELSE 0)
        /\ opt_idx_sum' = Bump(opt_idx_sum, m, IF window THEN cur_idx[m] ELSE 0)
        /\ freq_interval' = IF addr_only_mode \/ overflows["ATOM"] = 0 THEN freq_interval
                            ELSE AdaptedInterval(execs["ATOM"], overflows["ATOM"])
    BY <1>2, Zenon DEF freq_gov_on_result
  <2> HIDE DEF execs, overflows, window
  <2>3. freq_interval' \in MinInterval..MaxInterval
    <3>1. ASSUME overflows["ATOM"] # 0
          PROVE  AdaptedInterval(execs["ATOM"], overflows["ATOM"]) \in MinInterval..MaxInterval
      <4>1. execs["ATOM"] \in Nat /\ overflows["ATOM"] \in Nat \ {0}
        BY <2>1, <3>1, Zenon DEF Modes
      <4>2. execs["ATOM"] \div overflows["ATOM"] \in Int
        BY <4>1
      <4>3. (execs["ATOM"] \div overflows["ATOM"]) \div WindowShare \in Int
        BY <4>2, IntervalAssumption
      <4>4. QED
        BY <4>3, IntervalAssumption DEF AdaptedInterval
    <3>2. QED
      BY <2>2, <3>1, Zenon
  <2>4. \A i \in Index : StepDown(i) \in Index /\ StepUp(i) \in Index
    BY FreqTableAssumption DEF StepDown, StepUp, Index
  <2>5. cur_idx' \in [Modes -> Index]
    BY <2>2, <2>4, Zenon
  <2>6. /\ opt_idx_sum' \in [Modes -> Nat] /\ stable_nums' \in [Modes -> Nat]
        /\ non_overflow_nums' \in [Modes -> Nat]
    <3>1. cur_idx[m] \in Nat /\ clean \in Nat
      BY FreqTableAssumption DEF Index
    <3>2. \A f \in [Modes -> Nat], n \in Nat : Bump(f, m, n) \in [Modes -> Nat]
      BY SMTT(30) DEF Bump
    <3>3. /\ (IF window THEN 1 ELSE 0) \in Nat
          /\ (IF window THEN cur_idx[m] ELSE 0) \in Nat
          /\ (IF o \/ window THEN 0 ELSE clean) \in Nat
      BY ONLY <3>1, Zenon
    <3>4. stable_nums' \in [Modes -> Nat] /\ opt_idx_sum' \in [Modes -> Nat]
      <4>1. stable_nums \in [Modes -> Nat] /\ opt_idx_sum \in [Modes -> Nat]
        BY Zenon
      <4>2. QED
        BY ONLY <2>2, <3>2, <3>3, <4>1, Zenon
    <3>5. non_overflow_nums' \in [Modes -> Nat]
      BY <2>2, <3>3, Zenon
    <3>6. QED
      BY <3>4, <3>5, Zenon
  <2>7. Settled'
    <3> SUFFICES ASSUME NEW k \in Modes
                 PROVE  opt_idx_sum'[k] <= stable_nums'[k] * (freq_table_num - 1)
      BY Zenon DEF Settled
    <3>1. freq_table_num - 1 \in Nat /\ cur_idx[k] \in Nat /\ cur_idx[k] <= freq_table_num - 1
      BY FreqTableAssumption DEF Index
    <3>2. /\ stable_nums[k] \in Nat /\ opt_idx_sum[k] \in Nat
          /\ opt_idx_sum[k] <= stable_nums[k] * (freq_table_num - 1)
      BY Zenon DEF Settled
    <3>3. \/ opt_idx_sum'[k] = opt_idx_sum[k] /\ stable_nums'[k] = stable_nums[k]
          \/ /\ opt_idx_sum'[k] = opt_idx_sum[k] + cur_idx[k]
             /\ stable_nums'[k] = stable_nums[k] + 1
      BY <2>2 DEF Bump, Index
    <3>4. \A s, n \in Nat : (s + 1) * n = s * n + n
      OBVIOUS
    <3>5. (stable_nums[k] + 1) * (freq_table_num - 1)
            = stable_nums[k] * (freq_table_num - 1) + (freq_table_num - 1)
      BY ONLY <3>1, <3>2, <3>4, Zenon
    <3>6. stable_nums[k] * (freq_table_num - 1) \in Nat
      BY ONLY <3>1, <3>2
    <3>7. CASE opt_idx_sum'[k] = opt_idx_sum[k] /\ stable_nums'[k] = stable_nums[k]
      BY ONLY <3>2, <3>7, Zenon
    <3>8. CASE /\ opt_idx_sum'[k] = opt_idx_sum[k] + cur_idx[k]
               /\ stable_nums'[k] = stable_nums[k] + 1
      <4>1. stable_nums'[k] * (freq_table_num - 1)
              = stable_nums[k] * (freq_table_num - 1) + (freq_table_num - 1)
        BY ONLY <3>5, <3>8, Zenon
      <4>2. QED
        BY ONLY <3>1, <3>2, <3>6, <3>8, <4>1
    <3>9. QED
      BY ONLY <3>3, <3>7, <3>8, Zenon
  <2>8. QED
    BY <2>1, <2>2, <2>3, <2>5, <2>6, <2>7, Zenon
<1>3. QED
  BY <1>1, <1>2, Zenon

\* A step of the ramp moves the search to a position of the table, if at all.
LEMMA SearchMoved ==
  ASSUME TypeOK, Settled, UNCHANGED evidenceVars, cur_idx' \in [Modes -> Index]
  PROVE  SearchTypeOK' /\ Settled'
BY Zenon DEF TypeOK, GovTypeOK, SearchTypeOK, Settled, evidenceVars

\* freq_gov_calibrate() starts at the first position of the table.
LEMMA RampBegun ==
  ASSUME TypeOK, NEW m \in Modes, NEW child, BeginRamp(m, child)
  PROVE  cur_idx' \in [Modes -> Index] /\ ramp_idx' \in Index
<1>1. 0 \in Index
  BY FreqTableAssumption, SMTT(30) DEF Index
<1>2. QED
  BY <1>1, Zenon DEF TypeOK, GovTypeOK, BeginRamp

\* Every step keeps the search in the table.
LEMMA SearchStep ==
  ASSUME TypeOK, Settled, [Next]_vars
  PROVE  (SearchTypeOK /\ Settled)'
<1> USE DEF TypeOK, GovTypeOK, SearchTypeOK, searchVars, evidenceVars,
        configVars, modeVars, childVars, rampVars, retryVars, govVars
<1>1. CASE NextTestcase
  <2>1. UNCHANGED evidenceVars
    BY <1>1, Zenon DEF NextTestcase, BeginRamp
  <2>2. calibrated_mode \in Modes
    BY Zenon DEF Modes, calibrated_mode
  <2>3. BeginRamp(calibrated_mode, TRUE) \/ UNCHANGED cur_idx
    BY <1>1, Zenon DEF NextTestcase
  <2>4. cur_idx' \in [Modes -> Index]
    BY <2>2, <2>3, RampBegun, Zenon
  <2>5. QED
    BY <2>1, <2>4, SearchMoved, Zenon
<1>2. CASE CalibrationRun
  BY <1>2, Zenon DEF CalibrationRun, At, Settled
<1>3. CASE CalibrationForkFails
  BY <1>3, Zenon DEF CalibrationForkFails, At, Settled
<1>4. CASE CalibrationResult
  BY <1>4, Zenon DEF CalibrationResult, Settled
<1>5. CASE CalibrationEnds
  <2>1. UNCHANGED evidenceVars
    BY <1>5, Zenon DEF CalibrationEnds, freq_gov_copy_start
  <2>2. cur_idx' \in [Modes -> Index]
    BY <1>5, Zenon DEF CalibrationEnds, freq_gov_copy_start, Modes
  <2>3. QED
    BY <2>1, <2>2, SearchMoved, Zenon
<1>6. CASE EnableBroadcast
  <2>1. UNCHANGED evidenceVars
    BY <1>6, Zenon DEF EnableBroadcast, BeginRamp
  <2>2. "ADDR" \in Modes
    BY Zenon DEF Modes
  <2>3. BeginRamp("ADDR", FALSE) \/ UNCHANGED cur_idx
    BY <1>6, Zenon DEF EnableBroadcast
  <2>4. cur_idx' \in [Modes -> Index]
    BY <2>2, <2>3, RampBegun, Zenon
  <2>5. QED
    BY <2>1, <2>4, SearchMoved, Zenon
<1>7. CASE StartTestcase
  BY <1>7, Zenon DEF StartTestcase, At, Settled
<1>8. CASE AttemptResult
  <2>1. freq_gov_on_result(current_freq_mode, overflowed') /\ overflowed' \in BOOLEAN
    BY <1>8, Zenon DEF AttemptResult, Outcomes
  <2>2. QED
    BY <2>1, ResultTyped, Zenon DEF current_freq_mode, Modes
<1>9. CASE RetryAttempt
  BY <1>9, Zenon DEF RetryAttempt, At, retry_child, Settled
<1>10. CASE HybridVerdict
  BY <1>10, Zenon DEF HybridVerdict, Settled
<1>11. CASE EdgePass
  BY <1>11, Zenon DEF EdgePass, At, retry_child, Settled
<1>12. CASE EdgePassResult
  <2>1. \E o \in BOOLEAN : freq_gov_on_result("ADDR", o)
    BY <1>12, Zenon DEF EdgePassResult
  <2>2. QED
    BY <2>1, ResultTyped, Zenon DEF Modes
<1>13. CASE EdgePassEnds
  BY <1>13, Zenon DEF EdgePassEnds, At, Settled
<1>14. CASE EndTestcase
  BY <1>14, Zenon DEF EndTestcase, At, Settled
<1>15. CASE ProxyFails
  BY <1>15, Zenon DEF ProxyFails, Settled
<1>16. CASE UNCHANGED vars
  BY <1>16, Zenon DEF vars, Settled
<1>17. CASE CalibrationShotFails
  BY <1>17, Zenon DEF CalibrationShotFails, At, Settled
<1>18. QED
  BY <1>1, <1>2, <1>3, <1>4, <1>5, <1>6, <1>7, <1>8, <1>9, <1>10, <1>11, <1>12,
     <1>13, <1>14, <1>15, <1>16, <1>17, ZenonT(40) DEF Next

\* freq_gov_apply() sets frequencies of the table.
LEMMA ApplyTyped ==
  ASSUME TypeOK, NEW m \in Modes, freq_gov_apply(m)
  PROVE  last_set_freq' \in Nat /\ freq' \in Nat
<1>1. cur_idx[m] \in Index /\ 0 \in Index
  BY FreqTableAssumption DEF TypeOK, GovTypeOK, Index
<1>2. freq_table[cur_idx[m]] \in Nat /\ freq_table[0] \in Nat
  BY <1>1, FreqTableAssumption, Zenon DEF Index
<1>3. CASE g_enabled
  <2>1. set_freq(IF force_min_pending THEN freq_table[0] ELSE freq_table[cur_idx[m]])
    BY <1>3, Zenon DEF freq_gov_apply
  <2>2. QED
    BY <1>2, <2>1, FreqTyped, Zenon
<1>4. CASE ~g_enabled
  BY <1>4, Zenon DEF freq_gov_apply, sysfsVars, TypeOK, GovTypeOK
<1>5. QED
  BY <1>3, <1>4, Zenon

\* So does freq_gov_restore_max().
LEMMA RestoreTyped ==
  ASSUME TypeOK, freq_gov_restore_max
  PROVE  last_set_freq' \in Nat /\ freq' \in Nat
BY FreqTyped, FreqTableAssumption, SMTT(30)
   DEF freq_gov_restore_max, sysfsVars, TypeOK, GovTypeOK

\* Every flag stays a flag.
LEMMA FlagsStep ==
  ASSUME Flags, [Next]_vars
  PROVE  Flags'
<1> USE DEF Flags, configVars, modeVars, childVars, rampVars, retryVars,
        govVars
<1>1. CASE NextTestcase
  BY <1>1, Zenon DEF NextTestcase, fork_fresh_child, BeginRamp
<1>2. CASE CalibrationRun
  BY <1>2, ZenonT(40) DEF CalibrationRun, At, fork_fresh_child, start_and_resume
<1>3. CASE CalibrationForkFails
  BY <1>3, Zenon DEF CalibrationForkFails, At
<1>4. CASE CalibrationResult
  BY <1>4, ZenonT(40) DEF CalibrationResult
<1>5. CASE CalibrationEnds
  BY <1>5, ZenonT(40) DEF CalibrationEnds, At
<1>6. CASE EnableBroadcast
  BY <1>6, ZenonT(40) DEF EnableBroadcast, BeginRamp
<1>7. CASE StartTestcase
  BY <1>7, Zenon DEF StartTestcase, At, fork_fresh_child, freq_gov_apply,
     start_and_resume
<1>8. CASE AttemptResult
  BY <1>8, ZenonT(40) DEF AttemptResult, Outcomes
<1>9. CASE RetryAttempt
  BY <1>9, Zenon DEF RetryAttempt, At, retry_child, fork_fresh_child, freq_gov_apply,
     start_and_resume
<1>10. CASE HybridVerdict
  BY <1>10, ZenonT(40) DEF HybridVerdict
<1>11. CASE EdgePass
  BY <1>11, Zenon DEF EdgePass, At, retry_child, fork_fresh_child, freq_gov_apply,
     start_and_resume
<1>12. CASE EdgePassResult
  BY <1>12, ZenonT(40) DEF EdgePassResult, At
<1>13. CASE EdgePassEnds
  BY <1>13, ZenonT(40) DEF EdgePassEnds, At
<1>14. CASE EndTestcase
  BY <1>14, ZenonT(40) DEF EndTestcase, At
<1>15. CASE ProxyFails
  BY <1>15, ZenonT(40) DEF ProxyFails
<1>16. CASE UNCHANGED vars
  BY <1>16, ZenonT(40) DEF vars
<1>17. CASE CalibrationShotFails
  BY <1>17, ZenonT(40) DEF CalibrationShotFails, At
<1>18. QED
  BY <1>1, <1>2, <1>3, <1>4, <1>5, <1>6, <1>7, <1>8, <1>9, <1>10, <1>11, <1>12,
     <1>13, <1>14, <1>15, <1>16, <1>17, Zenon DEF Next

\* Every other variable keeps its type.
LEMMA PlacesStep ==
  ASSUME TypeOK, [Next]_vars
  PROVE  Places'
<1> USE DEF Places, TypeOK, GovTypeOK, sysfsVars, configVars, modeVars,
        childVars, rampVars, retryVars, govVars
<1>1. CASE NextTestcase
  <2>1. ramp_idx' \in Index
    <3>1. BeginRamp(calibrated_mode, TRUE) \/ UNCHANGED ramp_idx
      BY <1>1, ZenonT(40) DEF NextTestcase
    <3>2. QED
      BY <3>1, RampBegun, Zenon DEF Modes, calibrated_mode
  <2>2. QED
    BY <1>1, <2>1, Zenon DEF NextTestcase, fork_fresh_child
<1>2. CASE CalibrationRun
  <2>1. set_freq(freq_table[ramp_idx]) /\ freq_table[ramp_idx] \in Nat
    BY <1>2, FreqTableAssumption, Zenon DEF CalibrationRun, Index
  <2>2. last_set_freq' \in Nat /\ freq' \in Nat
    BY <2>1, FreqTyped, Zenon
  <2>3. QED
    BY <1>2, <2>2, Zenon DEF CalibrationRun, At, start_and_resume, fork_fresh_child
<1>3. CASE CalibrationForkFails
  <2>1. set_freq(freq_table[ramp_idx]) /\ freq_table[ramp_idx] \in Nat
    BY <1>3, FreqTableAssumption, Zenon DEF CalibrationForkFails, Index
  <2>2. last_set_freq' \in Nat /\ freq' \in Nat
    BY <2>1, FreqTyped, Zenon
  <2>3. QED
    BY <1>3, <2>2, Zenon DEF CalibrationForkFails, At
<1>4. CASE CalibrationResult
  <2>1. freq_gov_restore_max
    BY <1>4, Zenon DEF CalibrationResult, stop_and_restore
  <2>2. last_set_freq' \in Nat /\ freq' \in Nat
    BY <2>1, RestoreTyped, Zenon
  <2>3. ramp_idx' \in Index
    BY <1>4, FreqTableAssumption DEF CalibrationResult, Index
  <2>4. QED
    BY <1>4, <2>2, <2>3, Zenon DEF CalibrationResult
<1>5. CASE CalibrationEnds
  BY <1>5, Zenon DEF CalibrationEnds, At
<1>6. CASE EnableBroadcast
  <2>1. ramp_idx' \in Index
    <3>1. BeginRamp("ADDR", FALSE) \/ UNCHANGED ramp_idx
      BY <1>6, ZenonT(40) DEF EnableBroadcast
    <3>2. QED
      BY <3>1, RampBegun, Zenon DEF Modes
  <2>2. QED
    BY <1>6, <2>1, Zenon DEF EnableBroadcast
<1>7. CASE StartTestcase
  <2>1. freq_gov_apply(current_freq_mode)
    BY <1>7, Zenon DEF StartTestcase, At
  <2>2. last_set_freq' \in Nat /\ freq' \in Nat
    BY <2>1, ApplyTyped, Zenon DEF Modes, current_freq_mode
  <2>3. child_pid' \in Pids \cup {NoCid}
    BY <1>7, Zenon DEF StartTestcase, At, start_and_resume, fork_fresh_child
  <2>4. QED
    BY <1>7, <2>2, <2>3, Zenon DEF StartTestcase, At
<1>8. CASE AttemptResult
  <2>1. freq_gov_restore_max
    BY <1>8, Zenon DEF AttemptResult, stop_and_restore
  <2>2. last_set_freq' \in Nat /\ freq' \in Nat
    BY <2>1, RestoreTyped, Zenon
  <2>3. pc' \in {"retry", "hybrid"} /\ cur_repetition_num' \in Nat
    BY <1>8, RetryOrOn
  <2>4. QED
    BY <1>8, <2>2, <2>3, Zenon DEF AttemptResult
<1>9. CASE RetryAttempt
  <2>1. freq_gov_apply(current_freq_mode)
    BY <1>9, Zenon DEF RetryAttempt, At, retry_child
  <2>2. last_set_freq' \in Nat /\ freq' \in Nat
    BY <2>1, ApplyTyped, Zenon DEF Modes, current_freq_mode
  <2>3. child_pid' \in Pids \cup {NoCid}
    BY <1>9, Zenon DEF RetryAttempt, At, retry_child, start_and_resume, fork_fresh_child
  <2>4. QED
    BY <1>9, <2>2, <2>3 DEF RetryAttempt, At, retry_child
<1>10. CASE HybridVerdict
  BY <1>10, ZenonT(40) DEF HybridVerdict
<1>11. CASE EdgePass
  <2>1. freq_gov_apply("ADDR")
    BY <1>11, Zenon DEF EdgePass, At, retry_child
  <2>2. last_set_freq' \in Nat /\ freq' \in Nat
    BY <2>1, ApplyTyped, Zenon DEF Modes, current_freq_mode
  <2>3. child_pid' \in Pids \cup {NoCid}
    BY <1>11, Zenon DEF EdgePass, At, retry_child, start_and_resume, fork_fresh_child
  <2>4. QED
    BY <1>11, <2>2, <2>3 DEF EdgePass, At, retry_child
<1>12. CASE EdgePassResult
  <2>1. freq_gov_restore_max
    BY <1>12, Zenon DEF EdgePassResult, stop_and_restore
  <2>2. last_set_freq' \in Nat /\ freq' \in Nat
    BY <2>1, RestoreTyped, Zenon
  <2>3. QED
    BY <1>12, <2>2, Zenon DEF EdgePassResult, At
<1>13. CASE EdgePassEnds
  BY <1>13, Zenon DEF EdgePassEnds, At
<1>14. CASE EndTestcase
  BY <1>14, Zenon DEF EndTestcase, At
<1>15. CASE ProxyFails
  BY <1>15, SMTT(30) DEF ProxyFails
<1>16. CASE UNCHANGED vars
  BY <1>16, Zenon DEF vars
<1>17. CASE CalibrationShotFails
  BY <1>17, ZenonT(40) DEF CalibrationShotFails, At
<1>18. QED
  BY <1>1, <1>2, <1>3, <1>4, <1>5, <1>6, <1>7, <1>8, <1>9, <1>10, <1>11, <1>12,
     <1>13, <1>14, <1>15, <1>16, <1>17, ZenonT(40) DEF Next

\* The parts of the type invariant together.
LEMMA Types ==
  SearchTypeOK /\ EtmTypeOK /\ Flags /\ Places /\ Children => TypeOK
<1> SUFFICES ASSUME SearchTypeOK, EtmTypeOK, Flags, Places, Children PROVE TypeOK
  BY Zenon
<1>1. GovTypeOK
  BY Zenon DEF SearchTypeOK, Flags, Places, GovTypeOK
<1>2. fresh \in Nat
  BY DEF Children
<1>3. QED
  BY <1>1, <1>2, Zenon DEF Flags, Places, TypeOK

\* The invariant holds after freq_gov_init(), before the first request.
LEMMA InitInv == Init => LoopInv
<1> SUFFICES ASSUME Init PROVE LoopInv
  BY Zenon
<1> USE DEF Init, EtmInit, freq_gov_init
<1>1. SearchTypeOK
  <2>1. freq_interval \in MinInterval..MaxInterval
    BY IntervalAssumption
  <2>2. cur_idx \in [Modes -> Index]
    BY FreqTableAssumption DEF Index
  <2>3. QED
    BY <2>1, <2>2, Zenon DEF SearchTypeOK
<1>2. EtmTypeOK
  BY Zenon DEF EtmTypeOK
<1>3. Flags
  <2>1. addr_only_mode \in BOOLEAN
    BY Zenon
  <2>2. QED
    BY <2>1, Zenon DEF Flags
<1>4. Places
  BY FreqTableAssumption DEF Places, Index
<1>5. Course /\ Children /\ Etm /\ Broadcast
  BY Zenon DEF Course, Children, Etm, Broadcast, Running, Attempting
<1>6. Attempts /\ Frequency
  BY IntervalAssumption DEF Attempts, MaxAttempts, Frequency, FreqInStep, Attempting
<1>7. Settled
  BY FreqTableAssumption DEF Settled
<1>8. QED
  BY <1>1, <1>2, <1>3, <1>4, <1>5, <1>6, <1>7, Types, Zenon DEF LoopInv

-----------------------------------------------------------------------------
(* The theorems                                                            *)

\* Course, children, ETM, branch broadcast, attempts, frequency and search are in
\* step at every point of a request.
THEOREM LoopInvariant == Spec => []LoopInv
<1>1. LoopInv /\ [Next]_vars => LoopInv'
  <2> SUFFICES ASSUME LoopInv, [Next]_vars PROVE LoopInv'
    BY Zenon
  <2>1. Course' /\ Children' /\ Broadcast' /\ Attempts' /\ Frequency'
    BY CourseStep, ChildrenStep, BroadcastStep, AttemptsStep, FrequencyStep, Zenon DEF LoopInv
  <2>2. Etm' /\ EtmTypeOK' /\ SearchTypeOK' /\ Settled'
    BY EtmStep, SearchStep, Zenon DEF LoopInv
  <2>3. Flags
    BY Zenon DEF LoopInv, TypeOK, GovTypeOK, Flags
  <2>4. Flags' /\ Places'
    BY <2>3, FlagsStep, PlacesStep, Zenon DEF LoopInv
  <2>5. TypeOK'
    BY <2>1, <2>2, <2>4, Types, PTL
  <2>6. QED
    BY <2>1, <2>2, <2>5, Zenon DEF LoopInv
<1>2. QED
  BY <1>1, InitInv, PTL DEF Spec

\* Every variable of the loop keeps its type.
THEOREM LoopTypeCorrect == Spec => []TypeOK
BY LoopInvariant, PTL DEF LoopInv

\* The forkserver holds one stopped child at most, and none once it was resumed.
THEOREM OneChildPerAttempt == Spec => []ChildPerAttempt
<1>1. LoopInv => ChildPerAttempt
  BY Zenon DEF LoopInv, Children, ChildPerAttempt, Running, Attempting
<1>2. QED
  BY <1>1, LoopInvariant, PTL

\* Calibration apart, a request takes one attempt in path mode, two in hybrid mode,
\* and in edge mode two more than FREQ_GOV_MAX_REPETITION_NUM.
THEOREM AttemptsAreBounded == Spec => []AttemptsBounded
<1>1. LoopInv => AttemptsBounded
  BY Zenon DEF LoopInv, Attempts, MaxAttempts, AttemptsBounded
<1>2. QED
  BY <1>1, LoopInvariant, PTL

\* Every attempt runs with the ETM started in its window, for its child.
THEOREM EtmStaysInStep == Spec => []EtmInStep
<1>1. LoopInv => EtmInStep
  BY Zenon DEF LoopInv, Etm, EtmInStep
<1>2. QED
  BY <1>1, LoopInvariant, PTL

\* Branch broadcast is on in the passes whose map is an edge map, and in no other.
THEOREM BroadcastFitsMode == Spec => []BroadcastForMode
<1>1. LoopInv => BroadcastForMode
  <2> SUFFICES ASSUME LoopInv, Attempting PROVE current_bb_mode <=> attempt_mode = "ADDR"
    BY Zenon DEF BroadcastForMode
  <2> USE DEF LoopInv, Broadcast, Course, TypeOK, attempt_mode, current_freq_mode
  <2>1. CASE pc = "run"
    BY <2>1, Zenon
  <2>2. CASE pc = "confirming"
    BY <2>2, Zenon
  <2>3. QED
    BY <2>1, <2>2, Zenon DEF Attempting
<1>2. QED
  BY <1>1, LoopInvariant, PTL

\* Every attempt runs at the frequency the governor chose for it.
THEOREM FreqStaysInStep == Spec => []FreqInStep
<1>1. LoopInv => FreqInStep
  BY Zenon DEF LoopInv, Frequency
<1>2. QED
  BY <1>1, LoopInvariant, PTL

\* A retry runs at a lower frequency than the attempt it repeats.
THEOREM RetriesAreSlower == Spec => LowerOnRetry
<1>1. LoopInv /\ RetryAttempt => freq' < ran
  <2> SUFFICES ASSUME LoopInv, RetryAttempt PROVE freq' < ran
    BY Zenon
  <2>1. pc = "retry" /\ freq_gov_apply(current_freq_mode)
    BY Zenon DEF RetryAttempt, At, retry_child
  <2>2. g_enabled /\ current_freq_mode = "ADDR"
    BY <2>1, Zenon DEF LoopInv, Course, current_freq_mode
  <2>3. freq' = IF force_min_pending THEN freq_table[0] ELSE freq_table[cur_idx["ADDR"]]
    BY <2>1, <2>2, Applied, Zenon DEF LoopInv, Frequency, Modes
  <2>4. QED
    BY <2>1, <2>3 DEF LoopInv, Frequency
<1>2. QED
  BY <1>1, LoopInvariant, PTL DEF LowerOnRetry

\* With AFLCS_FREQ_GOV=0 no step of the loop changes the frequency.
THEOREM GovernorStaysOff == Spec => GovernorOff
<1>1. LoopInv /\ [Next]_vars => (~g_enabled => UNCHANGED freq)
  <2> SUFFICES ASSUME LoopInv, [Next]_vars, ~g_enabled PROVE UNCHANGED freq
    BY Zenon
  <2> USE DEF sysfsVars, govVars
  <2>1. ASSUME freq_gov_restore_max PROVE UNCHANGED freq
    BY <2>1, Zenon DEF freq_gov_restore_max
  <2>2. ASSUME NEW m, freq_gov_apply(m) PROVE UNCHANGED freq
    BY <2>2, Zenon DEF freq_gov_apply
  <2>3. pc \notin {"calibrate", "calibrating"}
    BY Zenon DEF LoopInv, Course
  <2>4. CASE AttemptResult \/ EdgePassResult
    BY <2>1, <2>4, Zenon DEF AttemptResult, EdgePassResult, stop_and_restore
  <2>5. CASE StartTestcase \/ RetryAttempt \/ EdgePass
    BY <2>2, <2>5, ZenonT(40) DEF StartTestcase, RetryAttempt, EdgePass, retry_child
  <2>6. CASE \/ CalibrationRun \/ CalibrationForkFails \/ CalibrationShotFails
             \/ CalibrationResult
    BY <2>3, <2>6, Zenon DEF CalibrationRun, CalibrationForkFails, CalibrationShotFails,
       CalibrationResult, At
  <2>7. CASE \/ NextTestcase \/ CalibrationEnds \/ EnableBroadcast \/ HybridVerdict
             \/ EdgePassEnds \/ EndTestcase \/ ProxyFails \/ UNCHANGED vars
    BY <2>7, Zenon DEF NextTestcase, CalibrationEnds, EnableBroadcast, HybridVerdict,
       EdgePassEnds, EndTestcase, ProxyFails, vars
  <2>8. QED
    BY <2>4, <2>5, <2>6, <2>7, Zenon DEF Next
<1>2. QED
  BY <1>1, LoopInvariant, PTL DEF Spec, GovernorOff

\* An average of positions, rounded to the nearest, is a position.
LEMMA RoundedAverage ==
  ASSUME NEW n \in Nat \ {0}, NEW k \in Nat, NEW s \in Nat, s <= n * k
  PROVE  (s + n \div 2) \div n \in 0..k
<1> DEFINE h == n \div 2
           q == (s + h) \div n
<1>1. h \in Nat /\ h < n
  OBVIOUS
<1>2. q \in Nat /\ q * n <= s + h
  BY <1>1
<1>3. s + h < (k + 1) * n
  BY <1>1
<1> HIDE DEF h, q
<1>4. q * n < (k + 1) * n
  BY <1>1, <1>2, <1>3
<1>5. q < k + 1
  BY <1>2, <1>4
<1>6. QED
  BY <1>2, <1>5 DEF q, h

\* The frequency the report shows as settled is one of the board's.
THEOREM SettledIsInTable == Spec => []SettledInTable
<1>1. LoopInv => SettledInTable
  <2> SUFFICES ASSUME LoopInv, NEW m \in Modes, stable_nums[m] > 0 PROVE OptIdx(m) \in Index
    BY Zenon DEF SettledInTable
  <2>1. stable_nums[m] \in Nat \ {0} /\ opt_idx_sum[m] \in Nat /\ freq_table_num - 1 \in Nat
    BY FreqTableAssumption DEF LoopInv, TypeOK, GovTypeOK
  <2>2. opt_idx_sum[m] <= stable_nums[m] * (freq_table_num - 1)
    BY Zenon DEF LoopInv, Settled
  <2>3. QED
    BY <2>1, <2>2, RoundedAverage, SMTT(30) DEF OptIdx, Index
<1>2. QED
  BY <1>1, LoopInvariant, PTL
=============================================================================
