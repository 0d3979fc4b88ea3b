------------------------------- MODULE FreqGov -------------------------------
(***************************************************************************)
(* The overflow-aware frequency governor, src/src/freq_gov.c: a search for *)
(* the highest frequency at which the trace of a run does not overflow,    *)
(* kept apart for the two kinds of pass (ATOM: no branch broadcast, ADDR:  *)
(* branch broadcast).  Here sysfs accepts every write.                     *)
(***************************************************************************)
EXTENDS Naturals

CONSTANTS
  freq_table_num,      \* number of frequencies of the board
  freq_table,          \* the frequencies, ascending, from index 0
  system_max_cpufreq,
  MinInterval, MaxInterval, InitInterval, \* MIN_, MAX_ and FREQ_INTERVAL
  WindowShare,         \* the 5 in freq_gov_on_result()
  MaxRepetition        \* FREQ_GOV_MAX_REPETITION_NUM

ASSUME FreqTableAssumption ==
  /\ freq_table_num \in Nat \ {0}
  /\ freq_table \in [0..freq_table_num-1 -> Nat \ {0}]
  /\ \A i, j \in 0..freq_table_num-1 : i < j => freq_table[i] < freq_table[j]
  /\ system_max_cpufreq \in Nat \ {0}

ASSUME IntervalAssumption ==
  /\ MinInterval \in Nat \ {0} /\ MaxInterval \in Nat /\ InitInterval \in Nat
  /\ MinInterval <= InitInterval /\ InitInterval <= MaxInterval
  /\ WindowShare \in Nat \ {0} /\ MaxRepetition \in Nat

VARIABLES
  g_enabled,            \* FALSE under AFLCS_FREQ_GOV=0
  addr_only_mode,       \* AFLCS_COV=edge
  cur_idx,              \* for each mode, the position of the search
  opt_idx_sum, stable_nums, non_overflow_nums, total_execs, total_overflow_execs,
  freq_interval,        \* clean executions that make a window
  force_min_pending,
  last_set_freq,        \* 0: unknown
  freq                  \* the frequency of the traced CPU; 0: as it was found

Modes == {"ATOM", "ADDR"}
Index == 0 .. freq_table_num - 1

evidenceVars == <<opt_idx_sum, stable_nums, non_overflow_nums, total_execs,
                  total_overflow_execs, freq_interval>>
searchVars == <<cur_idx, evidenceVars>>
sysfsVars == <<last_set_freq, freq>>
configVars == <<g_enabled, addr_only_mode>>
govVars == <<configVars, searchVars, sysfsVars, force_min_pending>>

GovTypeOK ==
  /\ g_enabled \in BOOLEAN /\ addr_only_mode \in BOOLEAN
  /\ cur_idx \in [Modes -> Index]
  /\ opt_idx_sum \in [Modes -> Nat] /\ stable_nums \in [Modes -> Nat]
  /\ non_overflow_nums \in [Modes -> Nat]
  /\ total_execs \in [Modes -> Nat] /\ total_overflow_execs \in [Modes -> Nat]
  /\ freq_interval \in MinInterval..MaxInterval
  /\ force_min_pending \in BOOLEAN
  /\ last_set_freq \in Nat /\ freq \in Nat

\* The statics, and what they become if the governor is on.
freq_gov_init(addr_only) ==
  /\ g_enabled \in BOOLEAN
  /\ addr_only_mode = addr_only
  /\ cur_idx = [m \in Modes |-> IF g_enabled THEN freq_table_num - 1 ELSE 0]
  /\ opt_idx_sum = [m \in Modes |-> 0] /\ stable_nums = [m \in Modes |-> 0]
  /\ non_overflow_nums = [m \in Modes |-> 0]
  /\ total_execs = [m \in Modes |-> 0] /\ total_overflow_execs = [m \in Modes |-> 0]
  /\ freq_interval = IF addr_only \/ ~g_enabled THEN MinInterval ELSE InitInterval
  /\ force_min_pending = FALSE
  /\ last_set_freq = 0 /\ freq = 0

-----------------------------------------------------------------------------
\* A write is skipped when the frequency is thought to be set already.
set_freq(target) ==
  IF target = last_set_freq THEN UNCHANGED sysfsVars
  ELSE last_set_freq' = target /\ freq' = target

\* Mutant: a forced run does not consume the request for it.
ForceSticks(mode) ==
  /\ UNCHANGED force_min_pending
  /\ IF ~g_enabled THEN UNCHANGED sysfsVars
     ELSE set_freq(IF force_min_pending THEN freq_table[0] ELSE freq_table[cur_idx[mode]])

freq_gov_apply(mode) ==
  /\ force_min_pending' = (force_min_pending /\ ~g_enabled)
  /\ IF ~g_enabled THEN UNCHANGED sysfsVars
     ELSE set_freq(IF force_min_pending THEN freq_table[0] ELSE freq_table[cur_idx[mode]])

freq_gov_restore_max ==
  IF g_enabled THEN set_freq(system_max_cpufreq) ELSE UNCHANGED sysfsVars

StepDown(i) == IF i > 0 THEN i - 1 ELSE i

\* Mutant: the top of the table is not looked at.
StepUpUnbounded(i) == i + 1

StepUp(i) == IF i < freq_table_num - 1 THEN i + 1 ELSE i

\* The window adapts to the share of ATOM executions that overflow.
AdaptedInterval(execs, overflows) ==
  LET fi == (execs \div overflows) \div WindowShare
  IN  IF fi < MinInterval THEN MinInterval
      ELSE IF fi > MaxInterval THEN MaxInterval ELSE fi

Bump(f, mode, by) == [f EXCEPT ![mode] = @ + by]

\* Mutant: the window is recorded at the position it leads to, unbounded.
WindowUnclamped(mode, overflowed) ==
  LET clean  == non_overflow_nums[mode] + 1
      window == ~overflowed /\ clean >= freq_interval
  IN  /\ cur_idx' = [cur_idx EXCEPT ![mode] =
           IF overflowed THEN StepDown(@) ELSE IF window THEN StepUp(@) ELSE @]
      /\ non_overflow_nums' = [non_overflow_nums EXCEPT ![mode] =
           IF overflowed \/ window THEN 0 ELSE clean]
      /\ stable_nums' = Bump(stable_nums, mode, IF window THEN 1 ELSE 0)
      /\ opt_idx_sum' = Bump(opt_idx_sum, mode, IF window THEN cur_idx[mode] + 1 ELSE 0)
      /\ total_execs' = Bump(total_execs, mode, 1)
      /\ total_overflow_execs' = Bump(total_overflow_execs, mode, IF overflowed THEN 1 ELSE 0)
      /\ UNCHANGED freq_interval

freq_gov_on_result(mode, overflowed) ==
  LET clean     == non_overflow_nums[mode] + 1
      window    == ~overflowed /\ clean >= freq_interval
      execs     == Bump(total_execs, mode, 1)
      overflows == Bump(total_overflow_execs, mode, IF overflowed THEN 1 ELSE 0)
  IN  IF ~g_enabled THEN UNCHANGED searchVars
      ELSE
        /\ total_execs' = execs /\ total_overflow_execs' = overflows
        /\ cur_idx' = [cur_idx EXCEPT ![mode] =
             IF overflowed THEN StepDown(@) ELSE IF window THEN StepUp(@) ELSE @]
        /\ non_overflow_nums' = [non_overflow_nums EXCEPT ![mode] =
             IF overflowed \/ window THEN 0 ELSE clean]
        /\ stable_nums' = Bump(stable_nums, mode, IF window THEN 1 ELSE 0)
        /\ opt_idx_sum' = Bump(opt_idx_sum, mode, IF window THEN cur_idx[mode] ELSE 0)
        /\ freq_interval' = IF addr_only_mode \/ overflows["ATOM"] = 0 THEN freq_interval
                            ELSE AdaptedInterval(execs["ATOM"], overflows["ATOM"])

\* Mutant: the number of repetitions is not looked at.
RetryUnbounded(mode, overflowed, cur_repetition_num) ==
  g_enabled /\ overflowed /\ mode = "ADDR" /\ cur_idx["ADDR"] > 0

\* Mutant: the position of the search is not looked at.
RetryAtFloor(mode, overflowed, cur_repetition_num) ==
  g_enabled /\ overflowed /\ mode = "ADDR" /\ cur_repetition_num < MaxRepetition

freq_gov_should_retry(mode, overflowed, cur_repetition_num) ==
  /\ g_enabled /\ overflowed
  /\ mode = "ADDR" /\ cur_idx["ADDR"] > 0
  /\ cur_repetition_num < MaxRepetition

freq_gov_at_floor(mode) == ~g_enabled \/ cur_idx[mode] = 0

freq_gov_copy_start(dst, src) ==
  cur_idx' = [cur_idx EXCEPT ![dst] = cur_idx[src]] /\ UNCHANGED evidenceVars

\* The settled frequency that the report shows, rounded to the nearest index.
OptIdx(mode) == (opt_idx_sum[mode] + stable_nums[mode] \div 2) \div stable_nums[mode]
=============================================================================
