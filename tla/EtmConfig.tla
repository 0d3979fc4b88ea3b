------------------------------ MODULE EtmConfig ------------------------------
(***************************************************************************)
(* The trace sources: what common.c and config.c program into the ETMs for *)
(* each window of tracing.  The ETMs of the CPUs are programmed alike and  *)
(* are one record here.  Programming succeeds; the failures of             *)
(* enable_cs_trace() are in TraceCore.                                     *)
(***************************************************************************)
CONSTANTS
  StalkerEtm, \* AFLCS_STALKER_DECODER
  Pids        \* process ids of children

NoCid == 0

ASSUME EtmAssumption == StalkerEtm \in BOOLEAN /\ NoCid \notin Pids

VARIABLES
  pid_filter,            \* AFLCS_PID_FILTER
  is_first_trace, trace_ever_configured,
  current_bb_mode,       \* the branch broadcast mode asked for ...
  decoder_bb,            \* ... and what Stalker's decoder assumes
  etm,                   \* on; bb: TRCCONFIGR.BB; cid: TRCCIDCVR0;
                         \* ctxt: does the address range match cid only?
  synced                 \* history: the ETM was started in this window

etmVars == <<pid_filter, is_first_trace, trace_ever_configured, current_bb_mode,
             decoder_bb, etm, synced>>

EtmTypeOK ==
  /\ pid_filter \in BOOLEAN
  /\ is_first_trace \in BOOLEAN /\ trace_ever_configured \in BOOLEAN
  /\ current_bb_mode \in BOOLEAN /\ decoder_bb \in BOOLEAN
  /\ etm \in [on : BOOLEAN, bb : BOOLEAN, cid : Pids \cup {NoCid}, ctxt : BOOLEAN]
  /\ synced \in BOOLEAN

EtmInit ==
  /\ pid_filter \in BOOLEAN
  /\ is_first_trace = TRUE /\ trace_ever_configured = FALSE
  /\ current_bb_mode = FALSE /\ decoder_bb = FALSE
  /\ etm = [on |-> FALSE, bb |-> FALSE, cid |-> NoCid, ctxt |-> FALSE]
  /\ synced = FALSE

\* Does the sinks-only pair also cycle the ETMs?
etm_cycled_per_window == StalkerEtm \/ pid_filter

\* The bit is written and the ETM is started again.
set_etm_bb_mode(e, bb) == [e EXCEPT !.bb = bb, !.on = TRUE]

\* Mutant: the next window does not reconfigure, and the ETM stays started.
BroadcastWithoutReconfigure(bb) ==
  /\ etm' = IF trace_ever_configured THEN set_etm_bb_mode(etm, bb) ELSE etm
  /\ current_bb_mode' = bb
  /\ decoder_bb' = IF StalkerEtm THEN bb ELSE decoder_bb
  /\ UNCHANGED <<pid_filter, is_first_trace, trace_ever_configured, synced>>

\* Before the first configure_trace() the ETMs hold no configuration.
trace_set_bb_mode(bb) ==
  /\ etm' = IF trace_ever_configured THEN set_etm_bb_mode(etm, bb) ELSE etm
  /\ current_bb_mode' = bb
  /\ is_first_trace' = TRUE
  /\ decoder_bb' = IF StalkerEtm THEN bb ELSE decoder_bb
  /\ UNCHANGED <<pid_filter, trace_ever_configured, synced>>

\* The ETM is stopped and cleaned; this wipes the branch broadcast.
init_etm == [on |-> FALSE, bb |-> FALSE, cid |-> NoCid, ctxt |-> FALSE]

\* The range only matches while the context ID is the given one, if filtering.
configure_etmv4_addr_range_cid(e, cid) ==
  [e EXCEPT !.cid = cid, !.ctxt = cid # NoCid /\ pid_filter]

configure_trace(cid) == configure_etmv4_addr_range_cid(init_etm, cid)

enable_trace(e) == [e EXCEPT !.on = TRUE]

\* The new child goes into the comparator before the ETM is started.
enable_trace_sinks_only(child) ==
  IF etm_cycled_per_window
    THEN [etm EXCEPT !.on = TRUE, !.cid = IF pid_filter THEN child ELSE @]
    ELSE etm

enable_etms(pid, child) ==
  /\ IF is_first_trace
       THEN LET e == enable_trace(configure_trace(
                       IF StalkerEtm \/ pid_filter THEN child ELSE pid))
            IN  etm' = IF current_bb_mode THEN set_etm_bb_mode(e, TRUE) ELSE e
       ELSE etm' = enable_trace_sinks_only(child)
  /\ synced' = (is_first_trace \/ (etm'.on /\ ~etm.on))
  /\ is_first_trace' = FALSE
  /\ trace_ever_configured' = TRUE
  /\ UNCHANGED <<pid_filter, current_bb_mode, decoder_bb>>

disable_trace == [etm EXCEPT !.on = FALSE]

\* The ETMs are stopped only if every window cycles them.
disable_trace_sinks_only == IF etm_cycled_per_window THEN disable_trace ELSE etm

disable_etms(disable_all) ==
  /\ etm' = IF disable_all THEN disable_trace ELSE disable_trace_sinks_only
  /\ UNCHANGED <<pid_filter, is_first_trace, trace_ever_configured, current_bb_mode,
                 decoder_bb, synced>>
=============================================================================
