---------------------------- MODULE MCTraceSession ----------------------------
EXTENDS TraceSession, TLC

\* Nothing distinguishes one pid from another.
PidSymmetry == Permutations(Pids)
=============================================================================
