----------------------------- MODULE MCProxyLoop -----------------------------
(***************************************************************************)
(* ProxyLoop with a small frequency table.                                 *)
(***************************************************************************)
EXTENDS ProxyLoop

MCFreqTable == [i \in Index |-> 10 * (i + 1)]
=============================================================================
