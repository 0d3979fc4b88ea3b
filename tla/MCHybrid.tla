------------------------------- MODULE MCHybrid -------------------------------
(***************************************************************************)
(* Hybrid with five path maps: the empty one, three that share bits and    *)
(* one apart.  The checksum of map 4 has its halves from maps 2 and 3.  A  *)
(* lossy edge pass leaves nothing, or counts an edge less often.           *)
(***************************************************************************)
EXTENDS Hybrid

MCMaps == 0..4
MCPathsOf(k) == CASE k = 0 -> {4} [] k = 1 -> {2, 3} [] OTHER -> {1, 3}
MCTruncated(p) == CASE p \in {2, 3} -> {0, 1} [] OTHER -> {0}
MCUp(p) == CASE p \in {1, 2} -> 0 [] p \in {3, 4} -> 1 [] OTHER -> 2
MCDown(p) == CASE p \in {1, 3} -> 0 [] p \in {2, 4} -> 1 [] OTHER -> 2
MCClassified(p) ==
  CASE p = 0 -> {} [] p = 1 -> {<<1, 1>>} [] p = 2 -> {<<1, 1>>, <<2, 1>>}
    [] p = 3 -> {<<1, 1>>, <<2, 2>>} [] p = 4 -> {<<3, 1>>}
MCEdges(p) ==
  CASE p = 0 -> {} [] p = 1 -> {<<1, 1>>} [] p = 2 -> {<<1, 1>>, <<2, 1>>}
    [] p = 3 -> {<<1, 1>>, <<2, 2>>} [] p = 4 -> {<<1, 1>>}
MCPartial(p) == IF p = 3 THEN {{}, {<<1, 1>>, <<2, 1>>}} ELSE {{}}
=============================================================================
