----------------------------- MODULE AflContract -----------------------------
(***************************************************************************)
(* What afl-fuzz relies on when it drives afl-cs-proxy through the fork    *)
(* server pipes and reads the shared map: a request is answered by a pid   *)
(* and then by one status, and with the status the map is the coverage of  *)
(* one run of the target, made for this request: of all of it, unless its  *)
(* trace could not be decoded to the end or was longer than the ETR.       *)
(* External: modelled from how cs-proxy.c serves FORKSRV_FD.               *)
(***************************************************************************)
EXTENDS Naturals

VARIABLES
  phase,  \* "idle", "requested" (no pid yet) or "running" (no status yet)
  pid,    \* the process that runs, or ran last
  len,    \* how much trace it has generated
  over,   \* has it terminated?
  map,    \* the map while AFL++ may read it, {} otherwise
  whole   \* does the map AFL++ may read cover the whole run?

cvars == <<phase, pid, len, over, map, whole>>

Init == phase = "idle" /\ len = 0 /\ over = TRUE /\ map = {} /\ whole = TRUE

Request ==
  /\ phase = "idle" /\ phase' = "requested" /\ map' = {} /\ whole' = TRUE
  /\ UNCHANGED <<pid, len, over>>

\* A fresh process runs the input, for this request.
NewRun ==
  /\ phase # "idle" /\ over
  /\ len' = 0 /\ over' = FALSE /\ pid' # pid
  /\ UNCHANGED <<phase, map, whole>>

Runs == ~over /\ len' = len + 1 /\ UNCHANGED <<phase, pid, over, map, whole>>

Terminates == ~over /\ over' = TRUE /\ UNCHANGED <<phase, pid, len, map, whole>>

Pid ==
  /\ phase = "requested" /\ phase' = "running"
  /\ UNCHANGED <<pid, len, over, map, whole>>

Status ==
  /\ phase = "running" /\ phase' = "idle"
  /\ over /\ map' \subseteq {pid} \X (1..len)
  /\ whole' => map' = {pid} \X (1..len)
  /\ UNCHANGED <<pid, len, over>>

Next == Request \/ NewRun \/ Runs \/ Terminates \/ Pid \/ Status

Spec == Init /\ [][Next]_cvars
=============================================================================
