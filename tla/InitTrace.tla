------------------------------- MODULE InitTrace -------------------------------
(***************************************************************************)
(* What init_trace() of src/src/common.c works out from the machine and    *)
(* the traced process before the first run: the CPU to trace on, and the   *)
(* code ranges to trace and to decode (the helpers are in utils.c).  Pure  *)
(* functions of what /proc and /sys show.                                  *)
(***************************************************************************)
EXTENDS Integers, Sequences, FiniteSetsExt, SequencesExt

CONSTANTS
  MaxCpus,   \* most CPUs of the machines considered
  MaxLines,  \* most lines of the /proc/<pid>/maps considered
  RANGE_MAX  \* slots of map_info

ASSUME InitTraceAssumption ==
  MaxCpus \in Nat \ {0} /\ MaxLines \in Nat /\ RANGE_MAX \in Nat \ {0}

DEFAULT_TRACE_CPU == 0
None == -1

-----------------------------------------------------------------------------
(* The CPU.  core[c] is the core that CPU c belongs to.                    *)

CoreOf(core, c) == {d \in DOMAIN core : core[d] = core[c]}

\* core_cpus_list writes neighbours as a range "a-b"; strtol() reads the a.
set_core_cpus(core, c) == {d \in CoreOf(core, c) : d - 1 \notin CoreOf(core, c)}

\* The lowest CPU that is in none of the groups of the process's CPUs (the comment
\* has one of the same group); None also if the machine has no core lists.
get_preferred_cpu(listed, affinity, core) ==
  LET others == DOMAIN core \ UNION {set_core_cpus(core, c) : c \in affinity}
  IN  IF ~listed \/ others = {} THEN None ELSE Min(others)

\* Mutant: a machine with one CPU is searched like any other.
SearchOneCpu(nprocs, pinned) ==
  LET free == (0..nprocs-1) \ pinned
  IN  IF free = {} THEN None ELSE Min(free)

\* The lowest CPU that no process with memory is pinned to.
find_free_cpu(nprocs, pinned) ==
  LET free == (0..nprocs-1) \ pinned
  IN  IF nprocs < 2 THEN 0 ELSE IF free = {} THEN None ELSE Min(free)

\* preferred_cpu is assigned the comparison (find_free_cpu() < 0): 0 or 1.
TraceCpu(listed, affinity, core, pinned) ==
  LET preferred == get_preferred_cpu(listed, affinity, core)
      compared  == IF find_free_cpu(Cardinality(DOMAIN core), pinned) < 0 THEN 1 ELSE 0
      chosen    == IF preferred < 0 THEN compared ELSE preferred
  IN  IF chosen >= 0 THEN chosen ELSE DEFAULT_TRACE_CPU

-----------------------------------------------------------------------------
(* The ranges.                                                             *)

\* A line of /proc/<pid>/maps: executable?  and what is mapped: a file of the
\* program, the file that CS_TRACE_LIB names, or no file ("[vdso]").
MapLine == [x : BOOLEAN, path : {"file", "lib", "none"}]

\* Mutant: the last slot is not kept for the library.
RecordWithoutReserve(map_info, line) ==
  IF line.x /\ Len(map_info) < RANGE_MAX /\ line.path # "none"
  THEN Append(map_info, line) ELSE map_info

\* One turn of the loop over the lines: the last slot is for the library.
Record(map_info, line) ==
  IF /\ line.x /\ Len(map_info) < RANGE_MAX
     /\ Len(map_info) = RANGE_MAX - 1 => line.path = "lib"
     /\ line.path # "none"
  THEN Append(map_info, line) ELSE map_info

\* map_info after n lines, and after all of them.
setup_map_info(lines) ==
  LET map_info[n \in 0..Len(lines)] ==
        IF n = 0 THEN <<>> ELSE Record(map_info[n-1], lines[n])
  IN  map_info[Len(lines)]

-----------------------------------------------------------------------------
(* What they are for, over all machines and mappings within the bounds.    *)

\* The CPU is one the machine has.
CpuIsOnline ==
  \A n \in 1..MaxCpus : \A core \in [0..n-1 -> 0..n-1] :
    \A affinity \in (SUBSET (0..n-1)) \ {{}}, pinned \in SUBSET (0..n-1), listed \in BOOLEAN :
      TraceCpu(listed, affinity, core, pinned) \in 0..n-1

\* Which of the first n lines are executable file mappings.
Code(lines, n) == {i \in 1..n : lines[i].x /\ lines[i].path # "none"}

\* Slot k of map_info is line f[k]; the last slot is the library's; a mapping that is
\* in no slot comes after the others, and after the library's slot if it is one of
\* the library.
InSlots(lines, n, map_info, f) ==
  /\ \A k \in 1..Len(map_info) : map_info[k] = lines[f[k]]
  /\ \A j, k \in 1..Len(map_info) : j < k => f[j] < f[k]
  /\ Len(map_info) = RANGE_MAX => lines[f[RANGE_MAX]].path = "lib"
  /\ \A i \in Code(lines, n) :
       \/ \E k \in 1..Len(map_info) : f[k] = i
       \/ /\ RANGE_MAX - 1 <= Len(map_info)
          /\ \A k \in 1..RANGE_MAX-1 : f[k] < i
          /\ lines[i].path = "lib" => Len(map_info) = RANGE_MAX /\ f[RANGE_MAX] < i

\* map_info is exactly the first RANGE_MAX - 1 executable file mappings among the
\* first n lines, in their order, and after them the first one of the library.
FirstMappings(lines, n, map_info) ==
  /\ Len(map_info) <= RANGE_MAX
  /\ \E f \in [1..Len(map_info) -> Code(lines, n)] : InSlots(lines, n, map_info, f)

\* setup_map_info() takes the first mappings of every list of lines.
RangesAreFirst ==
  \A lines \in BoundedSeq(MapLine, MaxLines) :
    FirstMappings(lines, Len(lines), setup_map_info(lines))
=============================================================================
