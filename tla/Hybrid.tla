-------------------------------- MODULE Hybrid --------------------------------
(***************************************************************************)
(* Hybrid coverage, src/src/hybrid.c, driven as main() drives it: a path   *)
(* pass for every input, an edge pass for the inputs whose path map is     *)
(* new, and the map AFL++ is shown.  A raw path map is one of Maps, with   *)
(* its checksum and the bits it classifies to; an edge map is the set of   *)
(* its bits.  A virgin map is the set of bits it has lost.  A bit is a     *)
(* pair of an index and a hit count class.  An input that crashes or times *)
(* out is not shown to this code.                                          *)
(*                                                                         *)
(* A pass may lose part of its trace.  After an overflow packet            *)
(* trace_did_overflow() says so; a decode that fails without one, and a    *)
(* trace longer than the ETR, pass for whole ("cut").                      *)
(***************************************************************************)
EXTENDS Naturals, FiniteSets

CONSTANTS
  Keys,            \* input keys; 0: the input could not be read
  PathsOf(_),      \* the paths the target may take on an input
  Maps,            \* raw path maps; a path is named by its map
  Truncated(_),    \* the path maps a lossy pass may leave of a path
  Up(_), Down(_),  \* the halves of a map's checksum
  Classified(_),   \* the bits of a path map
  Edges(_),        \* the bits of a path's edge map
  Partial(_),      \* the edge maps a lossy pass may leave of a path
  CACHE_SLOTS, INPUT_SLOTS,
  Level1, Level2, Level3, Level4, \* PURGE_INTERVAL_LEVEL1..4
  Warmup,          \* the 20 in purge_check()
  MaxExecs         \* bound: inputs AFL++ runs

ASSUME HybridAssumption ==
  /\ Keys \subseteq Nat /\ 0 \in Keys
  /\ \A k \in Keys : PathsOf(k) \subseteq Maps /\ PathsOf(k) # {}
  /\ \A p \in Maps : Truncated(p) \subseteq Maps /\ Up(p) \in Nat /\ Down(p) \in Nat
  /\ CACHE_SLOTS \in Nat \ {0} /\ INPUT_SLOTS \in Nat \ {0}
  /\ {Level1, Level2, Level3, Level4, MaxExecs} \subseteq Nat /\ Warmup \in Nat \ {0}
  /\ Level1 <= Level2 /\ Level2 <= Level3 /\ Level3 <= Level4

VARIABLES
  virgin_atom, virgin_atom_real, virgin_edge, virgin_missed,
  atom_check_up, atom_check_down,
  cache, inputs,   \* slot -> at most one entry
  path_kept,       \* path_kept and its _cksum, _overflow and _input
  since_purge,     \* real_execs - pre_real_execs
  path_execs, queued_atom_paths, pre_virgin_bits,
  purge_interval, purge_attempt, purge_real,
  pc,
  map,             \* trace_bitmap
  key, path,       \* the input at hand and the path it took
  steady,          \* does an input always take the same path?
  may_overflow,    \* do traces overflow?
  may_cut,         \* do passes lose trace without an overflow packet?
  shown,           \* history: bits AFL++ was shown
  told,            \* history: inputs AFL++ was shown a non-empty map for ...
  evicted,         \* ... and the ones whose slot another input took
  path_cut,        \* history: was the path pass being confirmed cut?
  spoiled          \* history: slots of the cache filled after a pass that was cut

purgeVars == <<since_purge, path_execs, queued_atom_paths, pre_virgin_bits,
               purge_interval, purge_attempt, purge_real>>
configVars == <<steady, may_overflow, may_cut>>
filterVars == <<atom_check_up, atom_check_down>>
history == <<shown, told>>
cutVars == <<path_cut, spoiled>>
vars == <<virgin_atom, virgin_atom_real, virgin_edge, virgin_missed, filterVars,
          cache, inputs, path_kept, purgeVars, pc, map, key, path, configVars,
          history, evicted, cutVars>>

PathBits == UNION {Classified(p) : p \in Maps}
EdgeBits == UNION {Edges(p) \cup UNION Partial(p) : p \in Maps}

\* A map has map_size bytes.
ASSUME BitsAssumption == IsFiniteSet(PathBits) /\ IsFiniteSet(EdgeBits)

CacheSlot(p) == Down(p) % CACHE_SLOTS
InputSlot(k) == k % INPUT_SLOTS
SameChecksum(p, q) == Up(p) = Up(q) /\ Down(p) = Down(q)

TypeOK ==
  /\ virgin_atom \subseteq PathBits /\ virgin_atom_real \subseteq PathBits
  /\ virgin_edge \subseteq EdgeBits /\ virgin_missed \subseteq EdgeBits
  /\ atom_check_up \subseteq Nat /\ atom_check_down \subseteq Nat
  /\ cache \in [0..CACHE_SLOTS-1 -> SUBSET [cksum : Maps, map : SUBSET EdgeBits]]
  /\ inputs \in [0..INPUT_SLOTS-1 -> SUBSET [key : Keys \ {0}, map : SUBSET EdgeBits]]
  /\ \A s \in DOMAIN cache : Cardinality(cache[s]) <= 1
  /\ \A s \in DOMAIN inputs : Cardinality(inputs[s]) <= 1
  /\ path_kept \in [map : Maps, overflow : BOOLEAN, input : Keys]
  /\ since_purge \in Nat /\ path_execs \in Nat /\ queued_atom_paths \in Nat
  /\ pre_virgin_bits \in Nat /\ purge_interval \in Nat
  /\ purge_attempt \in Nat /\ purge_real \in Nat
  /\ pc \in {"idle", "confirm", "discarded", "confirmed"}
  /\ map \subseteq EdgeBits /\ key \in Keys /\ path \in Maps
  /\ steady \in BOOLEAN /\ may_overflow \in BOOLEAN /\ may_cut \in BOOLEAN
  /\ shown \subseteq EdgeBits /\ told \subseteq Keys /\ evicted \subseteq Keys
  /\ path_cut \in BOOLEAN /\ spoiled \subseteq DOMAIN cache

Init ==
  /\ virgin_atom = {} /\ virgin_atom_real = {} /\ virgin_edge = {} /\ virgin_missed = {}
  /\ atom_check_up = {} /\ atom_check_down = {}
  /\ cache = [s \in 0..CACHE_SLOTS-1 |-> {}] /\ inputs = [s \in 0..INPUT_SLOTS-1 |-> {}]
  /\ key = 0 /\ path = CHOOSE p \in Maps : TRUE
  /\ path_kept = [map |-> path, overflow |-> FALSE, input |-> key]
  /\ since_purge = 0 /\ path_execs = 0 /\ queued_atom_paths = 0 /\ pre_virgin_bits = 0
  /\ purge_interval = Level1 /\ purge_attempt = 0 /\ purge_real = 0
  /\ pc = "idle" /\ map = {}
  /\ steady \in BOOLEAN /\ may_overflow \in BOOLEAN /\ may_cut \in BOOLEAN
  /\ shown = {} /\ told = {} /\ evicted = {} /\ path_cut = FALSE /\ spoiled = {}

-----------------------------------------------------------------------------
\* How a pass may lose trace: not at all, with trace_did_overflow(), or unnoticed.
Losses == {"none"} \cup {l \in {"overflow"} : may_overflow} \cup {l \in {"cut"} : may_cut}

Taken(k) == IF steady THEN {CHOOSE p \in PathsOf(k) : TRUE} ELSE PathsOf(k)

has_new_bits(virgin, cls) == ~(cls \subseteq virgin)

\* Bytes of a virgin map that are no longer 255.
count_non_255_bytes(virgin) == Cardinality({bit[1] : bit \in virgin})

PurgeLevel ==
  IF 10 * queued_atom_paths < path_execs' THEN Level1
  ELSE IF 4 * queued_atom_paths < path_execs' THEN Level2
  ELSE IF 2 * queued_atom_paths < path_execs' THEN Level3 ELSE Level4

AdaptedInterval(attempts, purges) ==
  LET scaled == (PurgeLevel * attempts) \div purges
  IN  IF scaled > Level4 THEN Level4 ELSE scaled

PurgeDue ==
  \/ 100 * count_non_255_bytes(virgin_edge) <= 101 * pre_virgin_bits
  \/ 2 * count_non_255_bytes(virgin_atom_real) < count_non_255_bytes(virgin_atom)

\* Mutant: only the purges count as attempts.
PurgeCountsPurges(atom) ==
  IF since_purge + 1 < purge_interval
    THEN /\ atom = virgin_atom /\ since_purge' = since_purge + 1
         /\ UNCHANGED <<pre_virgin_bits, purge_interval, purge_attempt, purge_real>>
    ELSE /\ IF PurgeDue
              THEN /\ atom = virgin_atom_real /\ purge_real' = purge_real + 1
                   /\ purge_interval' = IF purge_real' > Warmup
                                          THEN AdaptedInterval(purge_attempt, purge_real')
                                          ELSE purge_interval
              ELSE atom = virgin_atom /\ UNCHANGED <<purge_real, purge_interval>>
         /\ pre_virgin_bits' = count_non_255_bytes(virgin_edge)
         /\ since_purge' = 0 /\ UNCHANGED purge_attempt

\* Counts an execution and, now and then, forgets the paths that led nowhere;
\* atom is virgin_atom after that.
purge_check(atom) ==
  IF since_purge + 1 < purge_interval
    THEN /\ atom = virgin_atom /\ since_purge' = since_purge + 1
         /\ UNCHANGED <<pre_virgin_bits, purge_interval, purge_attempt, purge_real>>
    ELSE /\ IF PurgeDue
              THEN /\ atom = virgin_atom_real /\ purge_real' = purge_real + 1
                   /\ purge_interval' = IF purge_real' > Warmup
                                          THEN AdaptedInterval(purge_attempt, purge_real')
                                          ELSE purge_interval
              ELSE atom = virgin_atom /\ UNCHANGED <<purge_real, purge_interval>>
         /\ pre_virgin_bits' = count_non_255_bytes(virgin_edge)
         /\ since_purge' = 0 /\ purge_attempt' = purge_attempt + 1

\* Mutant: an input that could not be read is remembered, too.
RememberUnread(k, m) ==
  LET slot == InputSlot(k)
  IN  IF \E e \in inputs[slot] : e.key = k THEN UNCHANGED <<inputs, evicted>>
      ELSE /\ inputs' = [inputs EXCEPT ![slot] = {[key |-> k, map |-> m]}]
           /\ evicted' = evicted \cup {e.key : e \in inputs[slot]}

remember_input(k, m) ==
  LET slot == InputSlot(k)
  IN  IF k = 0 \/ \E e \in inputs[slot] : e.key = k THEN UNCHANGED <<inputs, evicted>>
      ELSE /\ inputs' = [inputs EXCEPT ![slot] = {[key |-> k, map |-> m]}]
           /\ evicted' = evicted \cup {e.key : e \in inputs[slot]}

\* Mutant: an input answered from the cache is not remembered.
DiscardForgets(p, k) ==
  LET own    == {e \in inputs[InputSlot(k)] : k # 0 /\ e.key = k}
      cached == {c \in cache[CacheSlot(p)] : SameChecksum(c.cksum, p)}
  IN  /\ IF own # {} THEN \E e \in own : map' = e.map
         ELSE IF cached # {} THEN \E c \in cached : map' = c.map ELSE map' = {}
      /\ UNCHANGED <<inputs, evicted>>

\* The map first shown for the input, or the one of the path, or none.
discard(p, k) ==
  LET own    == {e \in inputs[InputSlot(k)] : k # 0 /\ e.key = k}
      cached == {c \in cache[CacheSlot(p)] : SameChecksum(c.cksum, p)}
  IN  IF own # {} THEN (\E e \in own : map' = e.map) /\ UNCHANGED <<inputs, evicted>>
      ELSE IF cached # {} THEN \E c \in cached : map' = c.map /\ remember_input(k, c.map)
      ELSE map' = {} /\ UNCHANGED <<inputs, evicted>>

Filtered(p) == Up(p) \in atom_check_up /\ Down(p) \in atom_check_down

\* An input is run; what the decoder makes of its trace is the path map p.
hybrid_after_path ==
  /\ pc = "idle" /\ path_execs < MaxExecs
  /\ key' \in Keys /\ path' \in Taken(key')
  /\ path_execs' = path_execs + 1
  /\ \E loss \in Losses, p \in Maps :
       /\ p \in IF loss = "none" THEN {path'} ELSE Truncated(path')
       /\ \E atom \in {virgin_atom, virgin_atom_real} :
            /\ purge_check(atom)
            /\ IF Filtered(p) \/ ~has_new_bits(atom, Classified(p))
                 THEN /\ virgin_atom' = atom
                      /\ discard(p, key') /\ pc' = "discarded"
                      /\ UNCHANGED <<queued_atom_paths, path_kept, path_cut>>
                 ELSE /\ virgin_atom' = atom \cup Classified(p)
                      /\ queued_atom_paths' = queued_atom_paths + 1
                      /\ path_kept' = [map |-> p, overflow |-> loss = "overflow", input |-> key']
                      /\ path_cut' = (loss = "cut")
                      /\ pc' = "confirm" /\ UNCHANGED <<map, inputs, evicted>>
  /\ UNCHANGED <<virgin_atom_real, virgin_edge, virgin_missed, filterVars, cache,
                 configVars, history, spoiled>>

\* The edge maps of a pass: without part of its trace, edges are missing or counted
\* less often.
EdgeMaps(p, loss) == IF loss = "none" THEN {Edges(p)} ELSE Partial(p)

\* The edge pass: the target may take another path.
EdgePass(loss) == path' \in Taken(key) /\ map' \in EdgeMaps(path', loss)

\* Mutant: an overflow of the path pass is not looked at.
KeepTruncated(overflowed) == ~overflowed

\* A truncated trace on either pass would pin the wrong edges to this path.
Complete(overflowed) == ~overflowed /\ ~path_kept.overflow

hybrid_after_confirm ==
  /\ pc = "confirm" /\ pc' = "confirmed"
  /\ UNCHANGED path_execs
  /\ \E loss \in Losses :
       /\ EdgePass(loss)
       /\ \E atom \in {virgin_atom, virgin_atom_real} : purge_check(atom) /\ virgin_atom' = atom
       /\ virgin_edge' = virgin_edge \cup map'
       /\ IF has_new_bits(virgin_edge, map')
            THEN /\ virgin_atom_real' = virgin_atom_real \cup Classified(path_kept.map)
                 /\ UNCHANGED filterVars
            ELSE /\ atom_check_up' = atom_check_up \cup {Up(path_kept.map)}
                 /\ atom_check_down' = atom_check_down \cup {Down(path_kept.map)}
                 /\ UNCHANGED virgin_atom_real
       /\ IF Complete(loss = "overflow")
            THEN /\ cache' = [cache EXCEPT ![CacheSlot(path_kept.map)] =
                                {[cksum |-> path_kept.map, map |-> map']}]
                 /\ remember_input(path_kept.input, map')
                 /\ LET slot == {CacheSlot(path_kept.map)}
                    IN  spoiled' = IF path_cut \/ loss = "cut" THEN spoiled \cup slot
                                                               ELSE spoiled \ slot
            ELSE UNCHANGED <<cache, inputs, evicted, spoiled>>
  /\ path_cut' = FALSE
  /\ UNCHANGED <<virgin_missed, path_kept, queued_atom_paths, key, configVars, history>>

\* Mutant: AFL++ is left with the map of the sample.
SampleShown ==
  /\ pc = "discarded" /\ UNCHANGED pc
  /\ \E loss \in Losses : EdgePass(loss) /\ virgin_missed' = virgin_missed \cup map'
  /\ UNCHANGED <<virgin_atom, virgin_atom_real, virgin_edge, filterVars, cache, inputs,
                 path_kept, purgeVars, key, configVars, history, evicted, cutVars>>

\* Mutant: has_new_bits() in the place of peek_new_bits().
SampleMarksEdges ==
  /\ pc = "discarded" /\ UNCHANGED <<pc, map, virgin_missed, path>>
  /\ \E p \in Taken(key) : virgin_edge' = virgin_edge \cup Edges(p)
  /\ UNCHANGED <<virgin_atom, virgin_atom_real, filterVars, cache, inputs, path_kept,
                 purgeVars, key, configVars, history, evicted, cutVars>>

\* AFLCS_HYBRID_SAMPLE: an edge pass to measure with; the map is put back.
hybrid_after_sample ==
  /\ pc = "discarded" /\ UNCHANGED <<pc, map>>
  /\ path' \in Taken(key)
  /\ \E loss \in Losses : \E edges \in EdgeMaps(path', loss) :
       virgin_missed' = IF loss = "overflow" THEN virgin_missed ELSE virgin_missed \cup edges
  /\ UNCHANGED <<virgin_atom, virgin_atom_real, virgin_edge, filterVars, cache, inputs,
                 path_kept, purgeVars, key, configVars, history, evicted, cutVars>>

\* __afl_end_testcase(): AFL++ reads the map.
EndTestcase ==
  /\ pc \in {"discarded", "confirmed"} /\ pc' = "idle"
  /\ shown' = shown \cup map
  /\ told' = IF map = {} THEN told ELSE told \cup {key}
  /\ UNCHANGED <<virgin_atom, virgin_atom_real, virgin_edge, virgin_missed, filterVars,
                 cache, inputs, path_kept, purgeVars, map, key, path, configVars, evicted,
                 cutVars>>

Next == hybrid_after_path \/ hybrid_after_confirm \/ hybrid_after_sample \/ EndTestcase

Spec == Init /\ [][Next]_vars

-----------------------------------------------------------------------------
(* Properties                                                              *)

\* AFL++ sees no edge for the first time on an input that is discarded, be it
\* answered from the inputs, from the cache, or sampled.
NothingNewOnDiscard == pc = "discarded" => map \subseteq shown

\* The shadow of AFL++'s virgin map, which decides what a new edge is, has lost
\* exactly the bits AFL++ was shown: nothing AFL++ has not seen counts as old.
ShadowInStep == virgin_edge = shown \cup (IF pc = "confirmed" THEN map ELSE {})

\* The cache holds the whole edge map of the path it is asked for, although
\* truncated traces look like those of other paths (the target being
\* steady: a path is then confirmed by a run of the same path).  An entry made
\* after a pass that lost trace without an overflow packet is the exception: a
\* later confirmation of the slot without such a loss makes up for it.
CacheExact ==
  steady =>
    \A s \in DOMAIN cache \ spoiled : \A c \in cache[s] : c.map = Edges(c.cksum)

EveryPathHasEdges == \A k \in Keys : \A p \in PathsOf(k) : Edges(p) # {}

\* An input AFL++ was shown a map for is not shown an empty one when it is run
\* again, whatever path it takes, unless its slot was needed or passes lose trace.
\* (A path without edges would be remembered too, with its empty map, and so is
\* an input whose confirmation was cut before the first edge.)
RerunNotEmpty ==
  /\ pc = "discarded" /\ ~may_overflow /\ ~may_cut /\ EveryPathHasEdges
  /\ key \in told \ (evicted \cup {0})
  => map # {}

\* The time to the next purge never degenerates, whatever ratio it adapts to.
PurgeIntervalBounded ==
  purge_interval \in (Level1 * Warmup) \div (Warmup + 1) .. Level4
=============================================================================
