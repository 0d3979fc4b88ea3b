---------------------------- MODULE HybridProofs ----------------------------
(***************************************************************************)
(* Proofs about Hybrid, for every target, every size of the caches and     *)
(* every set of purge levels.                                              *)
(***************************************************************************)
EXTENDS Hybrid, FiniteSetTheorems, TLAPS

CacheEntries == [cksum : Maps, map : SUBSET EdgeBits]
InputEntries == [key : Keys \ {0}, map : SUBSET EdgeBits]

\* The parts of TypeOK, with "at most one entry" put as the steps preserve it.
MapsTypeOK ==
  /\ virgin_atom \subseteq PathBits /\ virgin_atom_real \subseteq PathBits
  /\ virgin_edge \subseteq EdgeBits /\ virgin_missed \subseteq EdgeBits
  /\ atom_check_up \subseteq Nat /\ atom_check_down \subseteq Nat
  /\ path_kept \in [map : Maps, overflow : BOOLEAN, input : Keys]
  /\ pc \in {"idle", "confirm", "discarded", "confirmed"}
  /\ map \subseteq EdgeBits /\ key \in Keys /\ path \in Maps
  /\ steady \in BOOLEAN /\ may_overflow \in BOOLEAN /\ may_cut \in BOOLEAN /\ path_cut \in BOOLEAN
  /\ shown \subseteq EdgeBits /\ told \subseteq Keys

EntriesTypeOK ==
  /\ cache \in [0..CACHE_SLOTS-1 -> SUBSET CacheEntries]
  /\ inputs \in [0..INPUT_SLOTS-1 -> SUBSET InputEntries]
  /\ \A s \in 0..CACHE_SLOTS-1 : \A c, d \in cache[s] : c = d
  /\ \A s \in 0..INPUT_SLOTS-1 : \A e, f \in inputs[s] : e = f
  /\ evicted \subseteq Keys /\ spoiled \subseteq 0..CACHE_SLOTS-1

CountersTypeOK ==
  /\ since_purge \in Nat /\ path_execs \in Nat /\ queued_atom_paths \in Nat
  /\ pre_virgin_bits \in Nat /\ purge_interval \in Nat
  /\ purge_attempt \in Nat /\ purge_real \in Nat

\* The input being confirmed, and the path its map was taken from.
Kept ==
  pc = "confirm" =>
    /\ path_kept.input = key
    /\ ~path_kept.overflow /\ ~path_cut => path_kept.map \in Taken(key)
    /\ path_kept.overflow => may_overflow
    /\ path_cut => may_cut

\* Whatever may be shown again was shown before, or is in trace_bitmap.
EntriesOld ==
  /\ \A s \in DOMAIN cache : \A c \in cache[s] : c.map \subseteq virgin_edge
  /\ \A s \in DOMAIN inputs : \A e \in inputs[s] : e.map \subseteq virgin_edge

\* AFL++ was shown a map for k, or will be at the end of the test case.
Told(k) == k \in told \/ (pc \in {"discarded", "confirmed"} /\ map # {} /\ k = key)

\* Without losses no empty map is kept, and every input that AFL++ was shown a
\* map for is remembered until its slot is taken.
InputsKept ==
  ~may_overflow /\ ~may_cut /\ EveryPathHasEdges =>
    /\ \A s \in DOMAIN cache : \A c \in cache[s] : c.map # {}
    /\ \A s \in DOMAIN inputs : \A e \in inputs[s] : e.map # {}
    /\ \A k \in Keys \ (evicted \cup {0}) :
         Told(k) => \E e \in inputs[InputSlot(k)] : e.key = k

\* Every purge is an attempt.
PurgesCounted == purge_real <= purge_attempt /\ PurgeIntervalBounded

HybridInv ==
  /\ MapsTypeOK /\ EntriesTypeOK /\ CountersTypeOK /\ Kept /\ EntriesOld /\ ShadowInStep /\ NothingNewOnDiscard
  /\ CacheExact /\ InputsKept /\ RerunNotEmpty /\ PurgesCounted
-----------------------------------------------------------------------------
(* The operators                                                           *)

\* The slots of both caches are in range.
LEMMA Slots ==
  /\ \A k \in Keys : InputSlot(k) \in 0..INPUT_SLOTS-1
  /\ \A p \in Maps : CacheSlot(p) \in 0..CACHE_SLOTS-1
<1>1. \A a \in Nat, n \in Nat \ {0} : a % n \in 0..n-1
  OBVIOUS
<1>2. QED
  BY <1>1, HybridAssumption, Zenon DEF InputSlot, CacheSlot

\* An input always has a path, one of Maps.
LEMMA Paths == \A k \in Keys : Taken(k) \subseteq PathsOf(k) /\ Taken(k) \subseteq Maps
BY HybridAssumption, Zenon DEF Taken

\* What may be in a map.
LEMMA Bits ==
  \A p \in Maps :
    /\ Classified(p) \subseteq PathBits
    /\ \A l \in Losses : \A edges \in EdgeMaps(p, l) : edges \subseteq EdgeBits
<1> TAKE p \in Maps
<1>1. Classified(p) \subseteq PathBits
  BY Zenon DEF PathBits
<1>2. Edges(p) \cup UNION Partial(p) \subseteq EdgeBits
  BY Zenon DEF EdgeBits
<1>3. Edges(p) \subseteq EdgeBits /\ \A edges \in Partial(p) : edges \subseteq EdgeBits
  BY <1>2, Zenon
<1>4. QED
  BY <1>1, <1>3, Zenon DEF EdgeMaps

\* A slot that holds nothing or one entry.
LEMMA AtMostOne == ASSUME NEW S, \A x, y \in S : x = y PROVE Cardinality(S) <= 1
<1>1. CASE S = {}
  BY <1>1, FS_EmptySet
<1>2. CASE S # {}
  <2>1. PICK x : S = {x}
    BY <1>2
  <2>2. QED
    BY <2>1, FS_Singleton
<1>3. QED
  BY <1>1, <1>2, Zenon

\* The number of bytes that are not 255 is a number.
LEMMA CountType ==
  ASSUME NEW S, IsFiniteSet(S)
  PROVE  count_non_255_bytes(S) \in Nat
<1> DEFINE f == [bit \in S |-> bit[1]]
           T == {bit[1] : bit \in S}
<1>1. f \in Surjection(S, T)
  BY Zenon DEF Surjection
<1>2. IsFiniteSet(T)
  BY <1>1, FS_Surjection, Zenon
<1>3. QED
  BY <1>2, FS_CardinalityType, Zenon DEF count_non_255_bytes

\* What a step may do to the remembered inputs: an entry stays until another input
\* takes its slot, and a new one holds the map m.
InputsGrow(m) ==
  /\ inputs' \in [0..INPUT_SLOTS-1 -> SUBSET InputEntries]
  /\ \A s \in 0..INPUT_SLOTS-1 :
       /\ \A e, f \in inputs'[s] : e = f
       /\ \A f \in inputs'[s] : f \in inputs[s] \/ f.map = m
       /\ \A e \in inputs[s] : \/ e \in inputs'[s]
                               \/ e.key \in evicted' /\ \A f \in inputs'[s] : f.key # e.key
  /\ evicted \subseteq evicted' /\ evicted' \subseteq Keys

Remembered(k) == \E e \in inputs[InputSlot(k)] : e.key = k

\* A step that leaves them alone is of this kind.
LEMMA InputsStay ==
  ASSUME EntriesTypeOK, UNCHANGED <<inputs, evicted>>, NEW m PROVE InputsGrow(m)
BY Zenon DEF EntriesTypeOK, InputsGrow

\* So is remember_input(), after which the input is remembered.
LEMMA Remembers ==
  ASSUME EntriesTypeOK, NEW k \in Keys, NEW m \in SUBSET EdgeBits, remember_input(k, m)
  PROVE  InputsGrow(m) /\ (k # 0 => Remembered(k)')
<1> DEFINE slot == InputSlot(k)
           new  == [key |-> k, map |-> m]
<1>1. CASE k = 0 \/ \E e \in inputs[slot] : e.key = k
  <2>1. UNCHANGED <<inputs, evicted>>
    BY <1>1, Zenon DEF remember_input
  <2>2. k # 0 => Remembered(k)'
    BY <1>1, <2>1, Zenon DEF Remembered
  <2>3. QED
    BY <2>1, <2>2, InputsStay, Zenon
<1>2. CASE ~(k = 0 \/ \E e \in inputs[slot] : e.key = k)
  <2>1. /\ inputs' = [inputs EXCEPT ![slot] = {new}]
        /\ evicted' = evicted \cup {e.key : e \in inputs[slot]}
    BY <1>2, Zenon DEF remember_input
  <2>2. slot \in 0..INPUT_SLOTS-1 /\ new \in InputEntries /\ new.key = k /\ new.map = m
    BY <1>2, Slots, Zenon DEF InputEntries
  <2> HIDE DEF slot, new
  <2>3. inputs' \in [0..INPUT_SLOTS-1 -> SUBSET InputEntries]
    BY <2>1, <2>2 DEF EntriesTypeOK
  <2>4. inputs'[slot] = {new} /\ \A s \in 0..INPUT_SLOTS-1 : s # slot => inputs'[s] = inputs[s]
    BY <2>1, <2>2 DEF EntriesTypeOK
  <2>5. \A e \in inputs[slot] : e \in InputEntries /\ e.key # k /\ e.key \in evicted'
    BY <1>2, <2>1, <2>2, Zenon DEF EntriesTypeOK, slot
  <2>6. evicted' \subseteq Keys
    BY <2>1, <2>5 DEF EntriesTypeOK, InputEntries
  <2>7. InputsGrow(m)
    BY <2>1, <2>2, <2>3, <2>4, <2>5, <2>6 DEF EntriesTypeOK, InputsGrow
  <2>8. Remembered(k)'
    BY <2>2, <2>4, Zenon DEF Remembered, slot
  <2>9. QED
    BY <2>7, <2>8, Zenon
<1>3. QED
  BY <1>1, <1>2, Zenon

\* discard() shows a map from one of the caches or an empty one, the input's own
\* map first, and the input is remembered unless the map is empty.
LEMMA Discards ==
  ASSUME EntriesTypeOK, NEW k \in Keys, NEW p \in Maps, discard(p, k)
  PROVE  /\ InputsGrow(map') /\ map' \subseteq EdgeBits
         /\ \/ map' = {}
            \/ \E e \in inputs[InputSlot(k)] : map' = e.map
            \/ \E c \in cache[CacheSlot(p)] : map' = c.map
         /\ k # 0 /\ map' # {} => Remembered(k)'
         /\ k # 0 /\ Remembered(k) => \E e \in inputs[InputSlot(k)] : map' = e.map
<1> DEFINE own    == {e \in inputs[InputSlot(k)] : k # 0 /\ e.key = k}
           cached == {c \in cache[CacheSlot(p)] : SameChecksum(c.cksum, p)}
<1>0. /\ \A e \in inputs[InputSlot(k)] : e.map \in SUBSET EdgeBits
      /\ \A c \in cache[CacheSlot(p)] : c.map \in SUBSET EdgeBits
  BY Slots DEF EntriesTypeOK, InputEntries, CacheEntries
<1>1. CASE own # {}
  <2>1. PICK e \in own : map' = e.map
    BY <1>1, Zenon DEF discard
  <2>2. UNCHANGED <<inputs, evicted>>
    BY <1>1, Zenon DEF discard
  <2>3. InputsGrow(map')
    BY <2>2, InputsStay, Zenon
  <2>4. QED
    BY <1>0, <2>1, <2>2, <2>3, Zenon DEF Remembered
<1>2. CASE own = {} /\ cached # {}
  <2>1. PICK c \in cached : map' = c.map /\ remember_input(k, c.map)
    BY <1>2, Zenon DEF discard
  <2>2. InputsGrow(map') /\ (k # 0 => Remembered(k)')
    BY <1>0, <2>1, Remembers, Zenon
  <2>3. QED
    BY <1>0, <1>2, <2>1, <2>2, Zenon DEF Remembered
<1>3. CASE own = {} /\ cached = {}
  <2>1. map' = {} /\ UNCHANGED <<inputs, evicted>>
    BY <1>3, Zenon DEF discard
  <2>2. QED
    BY <1>3, <2>1, InputsStay, Zenon DEF Remembered
<1>4. QED
  BY <1>1, <1>2, <1>3, Zenon

-----------------------------------------------------------------------------
(* What the two passes do                                                  *)

\* The path pass discards the input or keeps its map for the edge pass.
LEMMA PathPass ==
  ASSUME MapsTypeOK, hybrid_after_path
  PROVE  /\ pc = "idle" /\ key' \in Keys /\ path' \in Maps
         /\ UNCHANGED <<virgin_atom_real, virgin_edge, virgin_missed, filterVars, cache,
                        configVars, history, spoiled>>
         /\ virgin_atom' \subseteq PathBits
         /\ \E p \in Maps :
              \/ discard(p, key') /\ pc' = "discarded" /\ UNCHANGED <<path_kept, path_cut>>
              \/ /\ pc' = "confirm" /\ UNCHANGED <<map, inputs, evicted>>
                 /\ path_kept' \in [map : Maps, overflow : BOOLEAN, input : {key'}]
                 /\ path_cut' \in BOOLEAN
                 /\ ~path_kept'.overflow /\ ~path_cut' => path_kept'.map \in Taken(key')
                 /\ (path_kept'.overflow => may_overflow) /\ (path_cut' => may_cut)
<1>1. /\ pc = "idle" /\ key' \in Keys /\ path' \in Taken(key')
      /\ UNCHANGED <<virgin_atom_real, virgin_edge, virgin_missed, filterVars, cache,
                     configVars, history, spoiled>>
  BY Zenon DEF hybrid_after_path
<1>2. PICK loss \in Losses, p \in Maps, atom \in {virgin_atom, virgin_atom_real} :
        /\ p \in IF loss = "none" THEN {path'} ELSE Truncated(path')
        /\ IF Filtered(p) \/ ~has_new_bits(atom, Classified(p))
             THEN /\ virgin_atom' = atom
                  /\ discard(p, key') /\ pc' = "discarded"
                  /\ UNCHANGED <<queued_atom_paths, path_kept, path_cut>>
             ELSE /\ virgin_atom' = atom \cup Classified(p)
                  /\ queued_atom_paths' = queued_atom_paths + 1
                  /\ path_kept' = [map |-> p, overflow |-> loss = "overflow", input |-> key']
                  /\ path_cut' = (loss = "cut")
                  /\ pc' = "confirm" /\ UNCHANGED <<map, inputs, evicted>>
  BY Zenon DEF hybrid_after_path
<1>3. path' \in Maps
  BY <1>1, Paths, Zenon
<1>4. virgin_atom' \subseteq PathBits
  BY <1>2, Bits, Zenon DEF MapsTypeOK
<1> DEFINE overflowed == loss = "overflow"
           cut == loss = "cut"
<1>5. overflowed \in BOOLEAN /\ cut \in BOOLEAN /\ (overflowed => may_overflow) /\ (cut => may_cut)
  BY Zenon DEF Losses, MapsTypeOK
<1>6. ~overflowed /\ ~cut => p \in Taken(key')
  BY <1>1, <1>2, Zenon DEF Losses
<1>7. \/ discard(p, key') /\ pc' = "discarded" /\ UNCHANGED <<path_kept, path_cut>>
      \/ /\ pc' = "confirm" /\ UNCHANGED <<map, inputs, evicted>>
         /\ path_kept' = [map |-> p, overflow |-> overflowed, input |-> key']
         /\ path_cut' = cut
  BY <1>2, Zenon
<1> HIDE DEF overflowed, cut
<1>8. QED
  BY <1>1, <1>3, <1>4, <1>5, <1>6, <1>7

\* The edge pass shows its map, and keeps it unless one of the passes overflowed; the
\* slot is spoiled when one of them was cut.
LEMMA EdgeMap ==
  ASSUME MapsTypeOK, hybrid_after_confirm
  PROVE  /\ pc = "confirm" /\ pc' = "confirmed" /\ path' \in Taken(key)
         /\ path' \in Maps /\ map' \subseteq EdgeBits
         /\ UNCHANGED <<virgin_missed, path_kept, key, configVars, history>>
         /\ virgin_edge' = virgin_edge \cup map' /\ virgin_atom' \subseteq PathBits
         /\ virgin_atom_real' \subseteq PathBits
         /\ atom_check_up' \subseteq Nat /\ atom_check_down' \subseteq Nat
         /\ path_cut' = FALSE
         /\ \/ /\ ~path_kept.overflow
               /\ \/ spoiled' = spoiled \cup {CacheSlot(path_kept.map)} /\ (path_cut \/ may_cut)
                  \/ /\ spoiled' = spoiled \ {CacheSlot(path_kept.map)}
                     /\ ~path_cut /\ map' = Edges(path')
               /\ cache' = [cache EXCEPT ![CacheSlot(path_kept.map)] =
                                {[cksum |-> path_kept.map, map |-> map']}]
               /\ remember_input(path_kept.input, map')
            \/ (path_kept.overflow \/ may_overflow) /\ UNCHANGED <<cache, inputs, evicted, spoiled>>
<1>1. /\ pc = "confirm" /\ pc' = "confirmed" /\ path_cut' = FALSE
      /\ UNCHANGED <<virgin_missed, path_kept, key, configVars, history>>
  BY Zenon DEF hybrid_after_confirm
<1>2. PICK loss \in Losses :
       /\ EdgePass(loss)
       /\ \E atom \in {virgin_atom, virgin_atom_real} : virgin_atom' = atom
       /\ virgin_edge' = virgin_edge \cup map'
       /\ \/ /\ virgin_atom_real' = virgin_atom_real \cup Classified(path_kept.map)
             /\ UNCHANGED filterVars
          \/ /\ atom_check_up' = atom_check_up \cup {Up(path_kept.map)}
             /\ atom_check_down' = atom_check_down \cup {Down(path_kept.map)}
             /\ UNCHANGED virgin_atom_real
       /\ IF Complete(loss = "overflow")
            THEN /\ cache' = [cache EXCEPT ![CacheSlot(path_kept.map)] =
                                {[cksum |-> path_kept.map, map |-> map']}]
                 /\ remember_input(path_kept.input, map')
                 /\ spoiled' = IF path_cut \/ loss = "cut"
                                 THEN spoiled \cup {CacheSlot(path_kept.map)}
                                 ELSE spoiled \ {CacheSlot(path_kept.map)}
            ELSE UNCHANGED <<cache, inputs, evicted, spoiled>>
  BY Zenon DEF hybrid_after_confirm
<1>3. /\ loss = "overflow" => may_overflow
      /\ loss = "cut" => may_cut
      /\ loss # "overflow" /\ loss # "cut" => loss = "none"
  BY Zenon DEF Losses
<1>4. path' \in Taken(key) /\ path' \in Maps
  BY <1>2, Paths, Zenon DEF EdgePass, MapsTypeOK
<1>5. map' \in EdgeMaps(path', loss) /\ (loss = "none" => map' = Edges(path'))
  BY <1>2, Zenon DEF EdgePass, EdgeMaps
<1>6. map' \subseteq EdgeBits
  BY <1>4, <1>5, Bits, Zenon
<1>7. /\ virgin_atom' \subseteq PathBits /\ virgin_atom_real' \subseteq PathBits
      /\ atom_check_up' \subseteq Nat /\ atom_check_down' \subseteq Nat
  <2>1. path_kept.map \in Maps
    BY Zenon DEF MapsTypeOK
  <2>2. /\ Classified(path_kept.map) \subseteq PathBits
        /\ Up(path_kept.map) \in Nat /\ Down(path_kept.map) \in Nat
    BY <2>1, Bits, HybridAssumption, Zenon
  <2>3. QED
    BY <1>2, <2>2, Zenon DEF MapsTypeOK, filterVars
<1>8. \/ /\ ~path_kept.overflow
         /\ \/ spoiled' = spoiled \cup {CacheSlot(path_kept.map)} /\ (path_cut \/ may_cut)
            \/ /\ spoiled' = spoiled \ {CacheSlot(path_kept.map)}
               /\ ~path_cut /\ map' = Edges(path')
         /\ cache' = [cache EXCEPT ![CacheSlot(path_kept.map)] =
                          {[cksum |-> path_kept.map, map |-> map']}]
         /\ remember_input(path_kept.input, map')
      \/ (path_kept.overflow \/ may_overflow) /\ UNCHANGED <<cache, inputs, evicted, spoiled>>
  BY <1>2, <1>3, <1>5, Zenon DEF Complete
<1>9. QED
  BY <1>1, <1>2, <1>4, <1>6, <1>7, <1>8, Zenon

-----------------------------------------------------------------------------
(* Every step preserves the invariant.                                     *)

\* The types of the maps and of the input at hand.
LEMMA MapsTypeStep == MapsTypeOK /\ EntriesTypeOK /\ [Next]_vars => MapsTypeOK'
<1> SUFFICES ASSUME MapsTypeOK, EntriesTypeOK, [Next]_vars PROVE MapsTypeOK'
  BY Zenon
<1> USE DEF filterVars, configVars, history, cutVars
<1>1. CASE hybrid_after_path
  <2>1. PICK p \in Maps :
              \/ discard(p, key') /\ pc' = "discarded" /\ UNCHANGED <<path_kept, path_cut>>
              \/ /\ pc' = "confirm" /\ UNCHANGED map /\ path_cut' \in BOOLEAN
                 /\ path_kept' \in [map : Maps, overflow : BOOLEAN, input : {key'}]
    BY <1>1, PathPass, Zenon
  <2>2. key' \in Keys
    BY <1>1, PathPass, Zenon
  <2>3. map' \subseteq EdgeBits
    BY <2>1, <2>2, Discards, Zenon DEF MapsTypeOK
  <2>4. path_kept' \in [map : Maps, overflow : BOOLEAN, input : Keys] /\ path_cut' \in BOOLEAN
    BY <2>1, <2>2, Zenon DEF MapsTypeOK
  <2>5. QED
    BY <1>1, <2>1, <2>3, <2>4, PathPass, Zenon DEF MapsTypeOK
<1>2. CASE hybrid_after_confirm
  BY <1>2, EdgeMap, Zenon DEF MapsTypeOK
<1>3. CASE hybrid_after_sample
  <2>1. path' \in Maps
    BY <1>3, Paths, Zenon DEF hybrid_after_sample, MapsTypeOK
  <2>2. virgin_missed' \subseteq EdgeBits
    BY <1>3, <2>1, Bits, Zenon DEF hybrid_after_sample, MapsTypeOK
  <2>3. QED
    BY <1>3, <2>1, <2>2, Zenon DEF hybrid_after_sample, MapsTypeOK
<1>4. CASE EndTestcase
  BY <1>4, Zenon DEF EndTestcase, MapsTypeOK
<1>5. CASE UNCHANGED vars
  BY <1>5, Zenon DEF vars, MapsTypeOK
<1>6. QED
  BY <1>1, <1>2, <1>3, <1>4, <1>5, Zenon DEF Next

\* What a step may do to the two caches.
LEMMA EntriesChange ==
  ASSUME HybridInv, [Next]_vars
  PROVE  /\ \E m : InputsGrow(m) /\ (m = map' \/ UNCHANGED <<inputs, evicted>>)
         /\ \/ UNCHANGED <<cache, spoiled>>
            \/ /\ hybrid_after_confirm /\ ~path_kept.overflow
               /\ \/ spoiled' = spoiled \cup {CacheSlot(path_kept.map)}
                  \/ /\ spoiled' = spoiled \ {CacheSlot(path_kept.map)}
                     /\ ~path_cut /\ map' = Edges(path')
               /\ cache' = [cache EXCEPT ![CacheSlot(path_kept.map)] =
                                {[cksum |-> path_kept.map, map |-> map']}]
<1> USE DEF HybridInv
<1>1. CASE hybrid_after_path
  <2>1. PICK p \in Maps : discard(p, key') \/ UNCHANGED <<inputs, evicted>>
    BY <1>1, PathPass, Zenon
  <2>2. key' \in Keys /\ UNCHANGED <<cache, spoiled>>
    BY <1>1, PathPass, Zenon
  <2>3. InputsGrow(map')
    BY <2>1, <2>2, Discards, InputsStay, Zenon
  <2>4. QED
    BY <2>2, <2>3, Zenon
<1>2. CASE hybrid_after_confirm
  <2>1. CASE UNCHANGED <<cache, inputs, evicted, spoiled>>
    BY <1>2, <2>1, EdgeMap, InputsStay, Zenon
  <2>2. CASE /\ ~path_kept.overflow
             /\ \/ spoiled' = spoiled \cup {CacheSlot(path_kept.map)}
                \/ /\ spoiled' = spoiled \ {CacheSlot(path_kept.map)}
                   /\ ~path_cut /\ map' = Edges(path')
             /\ cache' = [cache EXCEPT ![CacheSlot(path_kept.map)] =
                              {[cksum |-> path_kept.map, map |-> map']}]
             /\ remember_input(path_kept.input, map')
    <3>1. path_kept.input \in Keys /\ map' \in SUBSET EdgeBits
      BY <1>2, EdgeMap, Zenon DEF MapsTypeOK
    <3>2. InputsGrow(map')
      BY <2>2, <3>1, Remembers, Zenon
    <3>3. QED
      BY <1>2, <2>2, <3>2, Zenon
  <2>3. QED
    BY <1>2, <2>1, <2>2, EdgeMap, Zenon
<1>3. CASE hybrid_after_sample \/ EndTestcase \/ UNCHANGED vars
  <2>1. UNCHANGED <<cache, inputs, evicted, spoiled>>
    BY <1>3, Zenon DEF hybrid_after_sample, EndTestcase, vars, cutVars
  <2>2. QED
    BY <2>1, InputsStay, Zenon
<1>4. QED
  BY <1>1, <1>2, <1>3, Zenon DEF Next

\* The caches keep at most one entry per slot.
LEMMA EntriesTypeStep == HybridInv /\ [Next]_vars => EntriesTypeOK'
<1> SUFFICES ASSUME HybridInv, [Next]_vars PROVE EntriesTypeOK'
  BY Zenon
<1>1. PICK m : InputsGrow(m)
  BY EntriesChange, Zenon
<1>2. CASE UNCHANGED <<cache, spoiled>>
  BY <1>1, <1>2, Zenon DEF HybridInv, EntriesTypeOK, InputsGrow
<1>3. CASE /\ hybrid_after_confirm
           /\ spoiled' \subseteq spoiled \cup {CacheSlot(path_kept.map)}
           /\ cache' = [cache EXCEPT ![CacheSlot(path_kept.map)] =
                            {[cksum |-> path_kept.map, map |-> map']}]
  <2>1. path_kept.map \in Maps /\ map' \subseteq EdgeBits
    BY <1>3, EdgeMap, Zenon DEF HybridInv, MapsTypeOK
  <2>2. /\ [cksum |-> path_kept.map, map |-> map'] \in CacheEntries
        /\ CacheSlot(path_kept.map) \in 0..CACHE_SLOTS-1
    BY <2>1, Slots, Zenon DEF CacheEntries
  <2>3. QED
    BY <1>1, <1>3, <2>2 DEF HybridInv, EntriesTypeOK, InputsGrow
<1>4. QED
  BY <1>2, <1>3, EntriesChange, Zenon

\* The input and the path that wait for their edge pass.
LEMMA KeptStep == HybridInv /\ [Next]_vars => Kept'
<1> SUFFICES ASSUME HybridInv, [Next]_vars, pc' = "confirm" PROVE Kept'
  BY Zenon DEF Kept
<1> USE DEF configVars
<1>1. CASE hybrid_after_path
  <2>1. /\ path_kept' \in [map : Maps, overflow : BOOLEAN, input : {key'}]
        /\ ~path_kept'.overflow /\ ~path_cut' => path_kept'.map \in Taken(key')
        /\ (path_kept'.overflow => may_overflow) /\ (path_cut' => may_cut)
        /\ UNCHANGED configVars
    BY <1>1, PathPass, Zenon DEF HybridInv
  <2>2. Taken(key') = Taken(key)'
    BY <2>1, Zenon DEF Taken
  <2>3. QED
    BY <2>1, <2>2, Zenon DEF Kept
<1>2. CASE UNCHANGED vars
  BY <1>2, Zenon DEF vars, cutVars, HybridInv, Kept, Taken
<1>3. QED
  BY <1>1, <1>2, Zenon DEF Next, hybrid_after_confirm, hybrid_after_sample, EndTestcase

\* The shadow, and with it what may be shown again.
LEMMA ShadowStep ==
  HybridInv /\ [Next]_vars => ShadowInStep' /\ EntriesOld' /\ NothingNewOnDiscard'
<1> SUFFICES ASSUME HybridInv, [Next]_vars
             PROVE  ShadowInStep' /\ EntriesOld' /\ NothingNewOnDiscard'
  BY Zenon
<1>1. virgin_edge \subseteq virgin_edge' /\ (hybrid_after_confirm => map' \subseteq virgin_edge')
  <2>1. CASE hybrid_after_path
    BY <2>1, PathPass, Zenon DEF HybridInv, hybrid_after_confirm
  <2>2. CASE hybrid_after_confirm
    BY <2>2, EdgeMap, Zenon DEF HybridInv
  <2>3. CASE hybrid_after_sample \/ EndTestcase \/ UNCHANGED vars
    BY <2>3, Zenon DEF hybrid_after_sample, EndTestcase, vars, hybrid_after_confirm
  <2>4. QED
    BY <2>1, <2>2, <2>3, Zenon DEF Next
<1>2. hybrid_after_path =>
        map' \subseteq virgin_edge \/ (pc' = "confirm" /\ UNCHANGED <<inputs, evicted>>)
  <2> SUFFICES ASSUME hybrid_after_path
               PROVE  map' \subseteq virgin_edge \/ (pc' = "confirm" /\ UNCHANGED <<inputs, evicted>>)
    BY Zenon
  <2>1. PICK p \in Maps : discard(p, key') \/ (pc' = "confirm" /\ UNCHANGED <<inputs, evicted>>)
    BY PathPass, Zenon DEF HybridInv
  <2>2. CASE discard(p, key')
    <3>1. key' \in Keys
      BY PathPass, Zenon DEF HybridInv
    <3>2. \/ map' = {}
          \/ \E e \in inputs[InputSlot(key')] : map' = e.map
          \/ \E c \in cache[CacheSlot(p)] : map' = c.map
      BY <2>2, <3>1, Discards, Zenon DEF HybridInv
    <3>3. InputSlot(key') \in DOMAIN inputs /\ CacheSlot(p) \in DOMAIN cache
      BY <3>1, Slots, Zenon DEF HybridInv, EntriesTypeOK
    <3>4. QED
      BY <3>2, <3>3, Zenon DEF HybridInv, EntriesOld
  <2>3. QED
    BY <2>1, <2>2, Zenon
<1>3. EntriesOld'
  <2>1. PICK m : InputsGrow(m) /\ (m = map' \/ UNCHANGED <<inputs, evicted>>)
    BY EntriesChange, Zenon
  <2>2. UNCHANGED inputs \/ map' \subseteq virgin_edge'
    <3>1. CASE hybrid_after_sample \/ EndTestcase \/ UNCHANGED vars
      BY <3>1, Zenon DEF hybrid_after_sample, EndTestcase, vars
    <3>2. QED
      BY <1>1, <1>2, <3>1, Zenon DEF Next
  <2>3. \A s \in DOMAIN inputs' : \A f \in inputs'[s] : f.map \subseteq virgin_edge'
    <3>1. DOMAIN inputs' = 0..INPUT_SLOTS-1 /\ DOMAIN inputs = 0..INPUT_SLOTS-1
      BY <2>1, Zenon DEF InputsGrow, HybridInv, EntriesTypeOK
    <3>2. CASE UNCHANGED inputs
      BY <1>1, <3>2, Zenon DEF HybridInv, EntriesOld
    <3>3. CASE m = map' /\ map' \subseteq virgin_edge'
      BY <1>1, <2>1, <3>1, <3>3 DEF InputsGrow, HybridInv, EntriesOld
    <3>4. QED
      BY <2>1, <2>2, <3>2, <3>3, Zenon
  <2>4. \A s \in DOMAIN cache' : \A c \in cache'[s] : c.map \subseteq virgin_edge'
    <3>1. CASE UNCHANGED cache
      BY <1>1, <3>1, Zenon DEF HybridInv, EntriesOld
    <3>2. CASE /\ hybrid_after_confirm
               /\ cache' = [cache EXCEPT ![CacheSlot(path_kept.map)] =
                                {[cksum |-> path_kept.map, map |-> map']}]
      BY <1>1, <3>2 DEF HybridInv, EntriesOld
    <3>3. QED
      BY <3>1, <3>2, EntriesChange, Zenon
  <2>5. QED
    BY <2>3, <2>4, Zenon DEF EntriesOld
<1>4. ShadowInStep' /\ NothingNewOnDiscard'
  <2> USE DEF HybridInv, ShadowInStep, NothingNewOnDiscard
  <2>1. CASE hybrid_after_path
    <3>1. pc' \in {"discarded", "confirm"} /\ pc = "idle" /\ UNCHANGED <<virgin_edge, shown>>
      BY <2>1, PathPass, Zenon DEF history
    <3>2. QED
      BY <1>2, <2>1, <3>1, Zenon
  <2>2. CASE hybrid_after_confirm
    BY <2>2, EdgeMap, Zenon DEF history
  <2>3. CASE hybrid_after_sample
    BY <2>3, Zenon DEF hybrid_after_sample, history
  <2>4. CASE EndTestcase
    BY <2>4, Zenon DEF EndTestcase, MapsTypeOK
  <2>5. CASE UNCHANGED vars
    BY <2>5, Zenon DEF vars, history
  <2>6. QED
    BY <2>1, <2>2, <2>3, <2>4, <2>5, Zenon DEF Next
<1>5. QED
  BY <1>3, <1>4, Zenon

\* What a steady target is remembered by.
LEMMA CacheExactStep == HybridInv /\ [Next]_vars => CacheExact'
<1> SUFFICES ASSUME HybridInv, [Next]_vars, steady' PROVE CacheExact'
  BY Zenon DEF CacheExact
<1>0. steady
  BY Zenon DEF Next, hybrid_after_path, hybrid_after_confirm, hybrid_after_sample, EndTestcase,
         vars, configVars
<1>1. CASE UNCHANGED <<cache, spoiled>>
  BY <1>0, <1>1, Zenon DEF HybridInv, CacheExact
<1> DEFINE slot == CacheSlot(path_kept.map)
<1>2. CASE /\ hybrid_after_confirm /\ ~path_kept.overflow
           /\ spoiled' = spoiled \ {slot} /\ ~path_cut /\ map' = Edges(path')
           /\ cache' = [cache EXCEPT ![CacheSlot(path_kept.map)] =
                            {[cksum |-> path_kept.map, map |-> map']}]
  <2>1. path' \in Taken(key) /\ path_kept.map \in Taken(key)
    BY <1>2, EdgeMap, Zenon DEF HybridInv, Kept
  <2>2. path' = path_kept.map
    BY <1>0, <2>1, Zenon DEF Taken
  <2>3. QED
    BY <1>0, <1>2, <2>2 DEF HybridInv, CacheExact
<1>3. CASE /\ spoiled' = spoiled \cup {slot}
           /\ cache' = [cache EXCEPT ![slot] = {[cksum |-> path_kept.map, map |-> map']}]
  BY <1>0, <1>3 DEF HybridInv, CacheExact
<1>4. QED
  BY <1>1, <1>2, <1>3, EntriesChange, Zenon

\* Re-runs: an input keeps its entry until it is evicted, and is answered from it.
LEMMA RerunStep == HybridInv /\ [Next]_vars => InputsKept' /\ RerunNotEmpty'
<1> SUFFICES ASSUME HybridInv, [Next]_vars, ~may_overflow', ~may_cut', EveryPathHasEdges
             PROVE  InputsKept' /\ RerunNotEmpty'
  BY Zenon DEF InputsKept, RerunNotEmpty, EveryPathHasEdges
<1>0. ~may_overflow /\ ~may_cut
  <2>1. UNCHANGED configVars
    BY Zenon DEF Next, hybrid_after_path, hybrid_after_confirm, hybrid_after_sample, EndTestcase,
           vars
  <2>2. QED
    BY <2>1, Zenon DEF configVars
<1>1. /\ \A s \in DOMAIN cache : \A c \in cache[s] : c.map # {}
      /\ \A s \in DOMAIN inputs : \A e \in inputs[s] : e.map # {}
      /\ \A k \in Keys \ (evicted \cup {0}) : Told(k) => Remembered(k)
  BY <1>0, Zenon DEF HybridInv, InputsKept, Remembered
<1>2. PICK m : InputsGrow(m) /\ (m = map' \/ UNCHANGED <<inputs, evicted>>)
  BY EntriesChange, Zenon
<1>3. DOMAIN inputs = 0..INPUT_SLOTS-1 /\ DOMAIN inputs' = 0..INPUT_SLOTS-1
  BY <1>2, Zenon DEF InputsGrow, HybridInv, EntriesTypeOK
<1>4. \A k \in Keys \ (evicted' \cup {0}) : k \notin evicted /\ (Remembered(k) => Remembered(k)')
  BY <1>2, Slots DEF InputsGrow, Remembered
<1>5. hybrid_after_confirm =>
        /\ map' # {} /\ key' = key /\ key \in Keys /\ (key # 0 => Remembered(key)')
  <2> SUFFICES ASSUME hybrid_after_confirm
               PROVE  map' # {} /\ key' = key /\ key \in Keys /\ (key # 0 => Remembered(key)')
    BY Zenon
  <2>1. path_kept.input = key /\ ~path_kept.overflow /\ ~path_cut /\ key \in Keys
    BY <1>0, EdgeMap, Zenon DEF HybridInv, Kept, MapsTypeOK
  <2>2. map' = Edges(path') /\ remember_input(key, map') /\ path' \in Taken(key)
    BY <1>0, <2>1, EdgeMap, Zenon DEF HybridInv
  <2>3. map' # {}
    BY <2>1, <2>2, Paths, Zenon DEF EveryPathHasEdges
  <2>4. map' \in SUBSET EdgeBits /\ key' = key
    BY EdgeMap, Zenon DEF HybridInv
  <2>5. key # 0 => Remembered(key)'
    <3>1. \A k \in Keys : remember_input(k, map') /\ k # 0 => \E e \in inputs'[InputSlot(k)] : e.key = k
      BY <2>4, Remembers, Zenon DEF HybridInv, Remembered
    <3>2. QED
      BY <2>1, <2>2, <2>4, <3>1, Zenon DEF Remembered
  <2>6. QED
    BY <2>1, <2>3, <2>4, <2>5, Zenon
<1>6. hybrid_after_path =>
        \/ pc' = "confirm" /\ UNCHANGED inputs
        \/ /\ pc' = "discarded" /\ (map' # {} \/ UNCHANGED inputs)
           /\ key' \in Keys
           /\ key' # 0 /\ map' # {} => \E e \in inputs'[InputSlot(key')] : e.key = key'
           /\ key' # 0 /\ Remembered(key') => map' # {}
  <2> SUFFICES ASSUME hybrid_after_path, pc' # "confirm"
               PROVE  /\ pc' = "discarded" /\ (map' # {} \/ UNCHANGED inputs)
                      /\ key' \in Keys
                      /\ key' # 0 /\ map' # {} => \E e \in inputs'[InputSlot(key')] : e.key = key'
                      /\ key' # 0 /\ Remembered(key') => map' # {}
    BY PathPass, Zenon DEF HybridInv
  <2>1. PICK p \in Maps : discard(p, key') /\ pc' = "discarded"
    BY PathPass, Zenon DEF HybridInv
  <2>2. key' \in Keys /\ InputSlot(key') \in DOMAIN inputs /\ CacheSlot(p) \in DOMAIN cache
    BY PathPass, Slots, Zenon DEF HybridInv, EntriesTypeOK
  <2>3. key' # 0 /\ Remembered(key') => \E e \in inputs[InputSlot(key')] : map' = e.map
    BY <2>1, <2>2, Discards, Zenon DEF HybridInv
  <2>4. \A k \in Keys : discard(p, k) /\ k # 0 /\ map' # {} => \E e \in inputs'[InputSlot(k)] : e.key = k
    BY Discards, Zenon DEF HybridInv, Remembered
  <2>5. map' # {} \/ UNCHANGED inputs
    BY <1>1, <2>1, <2>2, Zenon DEF discard
  <2>6. QED
    BY <1>1, <2>1, <2>2, <2>3, <2>4, <2>5, Zenon
<1>7. UNCHANGED inputs \/ map' # {}
  <2>1. CASE hybrid_after_sample \/ EndTestcase \/ UNCHANGED vars
    BY <2>1, Zenon DEF hybrid_after_sample, EndTestcase, vars
  <2>2. QED
    BY <1>5, <1>6, <2>1, Zenon DEF Next
<1>8. /\ \A s \in DOMAIN cache' : \A c \in cache'[s] : c.map # {}
      /\ \A s \in DOMAIN inputs' : \A e \in inputs'[s] : e.map # {}
  <2>1. \A s \in DOMAIN inputs' : \A e \in inputs'[s] : e.map # {}
    BY <1>1, <1>2, <1>3, <1>7, Zenon DEF InputsGrow
  <2>2. CASE UNCHANGED cache
    BY <1>1, <2>1, <2>2, Zenon
  <2>3. CASE /\ hybrid_after_confirm
             /\ cache' = [cache EXCEPT ![CacheSlot(path_kept.map)] =
                              {[cksum |-> path_kept.map, map |-> map']}]
    BY <1>1, <1>5, <2>1, <2>3
  <2>4. QED
    BY <2>2, <2>3, EntriesChange, Zenon
<1>9. ASSUME NEW k \in Keys \ (evicted' \cup {0}), Told(k)' PROVE Remembered(k)'
  <2>1. CASE Told(k)
    BY <1>1, <1>4, <2>1, Zenon
  <2>2. CASE ~Told(k)
    <3>1. \/ hybrid_after_confirm /\ k = key'
          \/ hybrid_after_path /\ k = key' /\ pc' = "discarded" /\ map' # {}
      BY <1>9, <2>2, PathPass, EdgeMap, Zenon DEF Told, Next, hybrid_after_sample, EndTestcase,
         vars, HybridInv, history
    <3>2. QED
      BY <1>5, <1>6, <3>1, Zenon DEF Remembered
  <2>3. QED
    BY <2>1, <2>2, Zenon
<1>10. RerunNotEmpty'
  <2> SUFFICES ASSUME pc' = "discarded", key' \in told' \ (evicted' \cup {0}) PROVE map' # {}
    BY Zenon DEF RerunNotEmpty
  <2>1. CASE hybrid_after_path
    <3>1. told' = told /\ key' \in Keys
      BY <2>1, PathPass, Zenon DEF HybridInv, history
    <3>2. Remembered(key')
      BY <1>1, <1>4, <3>1, Zenon DEF Told
    <3>3. QED
      BY <1>6, <2>1, <3>2, Zenon
  <2>2. CASE hybrid_after_sample \/ UNCHANGED vars
    BY <1>0, <2>2, Zenon DEF hybrid_after_sample, vars, history, HybridInv, RerunNotEmpty
  <2>3. QED
    BY <2>1, <2>2, Zenon DEF Next, hybrid_after_confirm, EndTestcase
<1>11. QED
  BY <1>8, <1>9, <1>10, Zenon DEF InputsKept, Remembered

\* A level scaled by attempts per purge, when all purges but the last are counted
\* as attempts, keeps the share W / (W + 1) of it from the purge after W on.
LEMMA ScaledLevel ==
  ASSUME NEW lo \in Nat, NEW level \in Nat, lo <= level, NEW W \in Nat \ {0},
         NEW attempts \in Nat, NEW purges \in Nat, W < purges, purges <= attempts + 1
  PROVE  /\ (level * attempts) \div purges \in Nat
         /\ (lo * W) \div (W + 1) <= (level * attempts) \div purges
<1> DEFINE q == (lo * W) \div (W + 1)
           x == level * attempts
           r == x \div purges
<1>1. lo * W \in Nat /\ x \in Nat
  OBVIOUS
<1>2. q \in Nat /\ q * (W + 1) <= lo * W
  BY <1>1
<1>3. q <= lo
  <2>1. lo * W < (lo + 1) * (W + 1)
    OBVIOUS
  <2> HIDE DEF q
  <2>2. q * (W + 1) < (lo + 1) * (W + 1)
    BY <1>1, <1>2, <2>1
  <2>3. QED
    BY <1>2, <2>2
<1>4. r \in Nat /\ x < (r + 1) * purges
  BY <1>1
<1> HIDE DEF q, r
<1>5. PICK d \in Nat : purges = W + 1 + d
  <2>1. purges - (W + 1) \in Nat /\ purges = W + 1 + (purges - (W + 1))
    OBVIOUS
  <2>2. QED
    BY <2>1, Zenon
<1>6. q * purges <= lo * (W + d)
  <2>1. q * d <= lo * d
    BY <1>2, <1>3, <1>5
  <2>2. q * purges = q * (W + 1) + q * d
    BY <1>2, <1>5
  <2>3. lo * (W + d) = lo * W + lo * d
    BY <1>5
  <2>4. QED
    BY <1>2, <2>1, <2>2, <2>3
<1>7. lo * (W + d) <= x
  <2>1. W + d <= attempts
    BY <1>5
  <2>2. lo * (W + d) <= lo * attempts
    BY <1>5, <2>1
  <2>3. lo * attempts <= level * attempts
    OBVIOUS
  <2>4. QED
    BY <1>5, <2>2, <2>3
<1>8. q * purges < (r + 1) * purges
  BY <1>1, <1>2, <1>4, <1>5, <1>6, <1>7
<1>9. q <= r
  BY <1>2, <1>4, <1>8
<1>10. QED
  BY <1>4, <1>9, Zenon DEF q, r

\* The first interval, Level1, is in the range too.
LEMMA FirstInterval ==
  /\ (Level1 * Warmup) \div (Warmup + 1) \in Nat /\ Level4 \in Nat
  /\ Level1 \in (Level1 * Warmup) \div (Warmup + 1) .. Level4
<1> DEFINE least == (Level1 * Warmup) \div (Warmup + 1)
<1>1. Level1 \in Nat /\ Level4 \in Nat /\ Level1 <= Level4 /\ Warmup \in Nat \ {0}
  BY HybridAssumption
<1>2. least \in Nat /\ least * (Warmup + 1) <= Level1 * Warmup
  BY <1>1
<1>3. Level1 * Warmup < (Level1 + 1) * (Warmup + 1)
  BY <1>1
<1> HIDE DEF least
<1>4. least * (Warmup + 1) < (Level1 + 1) * (Warmup + 1)
  BY <1>1, <1>2, <1>3
<1>5. least <= Level1
  BY <1>1, <1>2, <1>4
<1>6. least \in Nat /\ Level4 \in Nat /\ Level1 \in least .. Level4
  BY <1>1, <1>2, <1>5
<1>7. QED
  BY <1>6, Zenon DEF least

\* The levels, and the interval that is adapted to them.
LEMMA Adapted ==
  ASSUME NEW attempts \in Nat, NEW purges \in Nat, Warmup < purges, purges <= attempts + 1
  PROVE  AdaptedInterval(attempts, purges) \in (Level1 * Warmup) \div (Warmup + 1) .. Level4
<1> DEFINE least  == (Level1 * Warmup) \div (Warmup + 1)
           scaled == (PurgeLevel * attempts) \div purges
<1>1. /\ Level1 \in Nat /\ Level4 \in Nat /\ Level1 <= Level4 /\ Warmup \in Nat \ {0}
      /\ PurgeLevel \in Nat /\ Level1 <= PurgeLevel
  BY HybridAssumption DEF PurgeLevel
<1>2. scaled \in Nat /\ least <= scaled
  BY <1>1, ScaledLevel, Zenon
<1>3. least \in Nat
  BY FirstInterval, Zenon
<1> HIDE DEF least, scaled
<1>4. AdaptedInterval(attempts, purges) = IF scaled > Level4 THEN Level4 ELSE scaled
  BY Zenon DEF AdaptedInterval, scaled
<1>5. least <= Level4
  BY <1>1, <1>3, FirstInterval DEF least
<1>6. AdaptedInterval(attempts, purges) \in least .. Level4
  BY <1>1, <1>2, <1>3, <1>4, <1>5
<1>7. QED
  BY <1>6, Zenon DEF least

\* purge_check() counts, and leaves an interval in the range.
LEMMA PurgeCheck ==
  ASSUME HybridInv, NEW atom, purge_check(atom)
  PROVE  /\ since_purge' \in Nat /\ pre_virgin_bits' \in Nat /\ purge_interval' \in Nat
         /\ purge_attempt' \in Nat /\ purge_real' \in Nat /\ PurgesCounted'
<1>1. /\ since_purge \in Nat /\ pre_virgin_bits \in Nat /\ purge_interval \in Nat
      /\ purge_attempt \in Nat /\ purge_real \in Nat /\ purge_real <= purge_attempt
      /\ PurgeIntervalBounded
  BY Zenon DEF HybridInv, CountersTypeOK, PurgesCounted
<1>2. CASE since_purge + 1 < purge_interval
  BY <1>1, <1>2 DEF purge_check, PurgesCounted, PurgeIntervalBounded
<1>3. CASE ~(since_purge + 1 < purge_interval)
  <2>1. /\ pre_virgin_bits' = count_non_255_bytes(virgin_edge)
        /\ since_purge' = 0 /\ purge_attempt' = purge_attempt + 1
        /\ \/ /\ purge_real' = purge_real + 1
              /\ purge_interval' = IF purge_real' > Warmup
                                     THEN AdaptedInterval(purge_attempt, purge_real')
                                     ELSE purge_interval
           \/ UNCHANGED <<purge_real, purge_interval>>
    BY <1>3, Zenon DEF purge_check
  <2>2. pre_virgin_bits' \in Nat
    <3>1. IsFiniteSet(virgin_edge)
      BY BitsAssumption, FS_Subset, Zenon DEF HybridInv, MapsTypeOK
    <3>2. QED
      BY <2>1, <3>1, CountType, Zenon
  <2>3. /\ since_purge' \in Nat /\ purge_attempt' \in Nat /\ purge_real' \in Nat
        /\ purge_real' <= purge_attempt'
    BY <1>1, <2>1
  <2>4. PurgeIntervalBounded'
    <3>1. CASE UNCHANGED purge_interval
      BY <1>1, <3>1, Zenon DEF PurgeIntervalBounded
    <3>2. CASE /\ purge_real' = purge_real + 1 /\ purge_real' > Warmup
               /\ purge_interval' = AdaptedInterval(purge_attempt, purge_real')
      <4>1. Warmup < purge_real' /\ purge_real' <= purge_attempt + 1 /\ purge_real' \in Nat
        BY <1>1, <3>2, HybridAssumption
      <4>2. QED
        BY <1>1, <3>2, <4>1, Adapted, Zenon DEF PurgeIntervalBounded
    <3>3. QED
      BY <2>1, <3>1, <3>2, Zenon
  <2>5. purge_interval' \in Nat
    BY <2>4, FirstInterval DEF PurgeIntervalBounded
  <2>6. QED
    BY <2>2, <2>3, <2>4, <2>5, Zenon DEF PurgesCounted
<1>4. QED
  BY <1>2, <1>3, Zenon

\* The counters and the purge interval.
LEMMA CountersStep == HybridInv /\ [Next]_vars => CountersTypeOK' /\ PurgesCounted'
<1> SUFFICES ASSUME HybridInv, [Next]_vars PROVE CountersTypeOK' /\ PurgesCounted'
  BY Zenon
<1>0. path_execs \in Nat /\ queued_atom_paths \in Nat
  BY Zenon DEF HybridInv, CountersTypeOK
<1>1. CASE hybrid_after_path
  <2>1. PICK atom : purge_check(atom)
    BY <1>1, Zenon DEF hybrid_after_path
  <2>2. /\ path_execs' = path_execs + 1
        /\ queued_atom_paths' = queued_atom_paths + 1 \/ UNCHANGED queued_atom_paths
    BY <1>1, Zenon DEF hybrid_after_path
  <2>3. QED
    BY <1>0, <2>1, <2>2, PurgeCheck DEF CountersTypeOK
<1>2. CASE hybrid_after_confirm
  <2>1. PICK atom : purge_check(atom)
    BY <1>2, Zenon DEF hybrid_after_confirm
  <2>2. UNCHANGED <<path_execs, queued_atom_paths>>
    BY <1>2, Zenon DEF hybrid_after_confirm
  <2>3. QED
    BY <1>0, <2>1, <2>2, PurgeCheck, Zenon DEF CountersTypeOK
<1>3. CASE hybrid_after_sample \/ EndTestcase \/ UNCHANGED vars
  <2>1. UNCHANGED purgeVars
    BY <1>3, Zenon DEF hybrid_after_sample, EndTestcase, vars
  <2>2. QED
    BY <2>1, Zenon DEF HybridInv, CountersTypeOK, PurgesCounted, PurgeIntervalBounded, purgeVars
<1>4. QED
  BY <1>1, <1>2, <1>3, Zenon DEF Next

-----------------------------------------------------------------------------
(* The theorems                                                            *)

\* hybrid_init() establishes the invariant.
LEMMA InitInv == Init => HybridInv
<1> SUFFICES ASSUME Init PROVE HybridInv
  BY Zenon
<1>1. key \in Keys /\ path \in Maps
  <2>1. Maps # {} /\ 0 \in Keys
    BY HybridAssumption, Zenon
  <2>2. QED
    BY <2>1, Zenon DEF Init
<1>2. MapsTypeOK
  BY <1>1, Zenon DEF Init, MapsTypeOK
<1>3. /\ EntriesTypeOK /\ EntriesOld /\ CacheExact /\ Kept /\ ShadowInStep
      /\ NothingNewOnDiscard /\ RerunNotEmpty
  BY Zenon DEF Init, EntriesTypeOK, EntriesOld, CacheExact, Kept, ShadowInStep,
         NothingNewOnDiscard, RerunNotEmpty
<1>4. InputsKept
  BY Zenon DEF Init, InputsKept, Told
<1>5. CountersTypeOK /\ PurgesCounted
  <2>1. purge_interval = Level1
    BY Zenon DEF Init
  <2>2. purge_interval \in Nat /\ PurgeIntervalBounded
    BY <2>1, FirstInterval, HybridAssumption, Zenon DEF PurgeIntervalBounded
  <2>3. QED
    BY <2>2 DEF Init, CountersTypeOK, PurgesCounted
<1>6. QED
  BY <1>2, <1>3, <1>4, <1>5, Zenon DEF HybridInv

\* Every step of the two passes preserves it.
LEMMA NextInv == HybridInv /\ [Next]_vars => HybridInv'
<1> SUFFICES ASSUME HybridInv, [Next]_vars PROVE HybridInv'
  BY Zenon
<1>1. MapsTypeOK'
  BY MapsTypeStep, Zenon DEF HybridInv
<1>2. QED
  BY <1>1, EntriesTypeStep, KeptStep, ShadowStep, CacheExactStep, RerunStep, CountersStep, Zenon
     DEF HybridInv

\* The invariant has the type, with one entry in a slot at most.
LEMMA InvType == HybridInv => TypeOK
<1> SUFFICES ASSUME HybridInv PROVE TypeOK
  BY Zenon
<1>1. /\ \A s \in DOMAIN cache : Cardinality(cache[s]) <= 1
      /\ \A s \in DOMAIN inputs : Cardinality(inputs[s]) <= 1
  BY AtMostOne, Zenon DEF HybridInv, EntriesTypeOK
<1>2. QED
  BY <1>1, Zenon DEF HybridInv, MapsTypeOK, EntriesTypeOK, CountersTypeOK, TypeOK,
              CacheEntries, InputEntries

\* hybrid.c keeps HybridInv, for every target and every size of its caches.
THEOREM HybridInvariant == Spec => []HybridInv
<1>1. QED
  BY InitInv, NextInv, PTL DEF Spec

\* The virgin maps, both caches and the counters stay in their types; a slot of a
\* cache never holds two entries.
THEOREM HybridTypes == Spec => []TypeOK
BY HybridInvariant, InvType, PTL

\* discard(), from whichever cache it answers, and hybrid_after_sample() leave AFL++
\* with no edge that it has not been shown.
THEOREM DiscardShowsNothingNew == Spec => []NothingNewOnDiscard
<1>1. HybridInv => NothingNewOnDiscard
  BY Zenon DEF HybridInv
<1>2. QED
  BY <1>1, HybridInvariant, PTL

\* virgin_edge is AFL++'s virgin map: what hybrid_after_confirm() takes for an old
\* edge has been shown.
THEOREM ShadowFollowsAfl == Spec => []ShadowInStep
<1>1. HybridInv => ShadowInStep
  BY Zenon DEF HybridInv
<1>2. QED
  BY <1>1, HybridInvariant, PTL

\* For a steady target the cache holds the whole edge map of every path in it, in
\* every slot that hybrid_after_confirm() filled from two passes whose trace was whole
\* or whose overflow trace_did_overflow() told; a cut pass spoils no other slot.
THEOREM CacheHoldsWholeMaps == Spec => []CacheExact
<1>1. HybridInv => CacheExact
  BY Zenon DEF HybridInv
<1>2. QED
  BY <1>1, HybridInvariant, PTL

\* An input that was shown with edges is not shown without when it is run again.
THEOREM RerunKeepsEdges == Spec => []RerunNotEmpty
<1>1. HybridInv => RerunNotEmpty
  BY Zenon DEF HybridInv
<1>2. QED
  BY <1>1, HybridInvariant, PTL

\* purge_check() neither stops purging nor purges all the time.
THEOREM PurgeIntervalInRange == Spec => []PurgeIntervalBounded
<1>1. HybridInv => PurgeIntervalBounded
  BY Zenon DEF HybridInv, PurgesCounted
<1>2. QED
  BY <1>1, HybridInvariant, PTL
=============================================================================
