--------------------------- MODULE TraceBufProofs ---------------------------
(***************************************************************************)
(* Proofs about TraceBuf, for every size of the ETR, of its frames and of  *)
(* the first buffer, and every alignment that divides them.                *)
(***************************************************************************)
EXTENDS TraceBuf, SequenceTheorems, TLAPS

\* The bytes in the ETR, and how many of the attempt came before them.
Held == IF wrapped THEN EtrSize ELSE rwp
Settled == produced - Held

\* Holds in every attempt, whatever has failed: the ETR is written in frames, and
\* the buffer has room for a full ETR and ends at an aligned offset.
EtrOK ==
  /\ ring \in [0..EtrSize-1 -> Nat] /\ rwp \in 0..EtrSize-1 /\ rwp % Frame = 0
  /\ wrapped \in BOOLEAN /\ produced \in Nat

BufOK ==
  /\ trace_buf \in Seq(Nat) /\ trace_buf_ptr \in Int /\ decoded_trace_buf \in Int
  /\ trace_buf # <<>> => /\ EtrSize <= Len(trace_buf) /\ Len(trace_buf) % Alignment = 0
                         /\ trace_buf_ptr <= Len(trace_buf)

\* The ring holds the last bytes of the attempt, and none of the older ones that
\* are missing is in it.
RingHolds ==
  /\ rwp <= produced /\ (wrapped => EtrSize + rwp <= produced)
  /\ \A s \in 0..EtrSize-1 :
       /\ s < rwp => ring[s] = produced - rwp + s + 1
       /\ wrapped /\ s >= rwp => ring[s] = produced - EtrSize - rwp + s + 1
  /\ lost \subseteq 1..Settled

\* The buffer holds all the others, without a gap and in order.
BufHolds ==
  /\ 0 <= decoded_trace_buf /\ decoded_trace_buf <= trace_buf_ptr
  /\ trace_buf # <<>> /\ trace_buf_ptr % Alignment = 0
  /\ {trace_buf[i] : i \in 1..trace_buf_ptr} = 1..Settled \ lost
  /\ \A i, j \in 1..trace_buf_ptr : i < j => trace_buf[i] < trace_buf[j]

\* The decoder was given the part it has decoded.
GivenOK ==
  /\ given \in Seq(Nat) /\ Len(given) = decoded_trace_buf
  /\ \A i \in 1..decoded_trace_buf : given[i] = trace_buf[i]

\* Where the caller is: a failed call leads elsewhere, and the ETR is empty from
\* the last fetch on.
CallerOK ==
  /\ pc \notin {"abandoned", "failed"}
  /\ pc \in {"lastDecode", "stopped", "export"} => EtrEmpty
  /\ pc = "stopped" /\ decoding_on => decoded_trace_buf = trace_buf_ptr

CleanOK ==
  clean /\ pc \notin {"ready", "done"} => RingHolds /\ BufHolds /\ GivenOK /\ CallerOK

BufInv == EtrOK /\ BufOK /\ CleanOK /\ ExportedWhole

-----------------------------------------------------------------------------
(* Multiples                                                               *)

\* What a remainder of zero means.
LEMMA Multiple ==
  ASSUME NEW x \in Int, NEW a \in Nat \ {0}
  PROVE  x % a = 0 <=> \E k \in Int : x = k * a
<1>1. x = (x \div a) * a + (x % a) /\ x \div a \in Int /\ x % a \in 0..a-1
  OBVIOUS
<1>2. ASSUME NEW k \in Int, x = k * a PROVE x % a = 0
  <2>1. PICK q \in Int, r \in 0..a-1 : x = q * a + r /\ r = x % a
    BY <1>1, Zenon
  <2>2. PICK d \in Int : d = k - q
    BY <2>1
  <2>3. r = d * a
    <3>1. d * a = k * a - q * a
      BY <2>2
    <3>2. r = x - q * a /\ q * a \in Int /\ k * a \in Int
      BY <2>1
    <3>3. QED
      BY <1>2, <3>1, <3>2, Zenon
  <2>4. ~(d >= 1)
    <3>1. d >= 1 => d * a >= a
      OBVIOUS
    <3>2. r < a
      BY <2>1
    <3>3. QED
      BY <2>3, <3>1, <3>2
  <2>5. ~(d <= -1)
    <3>1. d <= -1 => d * a <= -a
      OBVIOUS
    <3>2. r >= 0
      BY <2>1
    <3>3. QED
      BY <2>3, <3>1, <3>2
  <2>6. d = 0
    BY <2>4, <2>5
  <2>7. QED
    BY <2>1, <2>3, <2>6
<1>3. ASSUME x % a = 0 PROVE \E k \in Int : x = k * a
  <2>1. x = (x \div a) * a
    BY <1>1, <1>3
  <2>2. QED
    BY <1>1, <2>1, Zenon
<1>4. QED
  BY <1>2, <1>3, Zenon

\* The sum of two multiples is one.
LEMMA MultipleSum ==
  ASSUME NEW x \in Int, NEW y \in Int, NEW a \in Nat \ {0}, x % a = 0, y % a = 0
  PROVE  (x + y) % a = 0
<1>1. PICK k \in Int, l \in Int : x = k * a /\ y = l * a
  BY Multiple, Zenon
<1>2. x + y = (k + l) * a /\ k + l \in Int /\ x + y \in Int
  BY <1>1
<1>3. QED
  BY <1>2, Multiple, Zenon

\* A multiple of a multiple is one.
LEMMA MultipleOfMultiple ==
  ASSUME NEW x \in Int, NEW b \in Nat \ {0}, NEW a \in Nat \ {0}, x % b = 0, b % a = 0
  PROVE  x % a = 0
<1>1. PICK k \in Int : x = k * b
  BY Multiple, Zenon
<1>2. PICK l \in Int : b = l * a
  <2>1. b \in Int
    OBVIOUS
  <2>2. QED
    BY <2>1, Multiple, Zenon
<1>3. x = (k * l) * a /\ k * l \in Int
  BY <1>1, <1>2
<1>4. QED
  BY <1>3, Multiple, Zenon

\* Between two multiples there is room for one more step.
LEMMA MultipleGap ==
  ASSUME NEW x \in Int, NEW y \in Int, NEW a \in Nat \ {0}, x % a = 0, y % a = 0, x < y
  PROVE  x + a <= y
<1>1. PICK k \in Int, l \in Int : x = k * a /\ y = l * a
  BY Multiple, Zenon
<1>2. k + 1 <= l
  <2>1. CASE l <= k
    <3>1. l * a <= k * a
      BY <2>1
    <3>2. QED
      BY <1>1, <3>1
  <2>2. QED
    BY <2>1
<1>3. (k + 1) * a <= l * a
  BY <1>2
<1>4. QED
  BY <1>1, <1>3

\* ALIGN_UP leaves an aligned offset alone, and does not pass an aligned end.
LEMMA AlignUp ==
  ASSUME NEW x \in Int
  PROVE  /\ align_up(x) \in Int /\ align_up(x) % Alignment = 0
         /\ x % Alignment = 0 => align_up(x) = x
         /\ \A end \in Int : x <= end /\ end % Alignment = 0 => align_up(x) <= end
<1>0. Alignment \in Nat \ {0}
  BY TraceBufAssumption, Zenon
<1> DEFINE q == (x + Alignment - 1) \div Alignment
<1>1. q \in Int /\ align_up(x) = q * Alignment
  BY <1>0 DEF align_up
<1>2. /\ q * Alignment <= x + Alignment - 1
      /\ x + Alignment - 1 < q * Alignment + Alignment
  BY <1>0
<1> HIDE DEF q
<1>3. align_up(x) \in Int /\ x <= align_up(x) /\ align_up(x) < x + Alignment
  BY <1>0, <1>1, <1>2
<1>4. align_up(x) % Alignment = 0
  BY <1>0, <1>1, <1>3, Multiple, Zenon
<1>5. ASSUME NEW end \in Int, x <= end, end % Alignment = 0 PROVE align_up(x) <= end
  <2>1. CASE end < align_up(x)
    <3>1. end + Alignment <= align_up(x)
      BY <1>0, <1>3, <1>4, <1>5, <2>1, MultipleGap, Zenon
    <3>2. QED
      BY <1>0, <1>3, <1>5, <3>1
  <2>2. QED
    BY <1>3, <2>1
<1>6. x % Alignment = 0 => align_up(x) = x
  BY <1>3, <1>5
<1>7. QED
  BY <1>3, <1>4, <1>5, <1>6, Zenon

-----------------------------------------------------------------------------
(* The ETR                                                                 *)

\* Sizes and how they divide each other.
LEMMA Sizes ==
  /\ EtrSize \in Nat \ {0} /\ Frame \in Nat \ {0} /\ Alignment \in Nat \ {0}
  /\ EtrSize % Frame = 0 /\ EtrSize % Alignment = 0 /\ Frame % Alignment = 0
  /\ InitialSize \in Nat /\ EtrSize <= InitialSize /\ InitialSize % Alignment = 0
<1>1. /\ EtrSize \in Nat \ {0} /\ Frame \in Nat \ {0} /\ Alignment \in Nat \ {0}
      /\ EtrSize % Frame = 0 /\ Frame % Alignment = 0
      /\ DefaultSize \in Nat /\ DefaultSize % Alignment = 0
  BY TraceBufAssumption, Zenon
<1>2. EtrSize % Alignment = 0
  <2>1. EtrSize \in Int
    BY <1>1
  <2>2. QED
    BY <1>1, <2>1, MultipleOfMultiple, Zenon
<1>3. QED
  BY <1>1, <1>2 DEF InitialSize

\* A frame never crosses the end of the ring.
LEMMA FrameFits == EtrOK => rwp + Frame <= EtrSize
<1> SUFFICES ASSUME EtrOK PROVE rwp + Frame <= EtrSize
  BY Zenon
<1>1. rwp \in Int /\ EtrSize \in Int /\ rwp < EtrSize /\ rwp % Frame = 0
  BY Sizes DEF EtrOK
<1>2. QED
  BY <1>1, Sizes, MultipleGap, Zenon

\* What a direct read returns is as long as it was asked to be, in order, around
\* the end of the ring.
LEMMA DirectRead ==
  ASSUME EtrOK, NEW n \in 0..etr_pending.len
  PROVE  LET read == etr_direct_read(n, etr_pending.start)
         IN  /\ read \in Seq(Nat) /\ Len(read) = n
             /\ RingHolds => \A i \in 1..n : read[i] = Settled + i
<1> DEFINE start == etr_pending.start
           first == IF n < EtrSize - start THEN n ELSE EtrSize - start
           one   == [i \in 1..first |-> ring[start + i - 1]]
           two   == [i \in 1..n - first |-> ring[i - 1]]
           read  == etr_direct_read(n, start)
<1>1. /\ start = (IF wrapped THEN rwp ELSE 0) /\ etr_pending.len = Held
      /\ EtrSize \in Nat \ {0} /\ rwp \in 0..EtrSize-1 /\ ring \in [0..EtrSize-1 -> Nat]
      /\ wrapped \in BOOLEAN /\ produced \in Nat
  BY Sizes, Zenon DEF etr_pending, EtrOK, Held
<1>2. start \in 0..EtrSize-1 /\ n \in Nat /\ n <= Held /\ Held <= EtrSize /\ Held \in Nat
  BY <1>1 DEF Held
<1>3. read = one \o two
  BY Zenon DEF etr_direct_read
<1>4. /\ first \in 0..n /\ start + first <= EtrSize /\ n - first <= start
      /\ (n # first => wrapped /\ first = EtrSize - rwp)
  BY <1>1, <1>2 DEF Held
<1> HIDE DEF start, first
<1>5. /\ one \in Seq(Nat) /\ Len(one) = first
      /\ two \in Seq(Nat) /\ Len(two) = n - first
  <2>1. \A i \in 1..first : start + i - 1 \in 0..EtrSize-1
    BY <1>1, <1>2, <1>4
  <2>2. \A i \in 1..n - first : i - 1 \in 0..EtrSize-1
    BY <1>1, <1>2, <1>4
  <2>3. one \in [1..first -> Nat] /\ two \in [1..n - first -> Nat]
    BY <1>1, <2>1, <2>2, Zenon
  <2>4. \A m \in Nat : \A f \in [1..m -> Nat] : f \in Seq(Nat) /\ Len(f) = m
    OBVIOUS
  <2>5. first \in Nat /\ n - first \in Nat
    BY <1>2, <1>4
  <2> HIDE DEF one, two
  <2>6. QED
    BY <2>3, <2>4, <2>5, Zenon
<1>6. \A i \in 1..first : one[i] = ring[start + i - 1]
  BY Zenon
<1>7. \A i \in 1..n - first : two[i] = ring[i - 1]
  BY Zenon
<1> HIDE DEF one, two, read
<1>8. /\ read \in Seq(Nat) /\ Len(read) = n
      /\ \A i \in 1..n : read[i] = IF i <= first THEN one[i] ELSE two[i - first]
  <2>1. /\ read \in Seq(Nat) /\ Len(read) = Len(one) + Len(two)
        /\ \A i \in 1 .. Len(one) + Len(two) :
             read[i] = IF i <= Len(one) THEN one[i] ELSE two[i - Len(one)]
    BY <1>3, <1>5, ConcatProperties, Zenon
  <2>2. QED
    BY <1>2, <1>4, <1>5, <2>1
<1>9. ASSUME RingHolds, NEW i \in 1..n PROVE read[i] = Settled + i
  <2>1. CASE i <= first
    <3>1. read[i] = ring[start + i - 1]
      BY <1>6, <1>8, <2>1
    <3>2. start + i - 1 \in 0..EtrSize-1
      BY <1>1, <1>2, <1>4, <2>1
    <3>3. CASE wrapped
      BY <1>1, <1>9, <3>1, <3>2, <3>3 DEF RingHolds, Settled, Held
    <3>4. CASE ~wrapped
      BY <1>1, <1>2, <1>9, <3>1, <3>2, <3>4 DEF RingHolds, Settled, Held
    <3>5. QED
      BY <3>3, <3>4, Zenon
  <2>2. CASE i > first
    <3>1. i - first \in 1..n - first /\ n # first
      BY <1>2, <1>4, <2>2
    <3>2. read[i] = ring[i - first - 1]
      <4>1. read[i] = two[i - first]
        BY <1>2, <1>4, <1>8, <2>2
      <4>2. QED
        BY <1>7, <3>1, <4>1, Zenon
    <3>3. wrapped /\ first = EtrSize - rwp /\ start = rwp /\ Held = EtrSize
      BY <1>1, <1>4, <3>1, Zenon DEF Held
    <3>4. i - first - 1 \in 0..EtrSize-1 /\ i - first - 1 < rwp
      BY <1>1, <1>2, <3>1, <3>3
    <3>5. QED
      BY <1>1, <1>9, <3>2, <3>3, <3>4 DEF RingHolds, Settled
  <2>3. QED
    BY <1>2, <1>4, <2>1, <2>2
<1>10. QED
  BY <1>8, <1>9, Zenon DEF read, start

\* The buffer has room for one more ETR after one doubling: the loop of
\* fetch_trace() ends there.
LEMMA OneDoubling ==
  ASSUME BufOK, trace_buf # <<>>, NEW used \in Int, used <= Len(trace_buf),
         NEW len \in 0..EtrSize
  PROVE  /\ Grown(used, len) \in {Len(trace_buf), 2 * Len(trace_buf)}
         /\ used + len <= Grown(used, len)
<1> DEFINE L       == Len(trace_buf)
           Fits(k) == L * 2^k - used >= len
           d       == CHOOSE k \in 0..MaxBytes : Fits(k) /\ \A j \in 0..k-1 : ~Fits(j)
<1>1. Grown(used, len) = L * 2^d
  BY Zenon DEF Grown
<1>2. /\ L \in Nat /\ EtrSize <= L /\ EtrSize \in Nat /\ len \in Nat /\ len <= EtrSize
      /\ MaxBytes \in Nat \ {0}
  BY Sizes, TraceBufAssumption DEF BufOK
<1>3. 2^0 = 1 /\ 2^1 = 2
  OBVIOUS
<1>4. (Fits(0) <=> used + len <= L) /\ Fits(1) /\ used + len <= L * 2
  <2>1. L * 2^0 = L /\ L * 2^1 = 2 * L
    BY <1>2, <1>3
  <2>2. QED
    BY <1>2, <2>1
<1> HIDE DEF Fits, L
<1>5. Fits(d) /\ (\A j \in 0..d-1 : ~Fits(j)) /\ d \in 0..MaxBytes
  <2>1. \E k \in 0..MaxBytes : Fits(k) /\ \A j \in 0..k-1 : ~Fits(j)
    <3>1. CASE Fits(0)
      BY <1>2, <3>1
    <3>2. CASE ~Fits(0)
      <4>1. \A j \in 0..1-1 : ~Fits(j)
        BY <3>2
      <4>2. 1 \in 0..MaxBytes
        BY <1>2
      <4>3. QED
        BY <1>4, <4>1, <4>2, Zenon
    <3>3. QED
      BY <3>1, <3>2, Zenon
  <2>2. QED
    BY <2>1, Zenon
<1> HIDE DEF d
<1>6. CASE Fits(0)
  <2>1. d = 0
    BY <1>2, <1>5, <1>6
  <2>2. Grown(used, len) = L
    BY <1>1, <1>2, <1>3, <2>1
  <2>3. QED
    BY <1>4, <1>6, <2>2, Zenon DEF L
<1>7. CASE ~Fits(0)
  <2>1. d = 1
    <3>1. d # 0
      BY <1>5, <1>7, Zenon
    <3>2. ~(1 \in 0..d-1)
      BY <1>4, <1>5, Zenon
    <3>3. QED
      BY <1>2, <1>5, <3>1, <3>2
  <2>2. Grown(used, len) = 2 * L
    BY <1>1, <1>2, <1>3, <2>1
  <2>3. QED
    BY <1>2, <1>4, <2>2 DEF L
<1>8. QED
  BY <1>6, <1>7, Zenon

\* What is at each place of the buffer after data is written at an offset.
LEMMA Stored ==
  ASSUME trace_buf \in Seq(Nat), NEW size \in Nat, Len(trace_buf) <= size, NEW at \in Int,
         NEW data \in Seq(Nat)
  PROVE  /\ Store(size, at, data) \in Seq(Nat) /\ Len(Store(size, at, data)) = size
         /\ \A i \in 1..size :
              Store(size, at, data)[i] =
                IF i \in at + 1 .. at + Len(data) THEN data[i - at]
                ELSE IF i <= Len(trace_buf) THEN trace_buf[i] ELSE 0
<1> DEFINE new == Store(size, at, data)
<1>1. \A i \in 1..size : new[i] = IF i \in at + 1 .. at + Len(data) THEN data[i - at]
                ELSE IF i <= Len(trace_buf) THEN trace_buf[i] ELSE 0
  BY Zenon DEF Store
<1>2. DOMAIN new = 1..size
  BY Zenon DEF Store
<1>3. \A i \in 1..size : new[i] \in Nat
  <2> SUFFICES ASSUME NEW i \in 1..size PROVE new[i] \in Nat
    BY Zenon
  <2>1. Len(data) \in Nat /\ Len(trace_buf) \in Nat
    OBVIOUS
  <2>2. CASE i \in at + 1 .. at + Len(data)
    <3>1. i - at \in 1..Len(data)
      BY <2>1, <2>2
    <3>2. data[i - at] \in Nat
      BY <3>1
    <3>3. QED
      BY <1>1, <2>2, <3>2, Zenon
  <2>3. CASE i \notin at + 1 .. at + Len(data)
    <3>1. i <= Len(trace_buf) => trace_buf[i] \in Nat
      BY <2>1
    <3>2. QED
      BY <1>1, <2>3, <3>1
  <2>4. QED
    BY <2>2, <2>3, Zenon
<1>4. new \in [1..size -> Nat]
  BY <1>2, <1>3, Zenon DEF Store
<1>5. QED
  BY <1>1, <1>4

\* A frame goes to the next places of the ring, over the oldest bytes if it is full.
LEMMA FrameWritten ==
  ASSUME EtrOK, EtrWrites
  PROVE  LET slots == rwp .. rwp + Frame - 1
         IN  /\ EtrOK' /\ produced' = produced + Frame /\ slots \subseteq 0..EtrSize-1
             /\ \A s \in 0..EtrSize-1 :
                  ring'[s] = IF s \in slots THEN produced + 1 + (s - rwp) ELSE ring[s]
             /\ lost' = IF wrapped THEN lost \cup {ring[s] : s \in slots} ELSE lost
             /\ wrapped' = (wrapped \/ rwp + Frame = EtrSize)
             /\ rwp' = IF rwp + Frame = EtrSize THEN 0 ELSE rwp + Frame
<1> DEFINE slots  == {(rwp + i) % EtrSize : i \in 0..Frame-1}
           New(s) == produced + 1 + ((s - rwp) % EtrSize)
<1>1. /\ ring' = [s \in DOMAIN ring |-> IF s \in slots THEN New(s) ELSE ring[s]]
      /\ lost' = IF wrapped THEN lost \cup {ring[s] : s \in slots} ELSE lost
      /\ rwp' = (rwp + Frame) % EtrSize /\ wrapped' = (wrapped \/ rwp + Frame = EtrSize)
      /\ produced' = produced + Frame
  BY Zenon DEF EtrWrites
<1>2. /\ EtrSize \in Nat \ {0} /\ Frame \in Nat \ {0} /\ rwp \in 0..EtrSize-1
      /\ rwp + Frame <= EtrSize /\ produced \in Nat /\ wrapped \in BOOLEAN
      /\ ring \in [0..EtrSize-1 -> Nat]
  BY Sizes, FrameFits, Zenon DEF EtrOK
<1>3. \A x \in 0..EtrSize-1 : x % EtrSize = x
  BY <1>2
<1>4. slots = rwp .. rwp + Frame - 1
  <2>1. \A i \in 0..Frame-1 : (rwp + i) % EtrSize = rwp + i
    BY <1>2, <1>3
  <2>2. slots = {rwp + i : i \in 0..Frame-1}
    BY <2>1, Zenon
  <2>3. \A x \in rwp .. rwp + Frame - 1 : x - rwp \in 0..Frame-1 /\ x = rwp + (x - rwp)
    BY <1>2
  <2>4. \A i \in 0..Frame-1 : rwp + i \in rwp .. rwp + Frame - 1
    BY <1>2
  <2> HIDE DEF slots
  <2>5. QED
    BY <2>2, <2>3, <2>4, Zenon
<1>5. slots \subseteq 0..EtrSize-1 /\ \A s \in slots : New(s) = produced + 1 + (s - rwp)
  <2>1. \A s \in rwp .. rwp + Frame - 1 : s \in 0..EtrSize-1 /\ s - rwp \in 0..EtrSize-1
    BY <1>2
  <2> HIDE DEF slots
  <2>2. QED
    BY <1>3, <1>4, <2>1, Zenon
<1> HIDE DEF slots
<1>6. \A s \in 0..EtrSize-1 :
        ring'[s] = IF s \in slots THEN produced + 1 + (s - rwp) ELSE ring[s]
  BY <1>1, <1>2, <1>5, Zenon
<1>7. rwp' = IF rwp + Frame = EtrSize THEN 0 ELSE rwp + Frame
  <2>1. CASE rwp + Frame = EtrSize
    <3>1. EtrSize % EtrSize = 0
      BY <1>2
    <3>2. QED
      BY <1>1, <2>1, <3>1, Zenon
  <2>2. CASE rwp + Frame # EtrSize
    <3>1. rwp + Frame \in 0..EtrSize-1
      BY <1>2, <2>2
    <3>2. QED
      BY <1>1, <1>3, <2>2, <3>1, Zenon
  <2>3. QED
    BY <2>1, <2>2, Zenon
<1>8. EtrOK'
  <2>1. \A s \in slots : produced + 1 + (s - rwp) \in Nat
    <3>1. \A s \in rwp .. rwp + Frame - 1 : produced + 1 + (s - rwp) \in Nat
      BY <1>2
    <3>2. QED
      BY <1>4, <3>1, Zenon
  <2>2. ring' \in [0..EtrSize-1 -> Nat]
    BY <1>1, <1>2, <1>5, <2>1, Zenon
  <2>3. rwp' \in 0..EtrSize-1
    BY <1>2, <1>7
  <2>4. rwp' % Frame = 0
    <3>1. rwp \in Int /\ Frame \in Int /\ Frame % Frame = 0 /\ 0 % Frame = 0 /\ rwp % Frame = 0
      BY <1>2 DEF EtrOK
    <3>2. (rwp + Frame) % Frame = 0
      BY <1>2, <3>1, MultipleSum, Zenon
    <3>3. QED
      BY <1>7, <3>1, <3>2, Zenon
  <2>5. QED
    BY <1>1, <1>2, <2>2, <2>3, <2>4 DEF EtrOK
<1>9. QED
  BY <1>1, <1>4, <1>5, <1>6, <1>7, <1>8, Zenon

\* The ring then holds the last bytes again, and what it lost was in no one's hands.
LEMMA RingKept ==
  ASSUME EtrOK, EtrWrites, RingHolds
  PROVE  RingHolds' /\ 1..Settled' \ lost' = 1..Settled \ lost
<1>1. /\ EtrSize \in Nat \ {0} /\ Frame \in Nat \ {0} /\ rwp \in 0..EtrSize-1
      /\ rwp + Frame <= EtrSize /\ produced \in Nat /\ wrapped \in BOOLEAN
      /\ ring \in [0..EtrSize-1 -> Nat]
  BY Sizes, FrameFits, Zenon DEF EtrOK
<1> DEFINE slots == rwp .. rwp + Frame - 1
<1>2. /\ produced' = produced + Frame /\ slots \subseteq 0..EtrSize-1
      /\ \A s \in 0..EtrSize-1 :
           ring'[s] = IF s \in slots THEN produced + 1 + (s - rwp) ELSE ring[s]
      /\ lost' = IF wrapped THEN lost \cup {ring[s] : s \in slots} ELSE lost
      /\ wrapped' <=> (wrapped \/ rwp + Frame = EtrSize)
      /\ rwp' = IF rwp + Frame = EtrSize THEN 0 ELSE rwp + Frame
  BY FrameWritten, Zenon
<1>3. /\ rwp <= produced /\ (wrapped => EtrSize + rwp <= produced)
      /\ \A s \in 0..EtrSize-1 :
           /\ s < rwp => ring[s] = produced - rwp + s + 1
           /\ wrapped /\ s >= rwp => ring[s] = produced - EtrSize - rwp + s + 1
      /\ lost \subseteq 1..Settled
  BY Zenon DEF RingHolds
<1>4. /\ rwp' <= produced' /\ (wrapped' => EtrSize + rwp' <= produced')
  <2>1. CASE rwp + Frame = EtrSize
    BY <1>1, <1>2, <1>3, <2>1
  <2>2. CASE rwp + Frame # EtrSize
    BY <1>1, <1>2, <1>3, <2>2
  <2>3. QED
    BY <2>1, <2>2, Zenon
<1>5. ASSUME NEW s \in 0..EtrSize-1
      PROVE  /\ s < rwp' => ring'[s] = produced' - rwp' + s + 1
             /\ wrapped' /\ s >= rwp' => ring'[s] = produced' - EtrSize - rwp' + s + 1
  <2>1. s \in slots <=> rwp <= s /\ s < rwp + Frame
    BY <1>1
  <2>2. CASE rwp + Frame = EtrSize
    <3>1. rwp' = 0 /\ produced' = produced + Frame
      BY <1>2, <2>2, Zenon
    <3>2. ring'[s] = produced + Frame - EtrSize + s + 1
      <4>1. CASE s < rwp
        <5>1. ring'[s] = ring[s] /\ ring[s] = produced - rwp + s + 1
          BY <1>1, <1>2, <1>3, <2>1, <4>1
        <5>2. QED
          BY <1>1, <2>2, <5>1
      <4>2. CASE s >= rwp
        <5>1. ring'[s] = produced + 1 + (s - rwp)
          BY <1>1, <1>2, <2>1, <2>2, <4>2
        <5>2. QED
          BY <1>1, <2>2, <5>1
      <4>3. QED
        BY <1>1, <4>1, <4>2
    <3>3. QED
      BY <1>1, <3>1, <3>2
  <2>3. CASE rwp + Frame # EtrSize
    BY <1>1, <1>2, <1>3, <2>1, <2>3
  <2>4. QED
    BY <2>2, <2>3, Zenon
<1>6. CASE ~wrapped
  <2>1. Settled' = Settled /\ lost' = lost
    <3>1. CASE rwp + Frame = EtrSize
      <4>1. wrapped' /\ produced' = produced + Frame
        BY <1>2, <3>1, Zenon
      <4>2. Held' = EtrSize /\ Held = rwp
        BY <1>6, <4>1, Zenon DEF Held
      <4>3. Settled' = Settled
        BY <1>1, <3>1, <4>1, <4>2 DEF Settled
      <4>4. QED
        BY <1>2, <1>6, <4>3, Zenon
    <3>2. CASE rwp + Frame # EtrSize
      BY <1>1, <1>2, <1>6, <3>2 DEF Settled, Held
    <3>3. QED
      BY <1>2, <1>6, <3>1, <3>2, Zenon
  <2>2. QED
    BY <1>3, <1>4, <1>5, <2>1, Zenon DEF RingHolds
<1>7. CASE wrapped
  <2>1. Settled' = Settled + Frame /\ Settled \in Nat /\ Settled = produced - EtrSize
    BY <1>1, <1>2, <1>3, <1>7 DEF Settled, Held
  <2>2. {ring[s] : s \in slots} = Settled + 1 .. Settled + Frame
    <3>1. \A s \in slots : ring[s] = Settled + 1 + (s - rwp)
      <4> SUFFICES ASSUME NEW s \in slots PROVE ring[s] = Settled + 1 + (s - rwp)
        BY Zenon
      <4>1. s \in 0..EtrSize-1 /\ s >= rwp
        BY <1>1
      <4>2. QED
        BY <1>1, <1>3, <1>7, <2>1, <4>1
    <3>2. \A s \in slots : ring[s] \in Settled + 1 .. Settled + Frame
      BY <1>1, <2>1, <3>1
    <3>3. ASSUME NEW b \in Settled + 1 .. Settled + Frame
          PROVE  \E s \in slots : ring[s] = b
      <4>1. rwp + (b - Settled - 1) \in slots
        BY <1>1, <2>1
      <4>2. ring[rwp + (b - Settled - 1)] = b
        <5>1. ring[rwp + (b - Settled - 1)] = Settled + 1 + ((rwp + (b - Settled - 1)) - rwp)
          BY <3>1, <4>1, Zenon
        <5>2. QED
          BY <1>1, <2>1, <5>1
      <4>3. QED
        BY <4>1, <4>2, Zenon
    <3> HIDE DEF slots
    <3>4. QED
      BY <3>2, <3>3, Zenon
  <2> HIDE DEF slots
  <2>3. lost' = lost \cup (Settled + 1 .. Settled + Frame)
    BY <1>2, <1>7, <2>2, Zenon
  <2>4. lost' \subseteq 1..Settled'
    BY <1>1, <1>3, <2>1, <2>3
  <2>5. 1..Settled' \ lost' = 1..Settled \ lost
    BY <1>1, <1>3, <2>1, <2>3
  <2>6. QED
    BY <1>4, <1>5, <2>4, <2>5, Zenon DEF RingHolds
<1>8. QED
  BY <1>1, <1>6, <1>7, Zenon

-----------------------------------------------------------------------------
(* fetch_trace()                                                           *)

\* Where the bytes go, and that there is room for them.
LEMMA FetchRoom ==
  ASSUME EtrOK, BufOK, trace_buf # <<>>
  PROVE  LET at   == align_up(trace_buf_ptr)
             size == Grown(at, etr_pending.len)
         IN  /\ etr_pending.len = Held /\ Held \in 0..EtrSize
             /\ at \in Int /\ at <= Len(trace_buf)
             /\ size \in Nat /\ Len(trace_buf) <= size /\ size % Alignment = 0
             /\ at + Held <= size /\ EtrSize <= size
<1> DEFINE at == align_up(trace_buf_ptr)
           size == Grown(at, Held)
           L == Len(trace_buf)
<1>1. etr_pending.len = Held /\ Held \in 0..EtrSize
  BY Sizes DEF etr_pending, EtrOK, Held
<1>2. L \in Nat /\ EtrSize <= L /\ L % Alignment = 0 /\ L \in Int
  BY DEF BufOK
<1>3. at \in Int /\ at <= L
  BY <1>2, AlignUp, Zenon DEF BufOK
<1>4. size \in {L, 2 * L} /\ at + Held <= size
  BY <1>1, <1>3, OneDoubling, Zenon
<1>5. (L + L) % Alignment = 0
  BY <1>2, Sizes, MultipleSum, Zenon
<1> HIDE DEF size, at, L
<1>6. L + L = 2 * L
  BY <1>2
<1>7. size \in Nat /\ L <= size /\ EtrSize <= size
  BY <1>2, <1>4, Sizes
<1>8. size % Alignment = 0
  BY <1>2, <1>4, <1>5, <1>6, Zenon
<1>9. QED
  BY <1>1, <1>3, <1>4, <1>7, <1>8, Zenon DEF size, at, L

\* A fetch, of all or of some of the bytes, leaves a buffer with room and an empty ETR.
LEMMA FetchTypes ==
  ASSUME EtrOK, BufOK, trace_buf # <<>>, fetch_trace, produced' = produced
  PROVE  EtrOK' /\ BufOK' /\ EtrEmpty'
<1> DEFINE at == align_up(trace_buf_ptr)
           size == Grown(at, etr_pending.len)
           Read(n) == etr_direct_read(n, etr_pending.start)
<1>0. /\ etr_pending.len = Held /\ Held \in 0..EtrSize
      /\ at \in Int /\ at <= Len(trace_buf)
      /\ size \in Nat /\ Len(trace_buf) <= size /\ size % Alignment = 0
      /\ at + Held <= size /\ EtrSize <= size
  BY FetchRoom, Zenon
<1>1. /\ rwp' = 0 /\ wrapped' = FALSE /\ ring' = ring /\ decoded_trace_buf' = decoded_trace_buf
  BY Zenon DEF fetch_trace, cs_empty_trace_buffer
<1>2. EtrOK' /\ EtrEmpty'
  <2>1. 0 % Frame = 0 /\ 0 \in 0..EtrSize-1
    BY Sizes
  <2>2. QED
    BY <1>1, <2>1, Zenon DEF EtrOK, EtrEmpty
<1>3. CASE trace_buf' = trace_buf /\ trace_buf_ptr' = at
  <2> HIDE DEF at, size
  <2>1. QED
    BY <1>0, <1>1, <1>2, <1>3, Zenon DEF BufOK
<1>4. SUFFICES ASSUME ~(trace_buf' = trace_buf /\ trace_buf_ptr' = at)
               PROVE  EtrOK' /\ BufOK' /\ EtrEmpty'
  BY <1>3, Zenon
<1>5. PICK n \in -1 .. Held :
        /\ trace_buf' = Store(size, at, Read(IF n < 0 THEN 0 ELSE n))
        /\ trace_buf_ptr' = at + n
  <2>1. CASE /\ trace_buf' = Store(size, at, Read(Held))
             /\ trace_buf_ptr' = at + Held
    <3>1. Held \in -1..Held /\ ~(Held < 0)
      BY <1>0, Sizes
    <3>2. QED
      BY <2>1, <3>1, Zenon
  <2>2. CASE \E n \in -1 .. Held - 1 :
                /\ trace_buf' = Store(size, at, Read(IF n < 0 THEN 0 ELSE n))
                /\ trace_buf_ptr' = at + n
    <3>1. \A n \in -1 .. Held - 1 : n \in -1 .. Held
      BY <1>0, Sizes
    <3>2. QED
      BY <2>2, <3>1, Zenon
  <2>3. QED
    <3>1. \/ /\ trace_buf' = Store(size, at, Read(etr_pending.len))
             /\ trace_buf_ptr' = at + etr_pending.len
          \/ \E n \in -1 .. etr_pending.len - 1 :
                /\ trace_buf' = Store(size, at, Read(IF n < 0 THEN 0 ELSE n))
                /\ trace_buf_ptr' = at + n
      BY <1>4, Zenon DEF fetch_trace
    <3> HIDE DEF size, at, Read
    <3>2. QED
      BY <1>0, <2>1, <2>2, <3>1, Zenon
<1> DEFINE m == IF n < 0 THEN 0 ELSE n
<1>6. m \in 0..etr_pending.len /\ n <= Held /\ n \in Int
  BY <1>0, Sizes
<1>7. Read(m) \in Seq(Nat)
  BY <1>6, DirectRead, Zenon
<1> HIDE DEF size, at, Read, m
<1>8. trace_buf' \in Seq(Nat) /\ Len(trace_buf') = size
  <2>1. trace_buf' = Store(size, at, Read(m))
    BY <1>5, Zenon DEF m
  <2>2. trace_buf \in Seq(Nat)
    BY Zenon DEF BufOK
  <2>3. QED
    BY <1>0, <1>7, <2>1, <2>2, Stored, Zenon
<1>9. trace_buf_ptr' \in Int /\ trace_buf_ptr' <= size
  BY <1>0, <1>5, <1>6, Sizes
<1>10. QED
  BY <1>0, <1>1, <1>2, <1>8, <1>9, Zenon DEF BufOK

\* A fetch that succeeds appends what the ETR holds to what the buffer holds.
LEMMA FetchAppends ==
  ASSUME EtrOK, BufOK, RingHolds, BufHolds, fetch_trace, clean',
         produced' = produced, lost' = lost
  PROVE  /\ \A i \in 1..trace_buf_ptr : trace_buf'[i] = trace_buf[i]
         /\ RingHolds' /\ BufHolds'
         /\ decoded_trace_buf' = decoded_trace_buf /\ trace_buf_ptr <= trace_buf_ptr'
<1> DEFINE ptr == trace_buf_ptr
           size == Grown(ptr, Held)
           read == etr_direct_read(Held, etr_pending.start)
<1>1. /\ ptr \in Nat /\ decoded_trace_buf \in Nat /\ trace_buf # <<>> /\ ptr % Alignment = 0
      /\ trace_buf \in Seq(Nat) /\ ptr <= Len(trace_buf) /\ EtrSize \in Nat
  BY Sizes DEF BufOK, BufHolds
<1>2. align_up(ptr) = ptr
  BY <1>1, AlignUp
<1>3. /\ etr_pending.len = Held /\ Held \in 0..EtrSize /\ size \in Nat
      /\ Len(trace_buf) <= size /\ ptr + Held <= size
  BY <1>1, <1>2, FetchRoom, Zenon
<1>4. /\ trace_buf' = Store(size, ptr, read) /\ trace_buf_ptr' = ptr + Held
      /\ rwp' = 0 /\ wrapped' = FALSE /\ decoded_trace_buf' = decoded_trace_buf
  BY <1>2, <1>3, Zenon DEF fetch_trace, cs_empty_trace_buffer
<1>5. /\ read \in Seq(Nat) /\ Len(read) = Held /\ \A i \in 1..Held : read[i] = Settled + i
  <2>1. Held \in 0..etr_pending.len
    BY <1>1, <1>3
  <2>2. QED
    BY <2>1, DirectRead, Zenon
<1> HIDE DEF size, read, ptr
<1>6. \A i \in 1..ptr : trace_buf'[i] = trace_buf[i]
  BY <1>1, <1>3, <1>4, <1>5, Stored
<1>7. \A i \in 1..Held : trace_buf'[ptr + i] = Settled + i
  <2> SUFFICES ASSUME NEW i \in 1..Held PROVE trace_buf'[ptr + i] = Settled + i
    BY Zenon
  <2>1. /\ ptr + i \in 1..size /\ ptr + i \in ptr + 1 .. ptr + Len(read)
        /\ (ptr + i) - ptr = i
    BY <1>1, <1>3, <1>5
  <2>2. \A k \in 1..size :
          trace_buf'[k] = IF k \in ptr + 1 .. ptr + Len(read) THEN read[k - ptr]
                          ELSE IF k <= Len(trace_buf) THEN trace_buf[k] ELSE 0
    <3>1. ptr \in Int
      BY <1>1
    <3>2. \A k \in 1..size :
            Store(size, ptr, read)[k] =
              IF k \in ptr + 1 .. ptr + Len(read) THEN read[k - ptr]
              ELSE IF k <= Len(trace_buf) THEN trace_buf[k] ELSE 0
      BY <1>1, <1>3, <1>5, <3>1, Stored
    <3>3. QED
      BY <1>4, <3>2, Zenon
  <2>3. trace_buf'[ptr + i] = read[(ptr + i) - ptr]
    BY <2>1, <2>2, Zenon
  <2>4. QED
    BY <1>5, <2>1, <2>3, Zenon
<1>8. /\ Settled \in Nat /\ Settled + Held = produced /\ Settled' = produced /\ Held \in Nat
      /\ lost \subseteq 1..Settled
  BY <1>1, <1>3, <1>4 DEF RingHolds, Settled, Held, EtrOK
<1>9. RingHolds'
  <2>1. lost' \subseteq 1..Settled'
    BY <1>8
  <2>2. rwp' <= produced' /\ \A s \in 0..EtrSize-1 : ~(s < rwp')
    BY <1>1, <1>4 DEF EtrOK
  <2>3. QED
    BY <1>4, <2>1, <2>2, Zenon DEF RingHolds
<1>10. /\ {trace_buf[i] : i \in 1..ptr} = 1..Settled \ lost
       /\ \A i, j \in 1..ptr : i < j => trace_buf[i] < trace_buf[j]
  BY Zenon DEF BufHolds, ptr
<1>11. {trace_buf'[i] : i \in 1..ptr + Held} = 1..produced \ lost
  <2>1. ASSUME NEW i \in 1..ptr + Held PROVE trace_buf'[i] \in 1..produced \ lost
    <3>1. CASE i <= ptr
      <4>1. i \in 1..ptr
        BY <1>1, <1>8, <3>1
      <4>2. trace_buf[i] \in 1..Settled \ lost
        BY <1>10, <4>1, Zenon
      <4>3. QED
        BY <1>6, <1>8, <4>1, <4>2
    <3>2. CASE i > ptr
      <4>1. i - ptr \in 1..Held /\ ptr + (i - ptr) = i
        BY <1>1, <1>8, <3>2
      <4>2. trace_buf'[i] = Settled + (i - ptr)
        BY <1>7, <4>1, Zenon
      <4>3. Settled + (i - ptr) \in 1..produced /\ Settled + (i - ptr) \notin 1..Settled
        BY <1>8, <4>1
      <4>4. QED
        BY <1>8, <4>2, <4>3, Zenon
    <3>3. QED
      BY <1>1, <1>8, <3>1, <3>2
  <2>2. ASSUME NEW b \in 1..produced \ lost PROVE \E i \in 1..ptr + Held : trace_buf'[i] = b
    <3>1. CASE b <= Settled
      <4>1. b \in {trace_buf[i] : i \in 1..ptr}
        BY <1>8, <1>10, <3>1
      <4>2. PICK i \in 1..ptr : b = trace_buf[i]
        BY <4>1, Zenon
      <4>3. i \in 1..ptr + Held
        BY <1>1, <1>8
      <4>4. QED
        BY <1>6, <4>2, <4>3, Zenon
    <3>2. CASE b > Settled
      <4>1. b - Settled \in 1..Held /\ Settled + (b - Settled) = b
        BY <1>8, <3>2
      <4>2. trace_buf'[ptr + (b - Settled)] = b
        BY <1>7, <4>1, Zenon
      <4>3. ptr + (b - Settled) \in 1..ptr + Held
        BY <1>1, <1>8, <4>1
      <4>4. QED
        BY <4>2, <4>3, Zenon
    <3>3. QED
      BY <1>8, <3>1, <3>2
  <2>3. QED
    BY <2>1, <2>2, Zenon
<1>12. ASSUME NEW i \in 1..ptr + Held, NEW j \in 1..ptr + Held, i < j
       PROVE  trace_buf'[i] < trace_buf'[j]
  <2>1. CASE j <= ptr
    <3>1. i \in 1..ptr /\ j \in 1..ptr
      BY <1>1, <1>8, <1>12, <2>1
    <3>2. QED
      BY <1>6, <1>10, <1>12, <3>1, Zenon
  <2>2. CASE j > ptr
    <3>1. j - ptr \in 1..Held /\ ptr + (j - ptr) = j
      BY <1>1, <1>8, <2>2
    <3>2. trace_buf'[j] = Settled + (j - ptr)
      BY <1>7, <3>1, Zenon
    <3>3. CASE i <= ptr
      <4>1. i \in 1..ptr
        BY <1>1, <1>8, <3>3
      <4>2. trace_buf[i] \in 1..Settled
        BY <1>10, <4>1, Zenon
      <4>3. QED
        BY <1>6, <1>8, <3>1, <3>2, <4>1, <4>2
    <3>4. CASE i > ptr
      <4>1. i - ptr \in 1..Held /\ ptr + (i - ptr) = i
        BY <1>1, <1>8, <3>4
      <4>2. trace_buf'[i] = Settled + (i - ptr)
        BY <1>7, <4>1, Zenon
      <4>3. QED
        BY <1>1, <1>8, <1>12, <3>2, <4>2
    <3>5. QED
      BY <1>1, <1>8, <3>3, <3>4
  <2>3. QED
    BY <1>1, <1>8, <2>1, <2>2
<1>13. (ptr + Held) % Alignment = 0 /\ ptr <= ptr + Held
  <2>1. Held % Alignment = 0
    <3>1. rwp \in Int /\ rwp % Frame = 0
      BY DEF EtrOK
    <3>2. rwp % Alignment = 0
      BY <3>1, Sizes, MultipleOfMultiple, Zenon
    <3>3. QED
      BY <3>2, Sizes, Zenon DEF Held
  <2>2. ptr \in Int /\ Held \in Int
    BY <1>1, <1>8
  <2>3. (ptr + Held) % Alignment = 0
    BY <1>1, <2>1, <2>2, Sizes, MultipleSum, Zenon
  <2>4. QED
    BY <1>1, <1>8, <2>3
<1>14. trace_buf' # <<>>
  <2>1. Len(trace_buf') = size /\ size # 0 /\ Len(<<>>) = 0
    BY <1>1, <1>3, <1>4, <1>5, Stored
  <2>2. QED
    BY <2>1, Zenon
<1>15. BufHolds'
  <2>1. 0 <= decoded_trace_buf' /\ decoded_trace_buf' <= trace_buf_ptr'
    BY <1>1, <1>4, <1>8, <1>13 DEF BufHolds, ptr
  <2>2. QED
    BY <1>4, <1>8, <1>11, <1>12, <1>13, <1>14, <2>1, Zenon DEF BufHolds
<1>16. QED
  BY <1>4, <1>6, <1>9, <1>13, <1>15, Zenon DEF ptr

-----------------------------------------------------------------------------
(* Every step preserves the invariant.                                     *)

\* The bytes between two pointers.
LEMMA BytesBetween ==
  ASSUME trace_buf \in Seq(Nat), NEW from \in Nat, NEW to \in Nat, from <= to,
         to <= Len(trace_buf)
  PROVE  /\ Bytes(from, to) \in Seq(Nat) /\ Len(Bytes(from, to)) = to - from
         /\ \A i \in 1 .. to - from : Bytes(from, to)[i] = trace_buf[from + i]
<1>1. \A i \in from + 1 .. to : trace_buf[i] \in Nat
  OBVIOUS
<1>2. from + 1 \in Int /\ to \in Int
  OBVIOUS
<1>3. /\ SubSeq(trace_buf, from + 1, to) \in Seq(Nat)
      /\ Len(SubSeq(trace_buf, from + 1, to)) =
           IF from + 1 <= to THEN to - (from + 1) + 1 ELSE 0
      /\ \A i \in 1 .. to - (from + 1) + 1 :
           SubSeq(trace_buf, from + 1, to)[i] = trace_buf[(from + 1) + i - 1]
  BY <1>1, <1>2, SubSeqProperties
<1> DEFINE b == SubSeq(trace_buf, from + 1, to)
<1> HIDE DEF b
<1>4. Len(b) = to - from
  BY <1>3 DEF b
<1>5. ASSUME NEW i \in 1 .. to - from PROVE b[i] = trace_buf[from + i]
  <2>1. i \in 1 .. to - (from + 1) + 1 /\ (from + 1) + i - 1 = from + i
    OBVIOUS
  <2>2. b[i] = trace_buf[(from + 1) + i - 1]
    BY <1>3, <2>1, Zenon DEF b
  <2>3. QED
    BY <2>1, <2>2, Zenon
<1>6. QED
  BY <1>3, <1>4, <1>5, Zenon DEF b, Bytes

\* What alloc_trace_buf() leaves.
LEMMA Allocated ==
  ASSUME EtrOK, BufOK, StartTrace
  PROVE  /\ EtrOK' /\ BufOK' /\ produced' = 0 /\ lost' = {} /\ given' = <<>>
         /\ UNCHANGED <<rwp, wrapped>> /\ pc' = "running"
         /\ clean' => /\ EtrEmpty /\ trace_buf' # <<>>
                      /\ trace_buf_ptr' = 0 /\ decoded_trace_buf' = 0
<1>1. /\ ring' = [i \in DOMAIN ring |-> 0] /\ produced' = 0 /\ lost' = {} /\ given' = <<>>
      /\ rwp' = rwp /\ wrapped' = wrapped /\ pc' = "running" /\ alloc_trace_buf
  BY Zenon DEF StartTrace
<1>2. EtrOK'
  BY <1>1, Zenon DEF EtrOK
<1> DEFINE size == IF direct /\ trace_buf # <<>> THEN Len(trace_buf) ELSE InitialSize
<1>3. \/ /\ trace_buf' = [i \in 1..size |-> 0]
         /\ trace_buf_ptr' = 0 /\ decoded_trace_buf' = 0 /\ clean' = EtrEmpty
      \/ /\ trace_buf' = <<>> /\ clean' = FALSE
         /\ UNCHANGED <<trace_buf_ptr, decoded_trace_buf>>
  BY <1>1, Zenon DEF alloc_trace_buf
<1>4. size \in Nat /\ EtrSize <= size /\ size % Alignment = 0 /\ size # 0
  <2>1. CASE direct /\ trace_buf # <<>>
    BY <2>1, Sizes DEF BufOK
  <2>2. CASE ~(direct /\ trace_buf # <<>>)
    <3>1. size = InitialSize
      BY <2>2, Zenon
    <3> HIDE DEF size
    <3>2. QED
      BY <3>1, Sizes
  <2>3. QED
    BY <2>1, <2>2, Zenon
<1> HIDE DEF size
<1>5. CASE /\ trace_buf' = [i \in 1..size |-> 0]
           /\ trace_buf_ptr' = 0 /\ decoded_trace_buf' = 0 /\ clean' = EtrEmpty
  <2>1. trace_buf' \in Seq(Nat) /\ Len(trace_buf') = size
    <3>1. [i \in 1..size |-> 0] \in [1..size -> Nat]
      BY Zenon
    <3>2. QED
      BY <1>4, <1>5, <3>1
  <2>2. trace_buf' # <<>>
    <3>1. Len(<<>>) = 0
      BY Zenon
    <3>2. QED
      BY <1>4, <2>1, <3>1, Zenon
  <2>3. BufOK'
    BY <1>4, <1>5, <2>1, <2>2 DEF BufOK
  <2>4. clean' => EtrEmpty
    BY <1>5, Zenon
  <2>5. QED
    BY <1>1, <1>2, <1>5, <2>2, <2>3, <2>4, Zenon
<1>6. CASE /\ trace_buf' = <<>> /\ clean' = FALSE
           /\ UNCHANGED <<trace_buf_ptr, decoded_trace_buf>>
  <2>1. BufOK'
    BY <1>6 DEF BufOK
  <2>2. QED
    BY <1>1, <1>2, <1>6, <2>1, Zenon
<1>7. QED
  BY <1>3, <1>5, <1>6, Zenon

\* The ETR and the buffer, whatever fails.
LEMMA TypesStep == BufInv /\ [Next]_vars => EtrOK' /\ BufOK'
<1> SUFFICES ASSUME EtrOK, BufOK, [Next]_vars PROVE EtrOK' /\ BufOK'
  BY Zenon DEF BufInv
<1> USE DEF etrVars, bufVars, modeVars, dataVars
<1>1. CASE EtrWrites
  <2>1. EtrOK'
    BY <1>1, FrameWritten, Zenon
  <2>2. QED
    BY <1>1, <2>1, Zenon DEF EtrWrites, BufOK
<1>2. CASE StartTrace
  BY <1>2, Allocated, Zenon
<1>3. CASE Fetch
  <2>1. trace_buf # <<>> /\ produced' = produced
    BY <1>3, Zenon DEF Fetch, Wild
  <2>2. CASE fetch_trace
    BY <2>1, <2>2, FetchTypes, Zenon
  <2>3. CASE fetch_trace_fails
    <3>1. trace_buf_ptr' \in {trace_buf_ptr, align_up(trace_buf_ptr)}
      BY <2>3, Zenon DEF fetch_trace_fails
    <3>2. align_up(trace_buf_ptr) \in Int /\ align_up(trace_buf_ptr) <= Len(trace_buf)
      BY <2>1, FetchRoom, Zenon
    <3>3. QED
      BY <2>1, <2>3, <3>1, <3>2, Zenon DEF fetch_trace_fails, EtrOK, BufOK
  <2>4. QED
    BY <1>3, <2>2, <2>3, Zenon DEF Fetch
<1>4. CASE Decode
  BY <1>4, Zenon DEF Decode, decode_trace, EtrOK, BufOK
<1>5. CASE DecodeFails \/ StopAbandoned \/ FiniJoins \/ Crashes
  BY <1>5, Zenon DEF DecodeFails, StopAbandoned, FiniJoins, Crashes, EtrOK, BufOK
<1>6. CASE FiniExports
  <2>1. 0 \in 0..EtrSize-1 /\ 0 % Frame = 0
    BY Sizes
  <2>2. EtrOK'
    BY <1>6, <2>1, Zenon DEF FiniExports, cs_empty_trace_buffer, EtrOK
  <2>3. BufOK'
    BY <1>6 DEF FiniExports, BufOK
  <2>4. QED
    BY <2>2, <2>3, Zenon
<1>7. CASE UNCHANGED vars
  BY <1>7, Zenon DEF vars, EtrOK, BufOK
<1>8. QED
  BY <1>1, <1>2, <1>3, <1>4, <1>5, <1>6, <1>7, Zenon DEF Next

\* The decoder is given the next bytes.
LEMMA DecodeGives ==
  ASSUME BufOK, BufHolds, GivenOK, decode_trace, trace_buf' = trace_buf
  PROVE  GivenOK'
<1> DEFINE d == decoded_trace_buf
           ptr == trace_buf_ptr
           more == Bytes(d, ptr)
<1>1. /\ d \in Nat /\ ptr \in Nat /\ d <= ptr /\ ptr <= Len(trace_buf) /\ trace_buf \in Seq(Nat)
  BY DEF BufOK, BufHolds
<1>2. /\ more \in Seq(Nat) /\ Len(more) = ptr - d
      /\ \A i \in 1 .. ptr - d : more[i] = trace_buf[d + i]
  BY <1>1, BytesBetween, Zenon
<1>3. /\ given \in Seq(Nat) /\ Len(given) = d /\ \A i \in 1..d : given[i] = trace_buf[i]
  BY Zenon DEF GivenOK
<1>4. given' = given \o more /\ decoded_trace_buf' = ptr
  BY Zenon DEF decode_trace
<1> HIDE DEF more, d, ptr
<1>5. /\ given' \in Seq(Nat) /\ Len(given') = Len(given) + Len(more)
      /\ \A i \in 1 .. Len(given) + Len(more) :
           given'[i] = IF i <= Len(given) THEN given[i] ELSE more[i - Len(given)]
  BY <1>2, <1>3, <1>4, ConcatProperties, Zenon
<1>6. Len(given) + Len(more) = ptr
  BY <1>1, <1>2, <1>3
<1>7. ASSUME NEW i \in 1..ptr PROVE given'[i] = trace_buf[i]
  <2>1. CASE i <= d
    <3>1. i \in 1..d
      BY <1>1, <2>1
    <3>2. QED
      BY <1>3, <1>5, <1>6, <2>1, <3>1, Zenon
  <2>2. CASE ~(i <= d)
    <3>1. i - d \in 1 .. ptr - d /\ d + (i - d) = i
      BY <1>1, <2>2
    <3>2. given'[i] = more[i - d]
      BY <1>3, <1>5, <1>6, <2>2, Zenon
    <3>3. QED
      BY <1>2, <3>1, <3>2, Zenon
  <2>3. QED
    BY <2>1, <2>2, Zenon
<1>8. QED
  BY <1>4, <1>5, <1>6, <1>7, Zenon DEF GivenOK

\* Where no call has failed, every byte is accounted for.
LEMMA CleanStep == BufInv /\ [Next]_vars => CleanOK'
<1> SUFFICES ASSUME BufInv, [Next]_vars, clean', pc' \notin {"ready", "done"}
             PROVE  RingHolds' /\ BufHolds' /\ GivenOK' /\ CallerOK'
  BY Zenon DEF CleanOK
<1> USE DEF etrVars, bufVars, modeVars, dataVars
<1>0. EtrOK /\ BufOK /\ (clean /\ pc \notin {"ready", "done"} =>
                           RingHolds /\ BufHolds /\ GivenOK /\ CallerOK)
  BY Zenon DEF BufInv, CleanOK
<1>1. CASE EtrWrites
  <2>1. /\ RingHolds /\ BufHolds /\ GivenOK /\ CallerOK
        /\ UNCHANGED <<trace_buf, trace_buf_ptr, decoded_trace_buf, given, pc>>
        /\ pc \in {"running", "fetched", "abandoned"}
    BY <1>0, <1>1, Zenon DEF EtrWrites
  <2>2. RingHolds' /\ 1..Settled' \ lost' = 1..Settled \ lost
    BY <1>0, <1>1, <2>1, RingKept, Zenon
  <2>3. BufHolds'
    BY <2>1, <2>2, Zenon DEF BufHolds
  <2>4. GivenOK' /\ CallerOK'
    BY <2>1, Zenon DEF GivenOK, CallerOK
  <2>5. QED
    BY <2>2, <2>3, <2>4, Zenon
<1>2. CASE StartTrace
  <2>1. /\ EtrEmpty /\ trace_buf' # <<>> /\ trace_buf_ptr' = 0 /\ decoded_trace_buf' = 0
        /\ produced' = 0 /\ lost' = {} /\ given' = <<>> /\ rwp' = rwp /\ wrapped' = wrapped
        /\ pc' = "running"
    BY <1>0, <1>2, Allocated, Zenon
  <2>2. rwp' = 0 /\ ~wrapped' /\ Settled' = 0
    BY <2>1 DEF EtrEmpty, Settled, Held
  <2>3. RingHolds'
    <3>1. \A s \in 0..EtrSize-1 : ~(s < 0)
      BY Sizes
    <3>2. QED
      BY <2>1, <2>2, <3>1 DEF RingHolds
  <2>4. BufHolds'
    <3>1. 0 % Alignment = 0 /\ 1..0 = {}
      BY Sizes
    <3>2. QED
      BY <2>1, <2>2, <3>1 DEF BufHolds
  <2>5. GivenOK'
    BY <2>1 DEF GivenOK
  <2>6. CallerOK'
    BY <2>1, Zenon DEF CallerOK
  <2>7. QED
    BY <2>3, <2>4, <2>5, <2>6, Zenon
<1>3. CASE Fetch
  <2>1. ~fetch_trace_fails
    BY Zenon DEF fetch_trace_fails
  <2>2. /\ fetch_trace /\ produced' = produced /\ lost' = lost /\ given' = given
        /\ pc \in {"running", "stopped", "failed"} /\ decoding_on' = decoding_on
        /\ pc' \in {"fetched", "lastDecode", "export", "stopped"}
        /\ pc' = "stopped" => ~decoding_on
    BY <1>3, <2>1, Zenon DEF Fetch, At
  <2>3. clean
    BY <2>2, Zenon DEF fetch_trace
  <2>4. RingHolds /\ BufHolds /\ GivenOK
    BY <1>0, <2>2, <2>3, Zenon
  <2>5. /\ \A i \in 1..trace_buf_ptr : trace_buf'[i] = trace_buf[i]
        /\ RingHolds' /\ BufHolds' /\ decoded_trace_buf' = decoded_trace_buf
    BY <1>0, <2>2, <2>4, FetchAppends, Zenon
  <2>6. GivenOK'
    <3>1. \A i \in 1..decoded_trace_buf : i \in 1..trace_buf_ptr
      BY <1>0, <2>4 DEF BufHolds, BufOK
    <3>2. QED
      BY <2>2, <2>4, <2>5, <3>1, Zenon DEF GivenOK
  <2>7. EtrEmpty'
    BY <2>2, Zenon DEF fetch_trace, cs_empty_trace_buffer, EtrEmpty
  <2>8. CallerOK'
    BY <2>2, <2>7, Zenon DEF CallerOK
  <2>9. QED
    BY <2>5, <2>6, <2>8, Zenon
<1>4. CASE Decode
  <2>1. /\ decode_trace /\ pc \in {"fetched", "lastDecode"}
        /\ (pc' = "running" \/ (pc = "lastDecode" /\ pc' = "stopped"))
        /\ UNCHANGED <<decoding_on, ring, rwp, wrapped, produced, lost, trace_buf, clean>>
    BY <1>4, Zenon DEF Decode, At
  <2>2. RingHolds /\ BufHolds /\ GivenOK /\ CallerOK
    BY <1>0, <2>1, Zenon
  <2>3. decoded_trace_buf' = trace_buf_ptr /\ trace_buf_ptr' = trace_buf_ptr
    BY <2>1, Zenon DEF decode_trace
  <2>4. GivenOK'
    BY <1>0, <2>1, <2>2, DecodeGives, Zenon
  <2>5. RingHolds' /\ Settled' = Settled
    BY <2>1, <2>2, Zenon DEF RingHolds, Settled, Held
  <2>6. BufHolds'
    <3>1. 0 <= trace_buf_ptr /\ trace_buf_ptr <= trace_buf_ptr
      BY <1>0, <2>2 DEF BufHolds, BufOK
    <3>2. QED
      BY <2>1, <2>2, <2>3, <2>5, <3>1, Zenon DEF BufHolds
  <2>7. CallerOK'
    BY <2>1, <2>2, <2>3, Zenon DEF CallerOK, EtrEmpty
  <2>8. QED
    BY <2>4, <2>5, <2>6, <2>7, Zenon
<1>5. CASE DecodeFails
  BY <1>5, Zenon DEF DecodeFails
<1>6. CASE FiniJoins \/ Crashes \/ UNCHANGED vars
  <2>1. UNCHANGED <<decoding_on, ring, rwp, wrapped, trace_buf, trace_buf_ptr,
                    decoded_trace_buf, produced, lost, given, clean>>
    BY <1>6, Zenon DEF FiniJoins, Crashes, vars
  <2>2. /\ pc \notin {"ready", "done"}
        /\ pc' = pc \/ pc' = "crashed" \/ (pc = "stopped" /\ pc' = "export")
    BY <1>6, Zenon DEF FiniJoins, Crashes, vars, At
  <2>3. RingHolds /\ BufHolds /\ GivenOK /\ CallerOK
    BY <1>0, <2>1, <2>2, Zenon
  <2>4. RingHolds' /\ Settled' = Settled
    BY <2>1, <2>3, Zenon DEF RingHolds, Settled, Held
  <2>5. BufHolds' /\ GivenOK'
    BY <2>1, <2>3, <2>4 DEF BufHolds, GivenOK
  <2>6. CallerOK'
    BY <2>1, <2>2, <2>3, Zenon DEF CallerOK, EtrEmpty
  <2>7. QED
    BY <2>4, <2>5, <2>6, Zenon
<1>7. CASE StopAbandoned
  BY <1>0, <1>7, Zenon DEF StopAbandoned, At, CallerOK
<1>8. CASE FiniExports
  BY <1>8, Zenon DEF FiniExports, At
<1>9. QED
  BY <1>1, <1>2, <1>3, <1>4, <1>5, <1>6, <1>7, <1>8, Zenon DEF Next

\* A file that holds the bytes of the buffer is the trace of the attempt.
LEMMA ExportWrites ==
  ASSUME EtrOK, BufOK, BufHolds, EtrEmpty, export_trace, produced' = produced, lost' = lost
  PROVE  IsWhole(file)'
<1> DEFINE ptr == trace_buf_ptr
<1>1. /\ trace_buf \in Seq(Nat) /\ ptr \in Nat /\ ptr <= Len(trace_buf) /\ 0 \in Nat /\ 0 <= ptr
  BY DEF BufOK, BufHolds
<1>2. /\ Bytes(0, ptr) \in Seq(Nat) /\ Len(Bytes(0, ptr)) = ptr - 0
      /\ \A i \in 1 .. ptr - 0 : Bytes(0, ptr)[i] = trace_buf[0 + i]
  BY <1>1, BytesBetween, Zenon
<1>3. /\ DOMAIN file' = 1..ptr
      /\ \A i \in 1..ptr : file'[i] = trace_buf[i]
  BY <1>1, <1>2 DEF export_trace
<1>4. Settled = produced
  BY DEF EtrEmpty, Settled, Held, EtrOK
<1>5. /\ {trace_buf[i] : i \in 1..ptr} = 1..produced \ lost
      /\ \A i, j \in 1..ptr : i < j => trace_buf[i] < trace_buf[j]
  BY <1>4, Zenon DEF BufHolds
<1>6. {file'[i] : i \in DOMAIN file'} = {trace_buf[i] : i \in 1..ptr}
  BY <1>3, Zenon
<1>7. \A i, j \in DOMAIN file' : i < j => file'[i] < file'[j]
  BY <1>3, <1>5
<1>8. QED
  BY <1>5, <1>6, <1>7, Zenon DEF IsWhole

\* Only fini_trace() ends a run, and it exports once the ETR is empty.
LEMMA ExportStep == BufInv /\ [Next]_vars => ExportedWhole'
<1> SUFFICES ASSUME BufInv, [Next]_vars, pc' = "done", clean' PROVE IsWhole(file)'
  BY Zenon DEF ExportedWhole
<1>1. CASE FiniExports
  <2>1. /\ pc = "export" /\ export_trace /\ produced' = produced /\ lost' = lost /\ clean
    BY <1>1, Zenon DEF FiniExports, At, export_trace, export_trace_fails
  <2>2. EtrOK /\ BufOK /\ BufHolds /\ EtrEmpty
    BY <2>1, Zenon DEF BufInv, CleanOK, CallerOK
  <2>3. QED
    BY <2>1, <2>2, ExportWrites, Zenon
<1>2. CASE UNCHANGED vars
  BY <1>2, Zenon DEF vars, dataVars, etrVars, bufVars, modeVars, BufInv, ExportedWhole, IsWhole
<1>3. ~EtrWrites
  BY Zenon DEF EtrWrites
<1>4. ~(StartTrace \/ Fetch \/ Decode \/ DecodeFails \/ StopAbandoned \/ FiniJoins \/ Crashes)
  BY Zenon DEF StartTrace, Fetch, Decode, DecodeFails, StopAbandoned, FiniJoins, Crashes, At
<1>5. QED
  BY <1>1, <1>2, <1>3, <1>4, Zenon DEF Next

-----------------------------------------------------------------------------
(* The theorems                                                            *)

\* Before the first start_trace() there is no buffer and the ETR is empty.
LEMMA InitInv == Init => BufInv
<1> SUFFICES ASSUME Init PROVE BufInv
  BY Zenon
<1>1. 0 % Frame = 0 /\ 0 \in 0..EtrSize-1
  BY Sizes
<1>2. EtrOK
  BY <1>1, Sizes, Zenon DEF Init, EtrOK
<1>3. BufOK
  BY DEF Init, BufOK
<1>4. CleanOK /\ ExportedWhole
  BY Zenon DEF Init, CleanOK, ExportedWhole
<1>5. QED
  BY <1>2, <1>3, <1>4, Zenon DEF BufInv

\* In every attempt in which no call has failed, the ETR holds the last bytes it
\* wrote, trace_buf all the others that it did not overwrite, without a gap where
\* a fetch aligned or grew the buffer, and the decoder has had those it decoded.
THEOREM BufInvariant == Spec => []BufInv
<1>1. BufInv /\ [Next]_vars => BufInv'
  BY TypesStep, CleanStep, ExportStep, Zenon DEF BufInv
<1>2. QED
  BY <1>1, InitInv, PTL DEF Spec

\* fetch_trace() and decode_trace() stay inside trace_buf, and trace_buf has room
\* for a full ETR, for every size of the ETR and of its frames.
THEOREM PointersStayInBuffer == Spec => []PointersInOrder
<1>1. BufInv => PointersInOrder
  BY Zenon DEF BufInv, CleanOK, BufOK, BufHolds, PointersInOrder
<1>2. QED
  BY <1>1, BufInvariant, PTL

\* The decoder of an attempt without a failed call has been given exactly what the
\* ETR captured of it, in order, when stop_trace() returns.
THEOREM DecoderGetsWholeTrace == Spec => []DecoderSeesTrace
<1>1. BufInv => DecoderSeesTrace
  <2> SUFFICES ASSUME BufInv, decoding_on, clean, pc = "stopped" PROVE IsWhole(given)
    BY Zenon DEF DecoderSeesTrace
  <2> DEFINE ptr == trace_buf_ptr
  <2>1. BufOK /\ EtrOK /\ BufHolds /\ GivenOK /\ EtrEmpty /\ decoded_trace_buf = ptr
    BY Zenon DEF BufInv, CleanOK, CallerOK
  <2>2. Settled = produced
    BY <2>1 DEF EtrEmpty, Settled, Held, EtrOK
  <2>3. DOMAIN given = 1..ptr /\ \A i \in 1..ptr : given[i] = trace_buf[i]
    BY <2>1 DEF GivenOK
  <2>4. /\ {trace_buf[i] : i \in 1..ptr} = 1..produced \ lost
        /\ \A i, j \in 1..ptr : i < j => trace_buf[i] < trace_buf[j]
    BY <2>1, <2>2, Zenon DEF BufHolds
  <2>5. {given[i] : i \in DOMAIN given} = {trace_buf[i] : i \in 1..ptr}
    BY <2>3, Zenon
  <2>6. \A i, j \in DOMAIN given : i < j => given[i] < given[j]
    BY <2>3, <2>4
  <2>7. QED
    BY <2>4, <2>5, <2>6, Zenon DEF IsWhole
<1>2. QED
  BY <1>1, BufInvariant, PTL

\* The file that fini_trace() writes of an attempt without a failed call is
\* exactly what the ETR captured of it, in order.
THEOREM FileIsWholeTrace == Spec => []ExportedWhole
<1>1. BufInv => ExportedWhole
  BY Zenon DEF BufInv
<1>2. QED
  BY <1>1, BufInvariant, PTL

-----------------------------------------------------------------------------
(* What the two pointers and the ring amount to: the sets of TraceCore     *)

\* The bytes that are in the ETR, fetched and not decoded yet, and decoded:
\* TraceCore's etr, buf and bitmap.
InEtr   == {ring[s] : s \in {t \in 0..EtrSize-1 : wrapped \/ t < rwp}}
InBuf   == {trace_buf[i] : i \in decoded_trace_buf + 1 .. trace_buf_ptr}
Decoded == {given[i] : i \in 1..Len(given)}

\* No byte is in two places, and the calls move them the way TraceCore does.
ChunksMove ==
  clean /\ clean' /\ pc \notin {"ready", "done"} =>
    /\ InBuf \cap InEtr = {} /\ Decoded \cap (InBuf \cup InEtr) = {}
    /\ EtrWrites => /\ InEtr' = (InEtr \cup (produced + 1 .. produced')) \ lost'
                    /\ InBuf' = InBuf /\ Decoded' = Decoded
    /\ Fetch => InBuf' = InBuf \cup InEtr /\ InEtr' = {} /\ Decoded' = Decoded
    /\ Decode => Decoded' = Decoded \cup InBuf /\ InBuf' = {} /\ InEtr' = InEtr

\* The ETR holds the last bytes, and the others that are not lost are on one side
\* or the other of decoded_trace_buf.
Placed ==
  /\ Settled \in Nat /\ produced \in Nat /\ Settled <= produced
  /\ lost \subseteq 1..Settled
  /\ InEtr = Settled + 1 .. produced
  /\ Decoded \cup InBuf = 1..Settled \ lost
  /\ Decoded \cap InBuf = {}

\* So it is in every attempt without a failed call.
LEMMA ChunksArePlaced == EtrOK /\ BufOK /\ RingHolds /\ BufHolds /\ GivenOK => Placed
<1> SUFFICES ASSUME EtrOK, BufOK, RingHolds, BufHolds, GivenOK PROVE Placed
  BY Zenon
<1> DEFINE d == decoded_trace_buf
           ptr == trace_buf_ptr
<1>1. /\ EtrSize \in Nat \ {0} /\ rwp \in 0..EtrSize-1 /\ produced \in Nat
      /\ wrapped \in BOOLEAN /\ d \in Nat /\ ptr \in Nat /\ d <= ptr
  BY Sizes DEF EtrOK, BufOK, BufHolds
<1>2. Settled \in Nat /\ Settled <= produced /\ lost \subseteq 1..Settled
  BY <1>1 DEF RingHolds, Settled, Held
<1>3. InEtr = Settled + 1 .. produced
  <2>1. CASE wrapped
    <3>1. /\ EtrSize + rwp <= produced /\ Settled = produced - EtrSize
          /\ InEtr = {ring[s] : s \in 0..EtrSize-1}
      BY <2>1, <1>1 DEF RingHolds, Settled, Held, InEtr
    <3>2. \A s \in 0..EtrSize-1 :
            ring[s] = IF s < rwp THEN produced - rwp + s + 1
                      ELSE produced - EtrSize - rwp + s + 1
      BY <2>1, <1>1 DEF RingHolds
    <3>3. ASSUME NEW s \in 0..EtrSize-1 PROVE ring[s] \in Settled + 1 .. produced
      BY <1>1, <3>1, <3>2
    <3>4. ASSUME NEW b \in Settled + 1 .. produced PROVE \E s \in 0..EtrSize-1 : ring[s] = b
      <4>1. CASE b > produced - rwp
        <5>1. /\ b - 1 - produced + rwp \in 0..EtrSize-1 /\ b - 1 - produced + rwp < rwp
              /\ produced - rwp + (b - 1 - produced + rwp) + 1 = b
          BY <1>1, <3>1, <4>1
        <5>2. ring[b - 1 - produced + rwp] = b
          BY <5>1, <3>2, Zenon
        <5>3. QED
          BY <5>1, <5>2, Zenon
      <4>2. CASE ~(b > produced - rwp)
        <5>1. /\ b - 1 - produced + EtrSize + rwp \in 0..EtrSize-1
              /\ ~(b - 1 - produced + EtrSize + rwp < rwp)
              /\ produced - EtrSize - rwp + (b - 1 - produced + EtrSize + rwp) + 1 = b
          BY <1>1, <3>1, <4>2
        <5>2. ring[b - 1 - produced + EtrSize + rwp] = b
          BY <5>1, <3>2, Zenon
        <5>3. QED
          BY <5>1, <5>2, Zenon
      <4>3. QED
        BY <4>1, <4>2, Zenon
    <3>5. QED
      BY <3>1, <3>3, <3>4, Zenon
  <2>2. CASE ~wrapped
    <3>1. Settled = produced - rwp /\ rwp <= produced /\ InEtr = {ring[s] : s \in 0..rwp-1}
      BY <2>2, <1>1 DEF RingHolds, Settled, Held, InEtr
    <3>2. \A s \in 0..rwp-1 : ring[s] = produced - rwp + s + 1
      BY <1>1 DEF RingHolds
    <3>3. ASSUME NEW s \in 0..rwp-1 PROVE ring[s] \in Settled + 1 .. produced
      BY <1>1, <3>1, <3>2
    <3>4. ASSUME NEW b \in Settled + 1 .. produced PROVE \E s \in 0..rwp-1 : ring[s] = b
      <4>1. /\ b - 1 - produced + rwp \in 0..rwp-1
            /\ produced - rwp + (b - 1 - produced + rwp) + 1 = b
        BY <1>1, <3>1
      <4>2. QED
        BY <4>1, <3>2, Zenon
    <3>5. QED
      BY <3>1, <3>3, <3>4, Zenon
  <2>3. QED
    BY <2>1, <2>2, Zenon
<1>4. Decoded = {trace_buf[i] : i \in 1..d}
  BY Zenon DEF GivenOK, Decoded
<1>5. 1..ptr = (1..d) \cup (d + 1 .. ptr) /\ \A i \in 1..d, j \in d + 1 .. ptr : i < j
  BY <1>1
<1>6. Decoded \cup InBuf = {trace_buf[i] : i \in 1..ptr}
  BY <1>4, <1>5, Zenon DEF InBuf
<1>7. ASSUME NEW i \in 1..d, NEW j \in d + 1 .. ptr PROVE trace_buf[i] # trace_buf[j]
  <2>1. i \in 1..ptr /\ j \in 1..ptr /\ i < j
    BY <1>5, Zenon
  <2>2. trace_buf[i] < trace_buf[j]
    BY <2>1, Zenon DEF BufHolds
  <2>3. trace_buf[i] \in Nat
    BY <1>1, <2>1 DEF BufOK, BufHolds
  <2>4. QED
    BY <2>2, <2>3
<1>8. Decoded \cap InBuf = {}
  BY <1>4, <1>7, Zenon DEF InBuf
<1>9. QED
  BY <1>1, <1>2, <1>3, <1>6, <1>8, Zenon DEF BufHolds, Placed

\* Where the bytes are before and after a step of an attempt without a failed call.
LEMMA PlacedStep ==
  ASSUME BufInv, [Next]_vars, clean, pc \notin {"ready", "done"}
  PROVE  /\ EtrOK /\ RingHolds /\ Placed
         /\ clean' /\ pc' \notin {"ready", "done"} => EtrOK' /\ RingHolds' /\ Placed'
<1>1. EtrOK /\ BufOK /\ RingHolds /\ BufHolds /\ GivenOK
  BY Zenon DEF BufInv, CleanOK
<1>2. clean' /\ pc' \notin {"ready", "done"} =>
        (EtrOK /\ BufOK /\ RingHolds /\ BufHolds /\ GivenOK)'
  BY TypesStep, CleanStep, Zenon DEF CleanOK
<1>3. (EtrOK /\ BufOK /\ RingHolds /\ BufHolds /\ GivenOK)' => Placed'
  BY ChunksArePlaced, PTL
<1>4. QED
  BY <1>1, <1>2, <1>3, ChunksArePlaced, Zenon

\* A frame that overwrites bytes in the ETR loses them for good.
LEMMA WriteMoves ==
  ASSUME EtrOK, RingHolds, Placed, EtrWrites, RingHolds', Placed'
  PROVE  /\ InEtr' = (InEtr \cup (produced + 1 .. produced')) \ lost'
         /\ InBuf' = InBuf /\ Decoded' = Decoded
<1>1. UNCHANGED <<trace_buf, trace_buf_ptr, decoded_trace_buf, given>>
  BY Zenon DEF EtrWrites, bufVars
<1>2. InBuf' = InBuf /\ Decoded' = Decoded
  BY <1>1, Zenon DEF InBuf, Decoded
<1>3. /\ produced' = produced + Frame
      /\ wrapped' = (wrapped \/ rwp + Frame = EtrSize)
      /\ rwp' = IF rwp + Frame = EtrSize THEN 0 ELSE rwp + Frame
  BY FrameWritten, Zenon
<1>4. /\ Settled \in Nat /\ produced \in Nat /\ Settled <= produced
      /\ InEtr = Settled + 1 .. produced
  BY Zenon DEF Placed
<1>5. /\ Settled' \in Nat /\ Settled' <= produced' /\ lost' \subseteq 1..Settled'
      /\ InEtr' = Settled' + 1 .. produced'
  BY Zenon DEF Placed
<1>6. 1..Settled' \ lost' = 1..Settled \ lost
  BY RingKept, Zenon
<1>7. Settled <= Settled'
  BY <1>3, Sizes, FrameFits DEF Settled, Held, EtrOK
<1>8. ASSUME NEW b \in Settled + 1 .. Settled' PROVE b \in lost'
  BY <1>4, <1>5, <1>6
<1>9. InEtr \cup (produced + 1 .. produced') = Settled + 1 .. produced'
  BY <1>3, <1>4, Sizes
<1>10. (Settled + 1 .. produced') \ lost' = Settled' + 1 .. produced'
  BY <1>4, <1>5, <1>7, <1>8
<1>11. QED
  BY <1>2, <1>5, <1>9, <1>10, Zenon

\* fetch_trace() takes all there is in the ETR, and nothing else.
LEMMA FetchMoves ==
  ASSUME EtrOK, Placed, Fetch, clean', Placed'
  PROVE  InBuf' = InBuf \cup InEtr /\ InEtr' = {} /\ Decoded' = Decoded
<1>1. fetch_trace /\ UNCHANGED <<produced, lost, given>>
  BY Zenon DEF Fetch, fetch_trace_fails
<1>2. rwp' = 0 /\ wrapped' = FALSE
  BY <1>1, Zenon DEF fetch_trace, cs_empty_trace_buffer
<1>3. Decoded' = Decoded
  BY <1>1, Zenon DEF Decoded
<1>4. Settled' = produced
  BY <1>1, <1>2 DEF Settled, Held, EtrOK
<1>5. /\ Settled \in Nat /\ produced \in Nat /\ Settled <= produced
      /\ lost \subseteq 1..Settled /\ InEtr = Settled + 1 .. produced
      /\ Decoded \cup InBuf = 1..Settled \ lost /\ Decoded \cap InBuf = {}
  BY Zenon DEF Placed
<1>6. /\ InEtr' = produced + 1 .. produced
      /\ Decoded \cup InBuf' = 1..produced \ lost /\ Decoded \cap InBuf' = {}
  BY <1>1, <1>3, <1>4, Zenon DEF Placed
<1>7. InEtr' = {}
  BY <1>5, <1>6
<1>8. 1..produced \ lost = (1..Settled \ lost) \cup InEtr /\ Decoded \cap InEtr = {}
  <2>1. 1..produced = (1..Settled) \cup InEtr /\ (1..Settled) \cap InEtr = {}
    BY <1>5
  <2>2. QED
    BY <1>5, <2>1, Zenon
<1>9. InBuf' = InBuf \cup InEtr
  BY <1>5, <1>6, <1>8, Zenon
<1>10. QED
  BY <1>3, <1>7, <1>9, Zenon

\* decode_trace() gives the decoder all that was fetched since the last time.
LEMMA DecodeMoves ==
  ASSUME BufOK, Placed, Decode, Placed'
  PROVE  Decoded' = Decoded \cup InBuf /\ InBuf' = {} /\ InEtr' = InEtr
<1>1. /\ UNCHANGED <<ring, rwp, wrapped, produced, lost>>
      /\ trace_buf_ptr' = trace_buf_ptr /\ decoded_trace_buf' = trace_buf_ptr
  BY Zenon DEF Decode, decode_trace, etrVars
<1>2. InEtr' = InEtr /\ Settled' = Settled
  BY <1>1, Zenon DEF InEtr, Settled, Held
<1>3. InBuf' = {}
  <2>1. trace_buf_ptr + 1 .. trace_buf_ptr = {}
    BY DEF BufOK
  <2>2. QED
    BY <1>1, <2>1, Zenon DEF InBuf
<1>4. Decoded' \cup InBuf' = Decoded \cup InBuf
  BY <1>1, <1>2, Zenon DEF Placed
<1>5. QED
  BY <1>2, <1>3, <1>4, Zenon

\* Every byte of an attempt without a failed call is in one place at a time: a frame
\* goes to the ETR, fetch_trace() moves all the ETR has to the buffer and
\* decode_trace() all of that to the decoder.  So the ring, the buffer and the two
\* pointers implement the sets that TraceCore's fetch_trace and decode_trace move.
THEOREM BytesMoveAsChunks == Spec => [][ChunksMove]_vars
<1>1. BufInv /\ [Next]_vars => ChunksMove
  <2> SUFFICES ASSUME BufInv, [Next]_vars, clean, clean', pc \notin {"ready", "done"}
               PROVE  /\ InBuf \cap InEtr = {} /\ Decoded \cap (InBuf \cup InEtr) = {}
                      /\ EtrWrites =>
                           /\ InEtr' = (InEtr \cup (produced + 1 .. produced')) \ lost'
                           /\ InBuf' = InBuf /\ Decoded' = Decoded
                      /\ Fetch => /\ InBuf' = InBuf \cup InEtr /\ InEtr' = {}
                                  /\ Decoded' = Decoded
                      /\ Decode => /\ Decoded' = Decoded \cup InBuf /\ InBuf' = {}
                                   /\ InEtr' = InEtr
    BY Zenon DEF ChunksMove
  <2>1. /\ EtrOK /\ BufOK /\ RingHolds /\ Placed
        /\ pc' \notin {"ready", "done"} => EtrOK' /\ RingHolds' /\ Placed'
    BY PlacedStep, Zenon DEF BufInv
  <2>2. InBuf \cap InEtr = {} /\ Decoded \cap (InBuf \cup InEtr) = {}
    <3>1. /\ Settled \in Nat /\ InEtr = Settled + 1 .. produced /\ Decoded \cap InBuf = {}
          /\ Decoded \cup InBuf = 1..Settled \ lost /\ produced \in Nat
      BY <2>1, Zenon DEF Placed
    <3>2. (1..Settled) \cap InEtr = {}
      BY <3>1
    <3>3. QED
      BY <3>1, <3>2, Zenon
  <2>3. ASSUME EtrWrites
        PROVE  /\ InEtr' = (InEtr \cup (produced + 1 .. produced')) \ lost'
               /\ InBuf' = InBuf /\ Decoded' = Decoded
    <3>1. pc' = pc
      BY <2>3, Zenon DEF EtrWrites
    <3>2. QED
      BY <2>1, <2>3, <3>1, WriteMoves, Zenon
  <2>4. ASSUME Fetch
        PROVE  InBuf' = InBuf \cup InEtr /\ InEtr' = {} /\ Decoded' = Decoded
    <3>1. pc' \in {"fetched", "lastDecode", "export", "stopped", "failed"}
      BY <2>4, Zenon DEF Fetch, At
    <3>2. pc' \notin {"ready", "done"}
      BY <3>1, Zenon
    <3>3. QED
      BY <2>1, <2>4, <3>2, FetchMoves, Zenon
  <2>5. ASSUME Decode
        PROVE  Decoded' = Decoded \cup InBuf /\ InBuf' = {} /\ InEtr' = InEtr
    <3>1. pc' \in {"running", "stopped"}
      BY <2>5, Zenon DEF Decode, At
    <3>2. pc' \notin {"ready", "done"}
      BY <3>1, Zenon
    <3>3. QED
      BY <2>1, <2>5, <3>2, DecodeMoves, Zenon
  <2>6. QED
    BY <2>2, <2>3, <2>4, <2>5, Zenon
<1>2. QED
  BY <1>1, BufInvariant, PTL DEF Spec
=============================================================================
