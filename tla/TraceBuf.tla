------------------------------- MODULE TraceBuf -------------------------------
(***************************************************************************)
(* The bytes of a trace on their way from the ETR's memory to the decoder  *)
(* and to the exported file: etr_pending(), etr_direct_read(),             *)
(* alloc_trace_buf(), fetch_trace(), decode_trace() and export_trace() of  *)
(* src/src/common.c, as start_trace(), a drain, stop_trace() and           *)
(* fini_trace() call them.  TraceCore has the threads, and moves chunks as *)
(* sets; here one caller at a time moves bytes through a ring that wraps,  *)
(* a buffer that grows and two pointers into it.                           *)
(*                                                                         *)
(* A byte is its number in the trace of the attempt; 0 is any other byte.  *)
(* Pointers are offsets from trace_buf, which is page aligned.             *)
(***************************************************************************)
EXTENDS Integers, Sequences

CONSTANTS
  EtrSize,      \* etr_ram_size
  DefaultSize,  \* DEFAULT_TRACE_SIZE
  Alignment,    \* 8: what fetch_trace() aligns trace_buf_ptr to
  Frame,        \* 16: the ETR is written in formatter frames
  MaxBytes,     \* most bytes of trace one attempt generates
  Faults        \* which calls may fail

ASSUME TraceBufAssumption ==
  /\ Alignment \in Nat \ {0} /\ Frame \in Nat \ {0} /\ Frame % Alignment = 0
  /\ EtrSize \in Nat \ {0} /\ EtrSize % Frame = 0
  /\ DefaultSize \in Nat /\ DefaultSize % Alignment = 0
  /\ MaxBytes \in Nat \ {0} /\ MaxBytes % Frame = 0
  /\ Faults \subseteq {"open", "mmap", "mremap", "pointer", "read", "decode", "export"}

VARIABLES
  decoding_on, direct,     \* etr_direct_read_enabled(); neither ever changes
  etr_map,                 \* is the u-dma-buf mapped?
  ring, rwp, wrapped,      \* the ETR's memory, write pointer and Full bit
  produced, lost,          \* bytes of this attempt; those overwritten unread
  trace_buf,               \* trace_buf_size bytes; <<>> for NULL
  trace_buf_ptr, decoded_trace_buf,
  given,                   \* what the decoder was given in this attempt
  file,                    \* what fini_trace() exported
  clean,                   \* has no call failed since the ETR was last empty?
  pc                       \* where the caller is

etrVars == <<ring, rwp, wrapped>>
bufVars == <<trace_buf, trace_buf_ptr, decoded_trace_buf>>
modeVars == <<decoding_on, direct>>
dataVars == <<etr_map, etrVars, produced, lost, bufVars, given, file, clean>>
vars == <<modeVars, dataVars, pc>>

MayFail(call) == call \in Faults
At(from, to) == pc = from /\ pc' = to

Init ==
  /\ decoding_on \in BOOLEAN /\ direct \in BOOLEAN
  /\ etr_map = FALSE
  /\ ring = [i \in 0..EtrSize-1 |-> 0] /\ rwp = 0 /\ wrapped = FALSE
  /\ produced = 0 /\ lost = {}
  /\ trace_buf = <<>> /\ trace_buf_ptr = 0 /\ decoded_trace_buf = 0
  /\ given = <<>> /\ file = <<>> /\ clean = TRUE /\ pc = "ready"

-----------------------------------------------------------------------------
(* The ETR.                                                                *)

\* The hardware writes one frame, over the oldest one when the ring is full.
EtrWrites ==
  /\ pc \in {"running", "fetched", "abandoned"}
  /\ produced + Frame <= MaxBytes
  /\ LET slots == {(rwp + i) % EtrSize : i \in 0..Frame-1}
         New(s) == produced + 1 + ((s - rwp) % EtrSize)
     IN /\ ring' = [s \in DOMAIN ring |-> IF s \in slots THEN New(s) ELSE ring[s]]
        /\ lost' = IF wrapped THEN lost \cup {ring[s] : s \in slots} ELSE lost
  /\ rwp' = (rwp + Frame) % EtrSize
  /\ wrapped' = (wrapped \/ rwp + Frame = EtrSize)
  /\ produced' = produced + Frame
  /\ UNCHANGED <<modeVars, etr_map, bufVars, given, file, clean, pc>>

\* Bytes held, and the offset of the oldest: RRP is at the base since the last
\* cs_empty_trace_buffer().
etr_pending == [start |-> IF wrapped THEN rwp ELSE 0,
                len   |-> IF wrapped THEN EtrSize ELSE rwp]

\* Mutant: one memcpy(), which runs past the end of the ring.
DirectReadWithoutWrap(len, start) ==
  [i \in 1..len |-> IF start + i - 1 < EtrSize THEN ring[start + i - 1] ELSE 0]

\* Two memcpy()s, around the end of the ring.
etr_direct_read(len, start) ==
  LET first == IF len < EtrSize - start THEN len ELSE EtrSize - start
  IN  [i \in 1..first |-> ring[start + i - 1]] \o
      [i \in 1..len - first |-> ring[i - 1]]

cs_empty_trace_buffer == rwp' = 0 /\ wrapped' = FALSE /\ UNCHANGED ring

-----------------------------------------------------------------------------
(* The trace buffer.                                                       *)

align_up(offset) == ((offset + Alignment - 1) \div Alignment) * Alignment

EtrEmpty == rwp = 0 /\ ~wrapped

\* The buffer holds at least a full ETR.
InitialSize == IF EtrSize > DefaultSize THEN EtrSize ELSE DefaultSize

\* Mutant: the buffer is reused with the old position of the decoder.
AllocKeepsDecoded ==
  /\ trace_buf' = [i \in 1..InitialSize |-> 0]
  /\ trace_buf_ptr' = 0 /\ clean' = EtrEmpty
  /\ UNCHANGED decoded_trace_buf

\* The mapping is reused when the ETR is read directly, else replaced.
alloc_trace_buf ==
  LET reused == direct /\ trace_buf # <<>>
      size   == IF reused THEN Len(trace_buf) ELSE InitialSize
  IN  \/ /\ trace_buf' = [i \in 1..size |-> 0]
         /\ trace_buf_ptr' = 0 /\ decoded_trace_buf' = 0 /\ clean' = EtrEmpty
      \/ /\ ~reused /\ MayFail("mmap")
         /\ trace_buf' = <<>> /\ clean' = FALSE
         /\ UNCHANGED <<trace_buf_ptr, decoded_trace_buf>>

\* What is between trace_buf and a pointer, between two pointers.
Bytes(from, to) == SubSeq(trace_buf, from + 1, to)

\* data is written at an offset of a buffer that mremap() made size bytes long.
Store(size, at, data) ==
  [i \in 1..size |-> IF i \in at + 1 .. at + Len(data) THEN data[i - at]
                     ELSE IF i <= Len(trace_buf) THEN trace_buf[i] ELSE 0]

\* trace_buf_size, doubled until the used bytes and len more fit.
Grown(used, len) ==
  LET Fits(k)   == Len(trace_buf) * 2^k - used >= len
      doublings == CHOOSE k \in 0..MaxBytes : Fits(k) /\ \A j \in 0..k-1 : ~Fits(j)
  IN  Len(trace_buf) * 2^doublings

\* A short read or a read error (n < len, n <= 0), or a pointer register that reads
\* outside the u-dma-buf (etr_pending() then returns 0), is printed, the ETR is
\* emptied all the same, and the call succeeds.
fetch_trace ==
  LET pending == etr_pending
      at      == align_up(trace_buf_ptr)
      size    == Grown(at, pending.len)
      Read(n) == etr_direct_read(n, pending.start)
  IN  \/ /\ etr_map' = (etr_map \/ direct)
         /\ trace_buf' = Store(size, at, Read(pending.len))
         /\ trace_buf_ptr' = at + pending.len
         /\ cs_empty_trace_buffer
         /\ UNCHANGED <<decoded_trace_buf, clean>>
      \/ /\ MayFail("read") /\ ~direct
         /\ \E n \in -1 .. pending.len - 1 :
              /\ trace_buf' = Store(size, at, Read(IF n < 0 THEN 0 ELSE n))
              /\ trace_buf_ptr' = at + n
         /\ cs_empty_trace_buffer /\ clean' = FALSE
         /\ UNCHANGED <<decoded_trace_buf, etr_map>>
      \/ /\ MayFail("pointer") /\ direct
         /\ trace_buf_ptr' = at /\ etr_map' = TRUE
         /\ cs_empty_trace_buffer /\ clean' = FALSE
         /\ UNCHANGED <<trace_buf, decoded_trace_buf>>

\* The buffer cannot grow, or the u-dma-buf cannot be mapped: the ETR stays unread.
fetch_trace_fails ==
  LET at == align_up(trace_buf_ptr)
  IN  /\ \/ /\ MayFail("mremap") /\ Grown(at, etr_pending.len) > Len(trace_buf)
            /\ trace_buf_ptr' = at /\ etr_map' = (etr_map \/ direct)
         \/ MayFail("open") /\ direct /\ ~etr_map /\ UNCHANGED <<trace_buf_ptr, etr_map>>
      /\ clean' = FALSE
      /\ UNCHANGED <<trace_buf, decoded_trace_buf, etrVars>>

\* Mutant: what was decoded is dropped from the buffer.
DecodeRewinds ==
  /\ given' = given \o Bytes(decoded_trace_buf, trace_buf_ptr)
  /\ decoded_trace_buf' = 0 /\ trace_buf_ptr' = 0

\* The decoder gets what was fetched since the last decode.
decode_trace ==
  /\ given' = given \o Bytes(decoded_trace_buf, trace_buf_ptr)
  /\ decoded_trace_buf' = trace_buf_ptr
  /\ UNCHANGED trace_buf_ptr

export_trace == file' = Bytes(0, trace_buf_ptr) /\ UNCHANGED clean

\* No name, no decoder arguments or no file; or the disk is full: fwrite()'s result
\* is not looked at.
export_trace_fails ==
  /\ MayFail("export") /\ clean' = FALSE
  /\ \/ UNCHANGED file
     \/ \E n \in 0 .. trace_buf_ptr : file' = Bytes(0, n)

-----------------------------------------------------------------------------
(* The callers.                                                            *)

\* start_trace(); what is left in the ETR is of an earlier attempt from now on.
StartTrace ==
  /\ pc \in {"ready", "stopped"} /\ pc' = "running"
  /\ alloc_trace_buf
  /\ ring' = [i \in DOMAIN ring |-> 0]
  /\ produced' = 0 /\ lost' = {} /\ given' = <<>> /\ file' = <<>>
  /\ UNCHANGED <<modeVars, etr_map, rwp, wrapped>>

\* Without a buffer the pointers are stale, and a negative size is huge as a
\* size_t: the process does not survive.
Wild == trace_buf = <<>>
Crashes ==
  /\ \/ pc = "running" /\ Wild
     \/ pc \in {"fetched", "lastDecode"} /\ trace_buf_ptr < decoded_trace_buf
     \/ pc = "export" /\ trace_buf_ptr < 0
  /\ pc' = "crashed"
  /\ UNCHANGED <<modeVars, dataVars>>

\* The decoder thread's fetches, in a drain and at the end, and fini_trace()'s do
\* not look at the result; stop_trace()'s own, without a decoder, does.
Fetch ==
  /\ ~Wild
  /\ \/ /\ fetch_trace \/ fetch_trace_fails
        /\ \/ decoding_on /\ pc = "running" /\ pc' \in {"fetched", "lastDecode"}
           \/ ~decoding_on /\ pc \in {"stopped", "failed"} /\ pc' = "export"
     \/ ~decoding_on /\ At("running", "stopped") /\ fetch_trace
     \/ ~decoding_on /\ At("running", "failed") /\ fetch_trace_fails
  /\ UNCHANGED <<modeVars, produced, lost, given, file>>

Decode ==
  /\ trace_buf_ptr >= decoded_trace_buf
  /\ At("fetched", "running") \/ At("lastDecode", "stopped")
  /\ decode_trace
  /\ UNCHANGED <<modeVars, etr_map, etrVars, produced, lost, trace_buf, file, clean>>

\* Whatever was decoded, decoded_trace_buf stays, and the decoder thread is done with
\* this attempt.  What export_failed_trace() saves goes to files of its own, named
\* after a counter, that nothing here reads again.
DecodeFails ==
  /\ MayFail("decode") /\ trace_buf_ptr >= decoded_trace_buf
  /\ At("fetched", "abandoned") \/ At("lastDecode", "stopped")
  /\ clean' = FALSE
  /\ UNCHANGED <<modeVars, etr_map, etrVars, produced, lost, bufVars, given, file>>

StopAbandoned ==
  /\ At("abandoned", "stopped")
  /\ UNCHANGED <<modeVars, dataVars>>

\* fini_trace() with a decoder: the thread is joined, nothing more is fetched.
FiniJoins ==
  /\ decoding_on /\ At("stopped", "export")
  /\ UNCHANGED <<modeVars, dataVars>>

\* export_trace(), whose result is ignored, and free_trace_buf().
FiniExports ==
  /\ At("export", "done") /\ trace_buf_ptr >= 0
  /\ export_trace \/ export_trace_fails
  /\ cs_empty_trace_buffer
  /\ trace_buf' = <<>> /\ trace_buf_ptr' = 0 /\ decoded_trace_buf' = 0
  /\ UNCHANGED <<modeVars, etr_map, produced, lost, given>>

Next ==
  \/ EtrWrites \/ StartTrace \/ Fetch \/ Decode \/ DecodeFails \/ StopAbandoned
  \/ FiniJoins \/ FiniExports \/ Crashes

Spec == Init /\ [][Next]_vars

-----------------------------------------------------------------------------
\* s is the trace of the attempt, in order, without the bytes the ETR overwrote.
IsWhole(s) ==
  /\ {s[i] : i \in DOMAIN s} = 1..produced \ lost
  /\ \A i, j \in DOMAIN s : i < j => s[i] < s[j]

\* However often the ETR wraps, trace_buf grows and the child is drained, the
\* decoder is given exactly the captured bytes of the attempt, in the order the
\* ETR wrote them, with no byte of padding and none of an earlier attempt that
\* used the same pages.
DecoderSeesTrace == decoding_on /\ clean /\ pc = "stopped" => IsWhole(given)

\* fetch_trace() and decode_trace() stay inside trace_buf in every attempt in
\* which no call fails, and a read that fails does not outlive its attempt:
\* alloc_trace_buf() puts both pointers back.
PointersInOrder ==
  clean /\ pc \notin {"ready", "done"} =>
    /\ 0 <= decoded_trace_buf /\ decoded_trace_buf <= trace_buf_ptr
    /\ trace_buf_ptr <= Len(trace_buf) /\ EtrSize <= Len(trace_buf)

\* "it generates the raw CoreSight trace binary": the exported file is the whole
\* trace, although a decoder has consumed it piece by piece, or fini_trace()
\* fetches a second time.
ExportedWhole == pc = "done" /\ clean => IsWhole(file)
=============================================================================
