------------------------------- MODULE Audio -------------------------------
(***************************************************************************)
(* The audio mixer (kernel/src/gaming/audio.rs): sources that come and go, *)
(* each with a ring of samples, mixed into a buffer of the caller.  Calls  *)
(* are made under the lock of AUDIO_MIXER.  Samples and volumes are scaled *)
(* down: a sample lies in Lo .. Hi and Full is the volume 255.  The master *)
(* volume is always 255, which changes no sample: nothing in the kernel    *)
(* sets it.                                                                *)
(***************************************************************************)
EXTENDS Integers, Sequences, FiniteSets, SequencesExt

CONSTANTS
  MaxSources,   \* MAX_SOURCES
  BufferSize,   \* PCM_BUFFER_SIZE
  Chunk,        \* the length of tmp in mix_output
  Lo, Hi,       \* i16::MIN, i16::MAX
  Full,         \* the volume that leaves a sample as it is
  Samples,      \* samples that are written
  MaxId, MaxWritten, \* bounds: sources ever added, samples ever offered
  None

VARIABLES
  sources, next_id,                  \* AudioMixer
  out,                               \* the caller's buffer after the last mix_output
  accepted, heard                    \* history: source -> samples taken in, samples mixed

audio == <<sources, next_id, out, accepted, heard>>

Ids == 1 .. MaxId
Slots == 1 .. MaxSources
SlotOf(id) == CHOOSE i \in Slots : sources[i] # None /\ sources[i].id = id
Exists(id) == \E i \in Slots : sources[i] # None /\ sources[i].id = id
FreeSlots == {i \in Slots : sources[i] = None}
Lesser(a, b) == IF a < b THEN a ELSE b
Offered == FoldFunction(LAMBDA s, n : Len(s) + n, 0, accepted)

Init ==
  /\ sources = [i \in Slots |-> None] /\ next_id = 1
  /\ out = << >>
  /\ accepted = [id \in Ids |-> << >>] /\ heard = [id \in Ids |-> << >>]

-----------------------------------------------------------------------------
EmptyBuffer == [data |-> [i \in 0 .. BufferSize - 1 |-> 0], read_pos |-> 0, write_pos |-> 0, len |-> 0]

WriteSamples(b, samples) ==
  [b EXCEPT !.data = [i \in DOMAIN b.data |->
                        LET k == ((i - b.write_pos) % BufferSize) + 1
                        IN  IF k <= Len(samples) THEN samples[k] ELSE b.data[i]],
            !.write_pos = (@ + Len(samples)) % BufferSize,
            !.len = @ + Len(samples)]

(* How many samples read_samples gives for a buffer of n. *)
ReadAll(b, n) == n
ReadCount(b, n) == Lesser(n, b.len)
Read(b, n) == [i \in 1 .. ReadCount(b, n) |-> b.data[(b.read_pos + i - 1) % BufferSize]]
ReadSamples(b, n) ==
  [b EXCEPT !.read_pos = (@ + ReadCount(b, n)) % BufferSize, !.len = @ - ReadCount(b, n)]

-----------------------------------------------------------------------------
AddSource ==
  /\ FreeSlots # {} /\ next_id <= MaxId
  /\ LET i == CHOOSE s \in FreeSlots : \A t \in FreeSlots : s <= t
     IN  sources' = [sources EXCEPT ![i] = [id |-> next_id, volume |-> Full, buffer |-> EmptyBuffer]]
  /\ next_id' = next_id + 1
  /\ UNCHANGED <<out, accepted, heard>>

RemoveSource(id) ==
  /\ Exists(id)
  /\ sources' = [sources EXCEPT ![SlotOf(id)] = None]
  /\ UNCHANGED <<next_id, out, accepted, heard>>

(* What does not fit is left to the caller. *)
WriteToSource(id, samples) ==
  /\ Exists(id) /\ Offered + Len(samples) <= MaxWritten
  /\ LET b == sources[SlotOf(id)].buffer
         taken == SubSeq(samples, 1, Lesser(Len(samples), BufferSize - b.len))
     IN  /\ sources' = [sources EXCEPT ![SlotOf(id)].buffer = WriteSamples(b, taken)]
         /\ accepted' = [accepted EXCEPT ![id] = @ \o taken]
  /\ UNCHANGED <<next_id, out, heard>>

SetSourceVolume(id, volume) ==
  /\ Exists(id)
  /\ sources' = [sources EXCEPT ![SlotOf(id)].volume = volume]
  /\ UNCHANGED <<next_id, out, accepted, heard>>

(* Division that rounds towards zero, and the clamp to the range of i16. *)
Scaled(sample, volume) ==
  IF sample < 0 THEN -((-sample * volume) \div Full) ELSE (sample * volume) \div Full
Clamped(sum) == IF sum < Lo THEN Lo ELSE IF sum > Hi THEN Hi ELSE sum

(* mix_output for a buffer of n samples: source by source, clamped after    *)
(* each one; samples past the chunk are silence.                            *)
MixOutput(n) ==
  LET chunk == Lesser(n, Chunk)
      next(i) == IF sources[i] = None THEN << >> ELSE Read(sources[i].buffer, chunk)
      at(k) == FoldLeft(LAMBDA sum, i : IF k <= Len(next(i))
                                         THEN Clamped(sum + Scaled(next(i)[k], sources[i].volume)) ELSE sum,
                        0, [i \in Slots |-> i])
  IN  /\ out' = [k \in 1 .. n |-> at(k)]
      /\ sources' = [i \in Slots |-> IF sources[i] = None THEN None
                                     ELSE [sources[i] EXCEPT !.buffer = ReadSamples(@, chunk)]]
      /\ heard' = [id \in Ids |-> IF Exists(id) THEN heard[id] \o next(SlotOf(id)) ELSE heard[id]]
      /\ UNCHANGED <<next_id, accepted>>

Next ==
  \/ AddSource
  \/ \E id \in Ids :
       \/ RemoveSource(id)
       \/ \E samples \in SeqOf(Samples, 2) \ {<< >>} : WriteToSource(id, samples)
       \/ \E volume \in {0, Full} : SetSourceVolume(id, volume)
  \/ \E n \in 1 .. Chunk + 1 : MixOutput(n)

Spec == Init /\ [][Next]_audio
-----------------------------------------------------------------------------
(* However writes, mixes of any length and reuse of slots follow each other *)
(* and wherever the rings wrap: what a source has been heard to play, with  *)
(* what its ring still holds, is what it was given, in order, each sample   *)
(* once; a source that is gone plays nothing more; and what is mixed can    *)
(* be represented.                                                          *)
SamplesHeardOnce ==
  /\ \A id \in Ids :
       IF Exists(id)
       THEN LET b == sources[SlotOf(id)].buffer
            IN  /\ b.len \in 0 .. BufferSize
                /\ accepted[id] = heard[id] \o [i \in 1 .. b.len |-> b.data[(b.read_pos + i - 1) % BufferSize]]
       ELSE IsPrefix(heard[id], accepted[id])
  /\ \A k \in DOMAIN out : out[k] \in Lo .. Hi
=============================================================================
