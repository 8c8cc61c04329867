------------------------------ MODULE DataChunk ------------------------------
(***************************************************************************)
(* The life of one chunk object on its way to the media: constructed,      *)
(* sized to the reserved space, given the scatter-gather segments of the   *)
(* tail buffer and of the caller's data, then saved.  A data chunk shrinks *)
(* to the smallest chunk that holds its payload; a fill chunk takes all of *)
(* its space.  Byte counts are modelled, the bytes are not.                *)
(***************************************************************************)
EXTENDS ChunkHeader, SequencesExt

CONSTANTS
  StreamBytes,   \* bytes a data chunk adds to the common header (10)
  Spaces,        \* reserved spaces, in bytes, that a chunk is sized for
  Lengths,       \* segment lengths
  MaxSegments    \* bound: VirtualFileImpl::append adds at most 3

ASSUME DataChunkAssumption ==
  /\ StreamBytes \in Nat /\ HeaderBytes + StreamBytes < MinChunk
  /\ Spaces \subseteq Nat /\ Lengths \subseteq Nat
  /\ MaxSegments \in Nat

VARIABLES
  phase,       \* "constructed", "sized" or "saved"
  word,        \* the 16-bit header word
  space,       \* the reserved space the chunk was sized for
  segments,    \* the scatter-gather list: lengths and processed counts
  listBytes,   \* currentScatterGatherListByteCount
  accepted,    \* sum of what addScatterGatherListSegment returned
  written      \* bytes put on the media by save

vars == <<phase, word, space, segments, listBytes, accepted, written>>

FullHeaderBytes == HeaderBytes + (IF TypeOf(word) = Data THEN StreamBytes ELSE 0)
AvailableSpace  == ChunkSizeOf(word) - FullHeaderBytes
PayloadSize     == NumberValidBytes(word) - StreamBytes

Init ==
  /\ phase = "constructed"
  /\ word \in {NewHeader(Data, StreamBytes), NewHeader(Fill, 0)}
  /\ space = 0 /\ segments = <<>>
  /\ listBytes = 0 /\ accepted = 0 /\ written = 0

SetChunkSize(s) ==
  /\ phase = "constructed"
  /\ word' = SetBestFitSize(IF TypeOf(word) = Fill THEN SetAllBytesValid(word) ELSE word, s)
  /\ phase' = "sized"
  /\ space' = s
  /\ UNCHANGED <<segments, listBytes, accepted, written>>

(* Mutated form: remembers the last segment's length, not the sum. *)
AddSegmentNoSum(length) ==
  /\ phase = "sized" /\ TypeOf(word) = Data /\ Len(segments) < MaxSegments
  /\ LET remaining == IF AvailableSpace > listBytes THEN AvailableSpace - listBytes ELSE 0
     IN  accepted' = accepted + Min({length, remaining})
  /\ segments' = Append(segments, [length |-> length, processed |-> 0])
  /\ listBytes' = length
  /\ UNCHANGED <<phase, word, space, written>>

AddScatterGatherListSegment(length) ==
  /\ phase = "sized" /\ TypeOf(word) = Data /\ Len(segments) < MaxSegments
  /\ LET remaining == IF AvailableSpace > listBytes THEN AvailableSpace - listBytes ELSE 0
     IN  accepted' = accepted + Min({length, remaining})
  /\ segments' = Append(segments, [length |-> length, processed |-> 0])
  /\ listBytes' = listBytes + length
  /\ UNCHANGED <<phase, word, space, written>>

(* Bytes of the first n segments. *)
Prefix(n) == FoldLeft(LAMBDA sum, s : sum + s.length, 0, SubSeq(segments, 1, n))

(* What each segment gives to a payload of the given size, in order. *)
Processed(payload) ==
  [i \in DOMAIN segments |->
     [segments[i] EXCEPT !.processed =
        Min({@ + segments[i].length, IF payload > Prefix(i - 1) THEN payload - Prefix(i - 1) ELSE 0})]]

(* StreamDataChunk::save(true): right-size, then header, payload, padding. *)
SaveData ==
  /\ phase = "sized" /\ TypeOf(word) = Data
  /\ LET payload == Min({AvailableSpace, listBytes})
         newWord == SetNumberValidBytes(word, payload + StreamBytes, FALSE)
         body    == FullHeaderBytes + FoldLeft(LAMBDA sum, s : sum + s.processed, 0, Processed(payload))
     IN  /\ word' = newWord
         /\ segments' = Processed(payload)
         /\ written' = Max({body, ChunkSizeOf(newWord)})  \* writeTail pads
  /\ phase' = "saved"
  /\ UNCHANGED <<space, listBytes, accepted>>

(* FillChunk: Chunk::save(true), the header and its padding. *)
SaveFill ==
  /\ phase = "sized" /\ TypeOf(word) = Fill
  /\ written' = ChunkSizeOf(word)
  /\ phase' = "saved"
  /\ UNCHANGED <<word, space, segments, listBytes, accepted>>

Next ==
  \/ \E s \in Spaces : SetChunkSize(s)
  \/ \E length \in Lengths : AddScatterGatherListSegment(length)
  \/ SaveData
  \/ SaveFill

Spec == Init /\ [][Next]_vars

------------------------------------------------------------------------------
SavedData == phase = "saved" /\ TypeOf(word) = Data
ProcessedTotal == FoldLeft(LAMBDA sum, s : sum + s.processed, 0, segments)

(* What a later reader decodes from the saved header (right-sized, its     *)
(* invalid bytes packed into eleven bits of a 16-bit word) is exactly what *)
(* addScatterGatherListSegment said it would take, segment by segment,     *)
(* before the size of the chunk was final, and what save took.             *)
ReaderAgrees ==
  SavedData => word < 2^16 /\ PayloadSize = accepted /\ ProcessedTotal = accepted

(* A saved data chunk stays inside the space it was reserved and is the    *)
(* smallest that holds its payload: rewriting it in place, whatever size   *)
(* the rewriting code starts from, gives the same footprint.               *)
RightSized ==
  SavedData =>
    /\ written = ChunkSizeOf(word) /\ ChunkSizeOf(word) <= space
    /\ \/ ChunkSizeOf(word) = MinChunk
       \/ ChunkSizeOf(word) \div 2 < HeaderBytes + StreamBytes + PayloadSize
    /\ SetNumberValidBytes(SetBestFitSize(word, MaxChunk), StreamBytes + PayloadSize, FALSE) = word

(* A fill chunk is valid to its last byte and leaves less than half of the *)
(* space it was given, so that covering a free area ends.                  *)
FillCoversHalf ==
  (phase = "saved" /\ TypeOf(word) = Fill) =>
    /\ NumberValidBytes(word) = ChunkSizeOf(word) - HeaderBytes
    /\ written <= space
    /\ written = MaxChunk \/ 2 * written > space

==============================================================================
