----------------------------- MODULE VirtualFile -----------------------------
(***************************************************************************)
(* One VirtualFileImpl over the media: the chunk map, the one chunk it     *)
(* keeps in memory, the tail buffer of bytes no chunk holds yet, and the   *)
(* loops of read, write, append, flush and truncate, a step per iteration. *)
(*                                                                         *)
(* Where a chunk lies is the business of FreeSpaceTracker; here an         *)
(* allocation only decides how many payload bytes the chunk may hold.      *)
(* Bytes are those of ByteFile: offset written to, and version.            *)
(***************************************************************************)
EXTENDS Integers, SequencesExt, FiniteSetsExt

CONSTANTS
  TailSize,        \* tailBufferSize; above every capacity, as 4096 > 4082
  Capacities,      \* payload bytes an allocated chunk may hold
  Versions,        \* the different values written to one offset
  MaxCount,        \* bound on the bytes moved by one call
  MaxFile,         \* bound on the size of the file
  MaxFaulty,       \* the same where something goes wrong, which has more outcomes
  Faults           \* what may go wrong, as sets of "save", "load", "empty"

ASSUME FileAssumption ==
  /\ Capacities \subseteq Nat \ {0} /\ Capacities # {}
  /\ TailSize \in Nat /\ \A c \in Capacities : c < TailSize
  /\ MaxCount \in Nat /\ MaxFile \in Nat /\ MaxFaulty \in Nat
  /\ Faults \subseteq SUBSET {"save", "load", "empty"}

VARIABLES
  faults,                  \* what goes wrong in this behaviour, of Faults
  started,                 \* is the stream start chunk on the media?
  chunkMap,                \* payload size of each stored chunk, by offset
  stored,                  \* payload of each chunk on the media, by offset
  currentChunk,            \* offset of the chunk in chunkBuffer, or NoChunk
  chunkBuffer,
  chunkBufferFlushNeeded,
  tailBuffer,
  currentPosition,
  call,                    \* the call in progress
  result                   \* the bytes the last call returned

fileVars == <<faults, started, chunkMap, stored, currentChunk, chunkBuffer,
              chunkBufferFlushNeeded, tailBuffer, currentPosition, call, result>>

mediaVars  == <<faults, started, chunkMap, stored>>
bufferVars == <<currentChunk, chunkBuffer, chunkBufferFlushNeeded>>

SaveFails      == "save" \in faults   \* may the media refuse to save a chunk?
LoadFails      == "load" \in faults   \* may a read of a chunk into memory fail?
TruncatesEmpty == "empty" \in faults  \* is truncate called on a file without bytes?

Bound == IF faults = {} THEN MaxFile ELSE MaxFaulty

NoChunk == -1                          \* chunkMap.end()
Junk    == <<-1, 0>>                   \* a byte that is none of this file
Failure == <<Junk>>                    \* the result of a call that failed
NoCall  == [op |-> "none", count |-> 0, data |-> <<>>, content |-> <<>>, from |-> 0]

Smaller(a, b) == IF a < b THEN a ELSE b
Drop(s, n) == SubSeq(s, n + 1, Len(s))
Take(s, n) == SubSeq(s, 1, n)
Data(p, n, v) == [i \in 1 .. n |-> <<p + i - 1, v>>]
Over(s, k, d) == Take(s, k) \o d \o Drop(s, k + Len(d))

CurrentStoredSize ==
  IF DOMAIN chunkMap = {} THEN 0
  ELSE LET o == Max(DOMAIN chunkMap) IN o + chunkMap[o]

Size == CurrentStoredSize + Len(tailBuffer)

(* upper_bound(p) and one step back. *)
ChunkAt(p) == Max({o \in DOMAIN chunkMap : o <= p})

Needed == ChunkAt(currentPosition)
ChunkEnd == Needed + chunkMap[Needed]

Loaded ==
  /\ currentChunk # NoChunk
  /\ currentChunk <= currentPosition
  /\ currentPosition < currentChunk + chunkMap[currentChunk]

(* The bytes of the file, wherever they are kept. *)
Payload(o) == IF o = currentChunk /\ chunkBufferFlushNeeded THEN chunkBuffer ELSE stored[o]
StoredBytes(of(_)) ==
  [i \in 1 .. CurrentStoredSize |->
     LET o == ChunkAt(i - 1) IN IF i - o <= Len(of(o)) THEN of(o)[i - o] ELSE Junk]
Content == StoredBytes(Payload) \o tailBuffer

(* Readable(o): the checks that follow the load of the chunk.              *)
Readable(o) == Len(stored[o]) = chunkMap[o]

Idle == call.op = "none"
Lost == call.op = "lost"   \* a truncate has stopped half way

Begin(op, n, data) ==
  /\ Idle
  /\ call' = [op |-> op, count |-> n, data |-> data, content |-> Content, from |-> currentPosition]
  /\ UNCHANGED result

Return(r) == call' = NoCall /\ result' = r

(* chunkMap and stored with the chunk at o made, or saved again.           *)
AddChunkLocation(o, payload) ==
  /\ chunkMap' = [x \in DOMAIN chunkMap \cup {o} |-> IF x = o THEN Len(payload) ELSE chunkMap[x]]
  /\ stored' = [x \in DOMAIN stored \cup {o} |-> IF x = o THEN payload ELSE stored[x]]

(* Mutated form: only the flag is reset. *)
FlushedForgotten == stored

(* What flushChunkBuffer leaves on the media. *)
Flushed == IF chunkBufferFlushNeeded THEN [stored EXCEPT ![currentChunk] = chunkBuffer] ELSE stored

NothingLoaded == currentChunk' = NoChunk /\ chunkBuffer' = <<>> /\ chunkBufferFlushNeeded' = FALSE

TypeOK ==
  /\ started \in BOOLEAN /\ chunkBufferFlushNeeded \in BOOLEAN
  /\ \A o \in DOMAIN chunkMap : o \in Nat /\ chunkMap[o] \in Nat
  /\ DOMAIN stored = DOMAIN chunkMap
  /\ currentChunk \in DOMAIN chunkMap \cup {NoChunk} \/ Lost
  /\ chunkBufferFlushNeeded => currentChunk # NoChunk
  /\ currentPosition \in Nat
  /\ call.op \in {"none", "read", "write", "append", "flush", "truncate", "lost"}

Init ==
  /\ faults \in Faults
  /\ started = FALSE
  /\ chunkMap = <<>> /\ stored = <<>> /\ tailBuffer = <<>>
  /\ currentChunk = NoChunk /\ chunkBuffer = <<>> /\ chunkBufferFlushNeeded = FALSE
  /\ currentPosition = 0 /\ call = NoCall /\ result = <<>>

------------------------------------------------------------------------------
(* The chunk buffer.                                                       *)

(* flushChunkBuffer fails when another chunk is needed: the call fails.    *)
EvictionFails ==
  /\ SaveFails /\ ~Loaded /\ chunkBufferFlushNeeded
  /\ Return(Failure)
  /\ UNCHANGED <<mediaVars, bufferVars, tailBuffer, currentPosition>>

(* loadChunkIntoBuffer fails: the iterator already designates the chunk.   *)
LoadIntoBufferFails ==
  /\ ~Loaded /\ (LoadFails \/ ~Readable(Needed))
  /\ stored' = Flushed
  /\ currentChunk' = Needed
  /\ chunkBuffer' = [i \in 1 .. chunkMap[Needed] |-> Junk]
  /\ chunkBufferFlushNeeded' = FALSE
  /\ Return(Failure)
  /\ UNCHANGED <<faults, started, chunkMap, tailBuffer, currentPosition>>

------------------------------------------------------------------------------
(* read                                                                    *)

BeginRead(n) ==
  /\ Begin("read", Smaller(n, Size - currentPosition), <<>>)
  /\ UNCHANGED <<mediaVars, bufferVars, tailBuffer, currentPosition>>

ToRead == call.count - Len(call.data)
Reading == call.op = "read" /\ ToRead > 0

(* The bytes from the position on of a chunk with this payload. *)
CopyOut(payload) ==
  LET m == Smaller(ToRead, ChunkEnd - currentPosition)
      d == SubSeq(payload, currentPosition - Needed + 1, currentPosition - Needed + m)
  IN  /\ call' = [call EXCEPT !.data = @ \o d]
      /\ currentPosition' = currentPosition + m
      /\ UNCHANGED <<faults, started, chunkMap, tailBuffer, result>>

ReadLoaded ==
  /\ Reading /\ currentPosition < CurrentStoredSize /\ Loaded
  /\ CopyOut(chunkBuffer)
  /\ UNCHANGED <<faults, stored, bufferVars>>

(* The read goes on past the chunk: it is not kept.                        *)
ReadThrough ==
  /\ Reading /\ currentPosition < CurrentStoredSize /\ ~Loaded
  /\ currentPosition + ToRead > ChunkEnd
  /\ Readable(Needed)
  /\ stored' = Flushed
  /\ NothingLoaded
  /\ CopyOut(stored[Needed])

ReadIntoBuffer ==
  /\ Reading /\ currentPosition < CurrentStoredSize /\ ~Loaded
  /\ currentPosition + ToRead <= ChunkEnd
  /\ Readable(Needed)
  /\ stored' = Flushed
  /\ currentChunk' = Needed /\ chunkBuffer' = stored[Needed] /\ chunkBufferFlushNeeded' = FALSE
  /\ CopyOut(stored[Needed])

ReadFails ==
  /\ Reading /\ currentPosition < CurrentStoredSize
  /\ \/ EvictionFails
     \/ /\ currentPosition + ToRead <= ChunkEnd
        /\ LoadIntoBufferFails
     \/ /\ ~Loaded /\ (LoadFails \/ ~Readable(Needed))
        /\ currentPosition + ToRead > ChunkEnd
        /\ stored' = Flushed
        /\ NothingLoaded
        /\ Return(Failure)
        /\ UNCHANGED <<faults, started, chunkMap, tailBuffer, currentPosition>>

(* Whatever is left to read is in the tail buffer.                         *)
ReadTail ==
  /\ call.op = "read" /\ (ToRead = 0 \/ currentPosition >= CurrentStoredSize)
  /\ LET k == currentPosition - CurrentStoredSize
     IN  Return(call.data \o SubSeq(tailBuffer, k + 1, k + ToRead))
  /\ currentPosition' = currentPosition + ToRead
  /\ UNCHANGED <<mediaVars, bufferVars, tailBuffer>>

------------------------------------------------------------------------------
(* write                                                                   *)

BeginWrite(n, v) ==
  /\ currentPosition + n <= Bound
  /\ Begin("write", n, Data(currentPosition, n, v))
  /\ UNCHANGED <<mediaVars, bufferVars, tailBuffer, currentPosition>>

Rest == call.data
InChunks == call.op = "write" /\ Rest # <<>> /\ currentPosition < CurrentStoredSize

Wrote(n) ==
  /\ call' = [call EXCEPT !.data = Drop(@, n)]
  /\ currentPosition' = currentPosition + n
  /\ UNCHANGED <<faults, started, chunkMap, tailBuffer, result>>

(* Mutated form: the chunk is always read back from the media. *)
WritePastFromMedia ==
  LET k == currentPosition - Needed
      m == ChunkEnd - currentPosition
  IN  /\ InChunks /\ currentPosition + Len(Rest) > ChunkEnd
      /\ k = 0 \/ Loaded \/ Readable(Needed)
      /\ stored' = [(IF Loaded THEN stored ELSE Flushed) EXCEPT
                      ![Needed] = Take(stored[Needed], k) \o Take(Rest, m)]
      /\ NothingLoaded
      /\ Wrote(m)

(* The write goes on past the chunk: it is saved at once and not kept.     *)
WritePast ==
  LET k == currentPosition - Needed
      m == ChunkEnd - currentPosition
      front == IF Loaded THEN Take(chunkBuffer, k) ELSE Take(stored[Needed], k)
  IN  /\ InChunks /\ currentPosition + Len(Rest) > ChunkEnd
      /\ k = 0 \/ Loaded \/ Readable(Needed)
      /\ stored' = [(IF Loaded THEN stored ELSE Flushed) EXCEPT ![Needed] = front \o Take(Rest, m)]
      /\ NothingLoaded
      /\ Wrote(m)

(* The load fails, but the chunk is saved all the same, with no segment,   *)
(* and the status of the save replaces that of the load.                   *)
WritePastUnloaded ==
  /\ InChunks /\ currentPosition + Len(Rest) > ChunkEnd
  /\ currentPosition # Needed /\ ~Loaded
  /\ LoadFails \/ ~Readable(Needed)
  /\ stored' = [Flushed EXCEPT ![Needed] = <<>>]
  /\ NothingLoaded
  /\ Wrote(0)

(* Mutated form: the buffer is not marked as newer than the media. *)
WriteIntoClean ==
  LET k == currentPosition - Needed
      base == IF Loaded THEN chunkBuffer ELSE stored[Needed]
  IN  /\ InChunks /\ currentPosition + Len(Rest) <= ChunkEnd
      /\ Loaded \/ Readable(Needed)
      /\ stored' = (IF Loaded THEN stored ELSE Flushed)
      /\ currentChunk' = Needed
      /\ chunkBuffer' = Over(base, k, Rest)
      /\ UNCHANGED chunkBufferFlushNeeded
      /\ Wrote(Len(Rest))

(* Mutated form: the loop does not count what it wrote. *)
WriteIntoKeepsRest ==
  /\ InChunks /\ currentPosition + Len(Rest) <= ChunkEnd
  /\ Loaded \/ Readable(Needed)
  /\ stored' = (IF Loaded THEN stored ELSE Flushed)
  /\ currentChunk' = Needed
  /\ chunkBuffer' = Over(IF Loaded THEN chunkBuffer ELSE stored[Needed], currentPosition - Needed, Rest)
  /\ chunkBufferFlushNeeded' = TRUE
  /\ Wrote(0)

(* The write ends in this chunk: it is changed, and kept, in memory.       *)
WriteInto ==
  LET k == currentPosition - Needed
      base == IF Loaded THEN chunkBuffer ELSE stored[Needed]
  IN  /\ InChunks /\ currentPosition + Len(Rest) <= ChunkEnd
      /\ Loaded \/ Readable(Needed)
      /\ stored' = (IF Loaded THEN stored ELSE Flushed)
      /\ currentChunk' = Needed
      /\ chunkBuffer' = Over(base, k, Rest)
      /\ chunkBufferFlushNeeded' = TRUE
      /\ Wrote(Len(Rest))

WriteFails ==
  /\ InChunks
  /\ \/ EvictionFails
     \/ /\ currentPosition + Len(Rest) <= ChunkEnd
        /\ LoadIntoBufferFails
     \/ /\ SaveFails /\ currentPosition + Len(Rest) > ChunkEnd
        /\ stored' = (IF Loaded THEN stored ELSE Flushed)
        /\ NothingLoaded
        /\ Return(Failure)
        /\ UNCHANGED <<faults, started, chunkMap, tailBuffer, currentPosition>>

(* append, called by write: the stream start chunk comes first.            *)
GoOnWith(data) ==
  \/ data = <<>> /\ Return(<<>>) /\ UNCHANGED started
  \/ /\ data # <<>>
     /\ call' = [call EXCEPT !.op = "append", !.data = data]
     /\ started' = TRUE
     /\ UNCHANGED result
  \/ data # <<>> /\ SaveFails /\ ~started /\ Return(Failure) /\ UNCHANGED started

(* What lies in the tail buffer is overwritten there, or dropped when the  *)
(* write replaces a whole buffer; what lies beyond it is appended.         *)
WriteTail ==
  /\ call.op = "write" /\ Rest # <<>> /\ currentPosition >= CurrentStoredSize
  /\ LET k == currentPosition - CurrentStoredSize
         m == Smaller(Len(Rest), Len(tailBuffer) - k)
     IN  IF k = 0 /\ Len(Rest) >= TailSize
         THEN tailBuffer' = <<>> /\ GoOnWith(Rest) /\ UNCHANGED currentPosition
         ELSE /\ tailBuffer' = Over(tailBuffer, k, Take(Rest, m))
              /\ currentPosition' = currentPosition + m
              /\ GoOnWith(Drop(Rest, m))
  /\ UNCHANGED <<faults, chunkMap, stored, bufferVars>>

WriteEnds ==
  /\ call.op = "write" /\ Rest = <<>>
  /\ Return(<<>>)
  /\ UNCHANGED <<mediaVars, bufferVars, tailBuffer, currentPosition>>

------------------------------------------------------------------------------
(* append                                                                  *)

(* The stream start chunk is written first, if it is not there yet.        *)
BeginAppend(n, v) ==
  /\ Size + n <= Bound
  /\ Begin("append", n, Data(Size, n, v))
  /\ started' = TRUE
  /\ UNCHANGED <<faults, chunkMap, stored, bufferVars, tailBuffer, currentPosition>>

TailWouldFill == TailSize - Len(tailBuffer) <= Len(Rest)

(* Mutated form: the new data goes before the buffered data. *)
AppendChunkNewFirst(capacity) ==
  LET m == Smaller(capacity, Len(tailBuffer) + Len(Rest))
      t == Smaller(m, Len(tailBuffer))
  IN  /\ call.op = "append" /\ TailWouldFill
      /\ AddChunkLocation(CurrentStoredSize, Take(Rest \o tailBuffer, m))
      /\ tailBuffer' = Drop(tailBuffer, t)
      /\ call' = [call EXCEPT !.data = Drop(@, m - t)]
      /\ UNCHANGED <<faults, started, bufferVars, currentPosition, result>>

(* A chunk of buffered bytes, then new ones, at the end of the file.       *)
AppendChunk(capacity) ==
  LET m == Smaller(capacity, Len(tailBuffer) + Len(Rest))
      t == Smaller(m, Len(tailBuffer))
  IN  /\ call.op = "append" /\ TailWouldFill
      /\ AddChunkLocation(CurrentStoredSize, Take(tailBuffer \o Rest, m))
      /\ tailBuffer' = Drop(tailBuffer, t)
      /\ call' = [call EXCEPT !.data = Drop(@, m - t)]
      /\ UNCHANGED <<faults, started, bufferVars, currentPosition, result>>

AppendFails ==
  /\ SaveFails /\ call.op = "append" /\ TailWouldFill
  /\ Return(Failure)
  /\ UNCHANGED <<mediaVars, bufferVars, tailBuffer, currentPosition>>

(* Less than a buffer is left: it is kept, and the position follows.       *)
AppendRest ==
  /\ call.op = "append" /\ ~TailWouldFill
  /\ tailBuffer' = tailBuffer \o Rest
  /\ currentPosition' = CurrentStoredSize + Len(tailBuffer')
  /\ Return(<<>>)
  /\ UNCHANGED <<mediaVars, bufferVars>>

------------------------------------------------------------------------------
(* flush and truncate                                                      *)

(* The stream start chunk, then the chunk buffer; truncate calls it first. *)
BeginFlush(op) ==
  /\ Begin(op, 0, <<>>)
  /\ started' = TRUE
  /\ stored' = Flushed /\ chunkBufferFlushNeeded' = FALSE
  /\ UNCHANGED <<faults, chunkMap, currentChunk, chunkBuffer, tailBuffer, currentPosition>>

Flushing == call.op \in {"flush", "truncate"}

(* writeStreamStartIfNeeded or flushChunkBuffer fails: nothing has begun.  *)
RefusedAtOnce ==
  /\ Idle /\ SaveFails
  /\ ~started \/ chunkBufferFlushNeeded
  /\ result' = Failure
  /\ UNCHANGED <<mediaVars, bufferVars, tailBuffer, currentPosition, call>>

FlushTail(capacity) ==
  LET m == Smaller(capacity, Len(tailBuffer))
  IN  /\ Flushing /\ tailBuffer # <<>>
      /\ AddChunkLocation(CurrentStoredSize, Take(tailBuffer, m))
      /\ tailBuffer' = Drop(tailBuffer, m)
      /\ UNCHANGED <<faults, started, bufferVars, currentPosition, call, result>>

FlushEnds ==
  /\ call.op = "flush" /\ tailBuffer = <<>>
  /\ Return(<<>>)
  /\ UNCHANGED <<mediaVars, bufferVars, tailBuffer, currentPosition>>

FlushFails ==
  /\ SaveFails /\ Flushing /\ tailBuffer # <<>>
  /\ Return(Failure)
  /\ UNCHANGED <<mediaVars, bufferVars, tailBuffer, currentPosition>>

(* Mutated form: the chunk buffer, and the iterator, survive. *)
TruncateChunksKeepsBuffer ==
  LET keep == {o \in DOMAIN chunkMap : o < currentPosition}
      left(o) == Smaller(chunkMap[o], currentPosition - o)
  IN  /\ call.op = "truncate" /\ tailBuffer = <<>> /\ chunkMap # <<>>
      /\ chunkMap' = [o \in keep |-> left(o)]
      /\ stored' = [o \in keep |-> Take(stored[o], left(o))]
      /\ UNCHANGED bufferVars
      /\ Return(<<>>)
      /\ UNCHANGED <<faults, started, tailBuffer, currentPosition>>

(* Mutated form: a chunk that starts at the position stays, with no bytes. *)
TruncateChunksAtPosition ==
  LET keep == {o \in DOMAIN chunkMap : o <= currentPosition}
      left(o) == Smaller(chunkMap[o], currentPosition - o)
  IN  /\ call.op = "truncate" /\ tailBuffer = <<>> /\ chunkMap # <<>>
      /\ chunkMap' = [o \in keep |-> left(o)]
      /\ stored' = [o \in keep |-> Take(stored[o], left(o))]
      /\ NothingLoaded
      /\ Return(<<>>)
      /\ UNCHANGED <<faults, started, tailBuffer, currentPosition>>

(* The chunk the position is in is saved again, shorter, and those behind  *)
(* it are given up.                                                        *)
TruncateChunks ==
  LET keep == {o \in DOMAIN chunkMap : o < currentPosition}
      left(o) == Smaller(chunkMap[o], currentPosition - o)
  IN  /\ call.op = "truncate" /\ tailBuffer = <<>> /\ chunkMap # <<>>
      /\ chunkMap' = [o \in keep |-> left(o)]
      /\ stored' = [o \in keep |-> Take(stored[o], left(o))]
      /\ NothingLoaded
      /\ Return(<<>>)
      /\ UNCHANGED <<faults, started, tailBuffer, currentPosition>>

(* A chunk is looked for in an empty map: whatever the build makes of it,  *)
(* there is nothing to give up.                                            *)
TruncateNothing ==
  /\ call.op = "truncate" /\ tailBuffer = <<>> /\ chunkMap = <<>>
  /\ TruncatesEmpty
  /\ Return(<<>>)
  /\ UNCHANGED <<mediaVars, bufferVars, tailBuffer, currentPosition>>

(* The chunk the position is in cannot be loaded, or saved again, or the   *)
(* first one to give up cannot be loaded: nothing has changed.             *)
TruncateFails ==
  /\ call.op = "truncate" /\ tailBuffer = <<>> /\ chunkMap # <<>>
  /\ LoadFails \/ (SaveFails /\ currentPosition \notin DOMAIN chunkMap)
  /\ Return(Failure)
  /\ UNCHANGED <<mediaVars, bufferVars, tailBuffer, currentPosition>>

(* A chunk to give up, at d, cannot be loaded after the first has been     *)
(* shortened or others have been given up.  The chunk in memory is not     *)
(* reset: its iterator may be one of those erased, and what the file does  *)
(* from then on is not followed.                                           *)
TruncateHalfDone ==
  /\ LoadFails /\ call.op = "truncate" /\ tailBuffer = <<>>
  /\ \E d \in DOMAIN chunkMap :
       LET gone == {o \in DOMAIN chunkMap : currentPosition <= o /\ o < d}
           left(o) == IF o < currentPosition THEN Smaller(chunkMap[o], currentPosition - o) ELSE chunkMap[o]
       IN  /\ currentPosition <= d /\ (gone # {} \/ currentPosition \notin DOMAIN chunkMap)
           /\ chunkMap' = [o \in DOMAIN chunkMap \ gone |-> left(o)]
           /\ stored' = [o \in DOMAIN chunkMap \ gone |-> Take(stored[o], left(o))]
  /\ call' = [call EXCEPT !.op = "lost"] /\ result' = Failure
  /\ UNCHANGED <<faults, started, bufferVars, tailBuffer, currentPosition>>

------------------------------------------------------------------------------
(* setPosition, and setPositionLast with p = Size.                         *)
SetPosition(p) ==
  /\ Idle
  /\ currentPosition' = p
  /\ result' = <<>>
  /\ UNCHANGED <<mediaVars, bufferVars, tailBuffer, call>>

(* The container is closed, all flushed, and opened: the map is made again *)
(* from the chunks that the scan finds.                                    *)
Reopen ==
  /\ Idle /\ started /\ tailBuffer = <<>> /\ ~chunkBufferFlushNeeded
  /\ chunkMap' = [o \in DOMAIN stored |-> Len(stored[o])]
  /\ NothingLoaded
  /\ currentPosition' = 0 /\ result' = <<>>
  /\ UNCHANGED <<faults, started, stored, tailBuffer, call>>

Step ==
  \/ ReadLoaded \/ ReadThrough \/ ReadIntoBuffer \/ ReadFails \/ ReadTail
  \/ WritePast \/ WritePastUnloaded \/ WriteInto \/ WriteFails \/ WriteTail \/ WriteEnds
  \/ \E c \in Capacities : AppendChunk(c) \/ FlushTail(c)
  \/ AppendFails \/ AppendRest
  \/ FlushEnds \/ FlushFails
  \/ TruncateChunks \/ TruncateNothing \/ TruncateFails \/ TruncateHalfDone

Next ==
  \/ Step
  \/ \E n \in 0 .. MaxCount : BeginRead(n)
  \/ \E n \in 0 .. MaxCount, v \in Versions : BeginWrite(n, v) \/ BeginAppend(n, v)
  \/ BeginFlush("flush")
  \/ BeginFlush("truncate") /\ (Size > 0 \/ TruncatesEmpty)
  \/ \E p \in 0 .. Size : SetPosition(p)
  \/ RefusedAtOnce
  \/ Reopen

Spec == Init /\ [][Next]_fileVars

(* A call runs in the caller's thread: its loops are never abandoned.      *)
FairSpec == Spec /\ WF_fileVars(Step)

------------------------------------------------------------------------------
(* Properties.                                                             *)

(* The chunks tile the stored part of the file: there is one at offset 0,  *)
(* each starts where the one before it ends, and none is empty.  Every     *)
(* upper_bound of virtual_file_impl.cpp relies on it.  (A truncate that    *)
(* cannot load a chunk half way leaves a gap.)                             *)
ChunksTile ==
  ~Lost => \A o \in DOMAIN chunkMap :
    /\ chunkMap[o] > 0
    /\ o = 0 \/ \E p \in DOMAIN chunkMap : p + chunkMap[p] = o
    /\ \A p \in DOMAIN chunkMap : p < o => p + chunkMap[p] <= o

(* Between calls the chunk in memory that is not newer than the media is   *)
(* what the media holds: read takes it for the chunk.  (A load that fails  *)
(* leaves the chunk of before named and its bytes gone.)                   *)
CacheCoherent ==
  ~LoadFails /\ Idle /\ currentChunk # NoChunk /\ ~chunkBufferFlushNeeded
    => chunkBuffer = stored[currentChunk]

(* Every byte, on the media or in a buffer, belongs at the offset it is    *)
(* kept for: the loops never shift data, whatever the media refuses.       *)
BytesInPlace ==
  LET InPlace(s, from) == \A i \in DOMAIN s : s[i][1] = from + i - 1
  IN  ~LoadFails =>
        /\ \A o \in DOMAIN stored : InPlace(stored[o], o)
        /\ currentChunk # NoChunk => InPlace(chunkBuffer, currentChunk)
        /\ InPlace(tailBuffer, CurrentStoredSize)

(* A flush that returns leaves on the media alone all the file held when   *)
(* it was called: written chunks, the chunk buffer and the tail.           *)
FlushPersists ==
  [][call.op = "flush" /\ Idle' /\ result' = <<>>
       => started' /\ StoredBytes(LAMBDA o : stored[o])' = call.content]_fileVars

(* Every call returns: each iteration of its loops makes progress.  (write *)
(* goes round for good when the chunk it needs cannot be loaded.)          *)
CallsReturn == []<>(Idle \/ LoadFails)

(* With calls taken to act when they return, a virtual file is a ByteFile; *)
(* one whose media fails it, or that is misused, is compared with nothing. *)
Abstract == INSTANCE ByteFile WITH
  content <- IF faults # {} THEN <<>> ELSE IF Idle THEN Content ELSE call.content,
  position <- IF faults # {} THEN 0 ELSE IF Idle THEN currentPosition ELSE call.from,
  result <- IF faults # {} THEN <<>> ELSE result

IsByteFile == Abstract!ByteFileSpec
==============================================================================
