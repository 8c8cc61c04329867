------------------------------ MODULE Container ------------------------------
(***************************************************************************)
(* ContainerImpl with its VirtualFileImpls and the media: the directory,   *)
(* stream identifiers, where the chunks of every file lie, the free map,   *)
(* and what a scan makes of the media after the container is opened again. *)
(*                                                                         *)
(* Bytes are counted in pieces, a piece being what one data chunk takes;   *)
(* VirtualFile has the bytes.  A unit is the 32 bytes a FileIndex counts.  *)
(* The media is the set of the chunk headers on it: a chunk that is        *)
(* written destroys the headers under it, those before it stay, and a scan *)
(* goes from header to header by the sizes they hold.  A media that is cut *)
(* ends where it is cut, in the middle of a chunk if need be.              *)
(***************************************************************************)
EXTENDS FreeMapWalk, Sequences, FiniteSetsExt

CONSTANTS
  Names,               \* virtual file names
  Pieces,              \* the different contents of a piece
  MaxPieces,           \* bound on the pieces of a file
  MaxIdentifier,       \* bound on the stream identifiers of a session
  MaxSize,             \* bound on the length of the media, in units
  ChunkUnits,          \* the chunk sizes, in units
  StartUnits,          \* size of a stream start chunk (4)
  HeaderUnits,         \* size of the file header chunk
  Settings             \* the settings that a behaviour may have

ASSUME ContainerAssumption ==
  /\ ChunkUnits \subseteq Nat \ {0} /\ 1 \in ChunkUnits
  /\ \E m \in ChunkUnits : \A c \in ChunkUnits : c <= m
  /\ StartUnits \in ChunkUnits /\ HeaderUnits \in Nat \ {0}
  /\ Settings \subseteq SUBSET {"truncates", "remembers", "buffers", "recreates", "continues"}

(* The settings of the media: it can be cut, "truncates", and its size()   *)
(* answers afterwards what it did before, "remembers" (FileContainer's; a  *)
(* vector's size follows).  Those of the callers: they close a container   *)
(* that has unflushed data, "buffers", create a file that exists,          *)
(* "recreates", write on in a session that has cut the media, "continues". *)
VARIABLES
  setting,
  phase,    \* "closed", "opened", "scanning", "ready", "closing", "failed"
  media,    \* the chunk headers on the media
  length,   \* its length, in units
  size,     \* what size() answers for it
  freeMap,
  files,    \* filesByName and fileApisByName: the file of each name
  ids,      \* the keys of filesByIdentifier
  scan      \* where traverseContainer is, or begins

containerVars == <<setting, phase, media, length, size, freeMap, files, ids, scan>>

Nobody == "nobody"
NoPiece == "nothing"

Chunk(kind, units, id, name, offset, data) ==
  [at |-> 0, units |-> units, kind |-> kind, id |-> id, name |-> name, offset |-> offset, data |-> data]
Fill(units) == Chunk("fill", units, 0, Nobody, 0, NoPiece)

At(chunk, p) == [chunk EXCEPT !.at = p]
Put(f, k, v) == [x \in DOMAIN f \cup {k} |-> IF x = k THEN v ELSE f[x]]
Except(f, k) == [x \in DOMAIN f \ {k} |-> f[x]]

MaxUnits   == Max(ChunkUnits)
Largest(n) == Max({c \in ChunkUnits : c <= n})

(* The media and the free map, as one value that the operations pass on. *)
Disk == [media |-> media, length |-> length, size |-> size, freeMap |-> freeMap]
SetDisk(d) == media' = d.media /\ length' = d.length /\ size' = d.size /\ freeMap' = d.freeMap

SupportsTruncation == "truncates" \in setting
Orderly == setting \cap {"buffers", "recreates", "continues"} = {}

Init ==
  /\ setting \in Settings
  /\ phase = "closed" /\ media = {} /\ length = 0 /\ size = 0 /\ freeMap = {}
  /\ files = [n \in {} |-> 0] /\ ids = {} /\ scan = 0

------------------------------------------------------------------------------
(* Chunks on the media.                                                    *)

Crosses(m, u) == m.at < u /\ u < m.at + m.units

(* [s, e) is written over.  A chunk that reaches into it keeps its header, *)
(* a short name in it included; what a data chunk held is spoilt.          *)
Spoilt(m, u) == IF m.kind = "data" /\ Crosses(m, u) THEN [m EXCEPT !.data = NoPiece] ELSE m
Around(headers, s, e) == {Spoilt(m, s) : m \in {m \in headers : m.at < s \/ e <= m.at}}
Written(headers, c) == Around(headers, c.at, c.at + c.units) \cup {c}

(* The media is cut at u.  A start chunk is header throughout, and one     *)
(* that ends there cannot be loaded any more.                              *)
Torn(m, u) == IF m.kind = "start" /\ Crosses(m, u) THEN [m EXCEPT !.kind = "torn"] ELSE Spoilt(m, u)
CutAt(headers, u) == {Torn(m, u) : m \in {m \in headers : m.at < u}}

(* The free map of a session that goes on after a cut: regions past the    *)
(* end overlap what is reserved there, and the code's own walk says what   *)
(* becomes of them (its assertions left aside).                            *)
Overlaps(d) == ~DisjointRegions(d.freeMap)

Taken(d, from, minimum, desired) ==
  IF Overlaps(d) THEN WalkAllocation(d.freeMap, d.size, from, minimum, desired)
  ELSE Allocation(d.freeMap, d.size, from, minimum, desired)

TakenAndReleased(d, from, minimum, desired, grown, h) ==
  IF Overlaps(d) THEN WalkRelease(WalkReserve(d.freeMap, d.size, from, minimum, desired), grown, h).map
  ELSE Released(Reserved(d.freeMap, d.size, from, minimum, desired), grown, h)

(* Mutated form: the rest of the reservation is not released. *)
SavedKeepsRest(d, from, minimum, desired, chunk) ==
  LET a == Taken(d, from, minimum, desired)
      e == a.start + chunk.units
      grown == Higher(d.size, e)
  IN  [media |-> Written(d.media, At(chunk, a.start)),
       length |-> Higher(d.length, e),
       size |-> grown,
       freeMap |-> TakenAndReleased(d, from, minimum, desired, grown,
                     [key |-> a.start, start |-> e, units |-> 0])]

(* Reserve, save, release: the chunk goes to the front of the reservation. *)
Saved(d, from, minimum, desired, chunk) ==
  LET a == Taken(d, from, minimum, desired)
      e == a.start + chunk.units
      grown == Higher(d.size, e)
  IN  [media |-> Written(d.media, At(chunk, a.start)),
       length |-> Higher(d.length, e),
       size |-> grown,
       freeMap |-> TakenAndReleased(d, from, minimum, desired, grown,
                     [key |-> a.start, start |-> e, units |-> a.end - e])]

(* setPosition refuses what lies past the end of the media. *)
Refused(d, from, minimum, desired) == Taken(d, from, minimum, desired).start > d.size

(* The chunk fits, and the media can be positioned there; FreeSpaceTracker *)
(* has the saves that fail.                                                *)
Fits(d, from, minimum, desired, units) ==
  LET a == Taken(d, from, minimum, desired)
  IN  units <= a.end - a.start /\ ~Refused(d, from, minimum, desired) /\ a.start + units <= MaxSize

WalkFreed(map, areas) ==
  MapThenFoldSet(LAMBDA c, m : WalkNewFree(m, c.at, c.units, TRUE).map, map, LAMBDA c : c,
                 LAMBDA s : CHOOSE c \in s : \A b \in s : b.at <= c.at, areas)

(* Areas are given up, the first of them first. *)
Freed(d, areas) ==
  IF Overlaps(d) \/ \E r \in d.freeMap, c \in areas : ~Apart(r, Entry(c.at, c.at + c.units, FALSE, TRUE))
  THEN [d EXCEPT !.freeMap = WalkFreed(@, areas)]
  ELSE [d EXCEPT !.freeMap = FoldSet(LAMBDA c, map : NewFreeSpaceArea(map, c.at, c.units, TRUE), @, areas)]

(* The fill chunks that flushArea writes over [s, e). *)
Fills(s, e) ==
  LET f[p \in s .. e] == IF p = e THEN {} ELSE {At(Fill(Largest(e - p)), p)} \cup f[p + Largest(e - p)]
  IN  f[s]

(* flushArea: an area that reaches the end of the media is cut off where   *)
(* that can be done; otherwise fill chunks cover it.                       *)
FlushArea(d, r) ==
  IF SupportsTruncation /\ r.end >= d.size
  THEN [d EXCEPT !.length = r.start, !.size = IF "remembers" \in setting THEN @ ELSE r.start,
                 !.media = CutAt(@, r.start)]
  ELSE [d EXCEPT !.length = Higher(@, r.end), !.size = Higher(@, r.end),
                 !.media = Around(@, r.start, r.end) \cup Fills(r.start, r.end)]

(* Mutated form: regions a reservation has split are skipped. *)
FlushFreeSpaceFirstOnly(d) ==
  LET dirty == {r \in d.freeMap : r.dirty}
  IN  IF dirty = {} THEN d
      ELSE LET r == First(dirty)
           IN  [FlushArea(d, r) EXCEPT !.freeMap = {[q EXCEPT !.dirty = FALSE] : q \in @}]

(* flushFreeSpace: the dirty regions, in the order of their starts.  One   *)
(* past the end of the media, which an earlier one may just have cut,      *)
(* makes the flush fail; those before it have been flushed then.           *)
Dirty(d) == {r \in d.freeMap : r.dirty}
Unplaced(d) ==
  {r \in Dirty(d) :
     \/ r.start > d.size
     \/ /\ SupportsTruncation /\ "remembers" \notin setting
        /\ \E q \in Dirty(d) : q.start < r.start /\ q.end >= d.size}
Flushable(d) == Unplaced(d) = {}

FlushAreas(d, regions) ==
  [MapThenFoldSet(LAMBDA r, e : FlushArea(e, r), d, LAMBDA r : r, Last, regions)
     EXCEPT !.freeMap = {IF q \in regions THEN [q EXCEPT !.dirty = FALSE] ELSE q : q \in @}]
FlushFreeSpace(d) == FlushAreas(d, Dirty(d))
FlushUntilRefused(d) == FlushAreas(d, {r \in Dirty(d) : \A q \in Unplaced(d) : r.start < q.start})

------------------------------------------------------------------------------
(* Virtual files.                                                          *)

NewFile(id) == [id |-> id, start |-> 0, chunks |-> [o \in {} |-> 0], tail |-> <<>>]
Stored(f) == IF DOMAIN f.chunks = {} THEN 0 ELSE Max(DOMAIN f.chunks) + 1
Length(f) == Stored(f) + Len(f.tail)

(* writeStreamStartIfNeeded *)
StartFits(d, f) == f.start = 0 => Fits(d, 0, StartUnits, StartUnits, StartUnits)
StartSaved(d, n, f) ==
  IF f.start # 0 THEN d
  ELSE Saved(d, 0, StartUnits, StartUnits, Chunk("start", StartUnits, f.id, n, 0, NoPiece))
StartedFile(d, f) ==
  IF f.start # 0 THEN f
  ELSE [f EXCEPT !.start = Taken(d, 0, StartUnits, StartUnits).start]

(* Mutated form: the search starts at the front of the container. *)
LastKnownFileIndexZero(f) == IF f.start = 0 THEN 0 ELSE HeaderUnits

LastKnownFileIndex(f) ==
  IF DOMAIN f.chunks = {} THEN f.start ELSE f.chunks[Max(DOMAIN f.chunks)].at

(* The piece in the tail buffer goes to a chunk of its own. *)
TailFits(d, f, units) == f.tail # <<>> => Fits(d, LastKnownFileIndex(f), 1, MaxUnits, units)
TailSaved(d, f, units) ==
  IF f.tail = <<>> THEN d
  ELSE Saved(d, LastKnownFileIndex(f), 1, MaxUnits, Chunk("data", units, f.id, Nobody, Stored(f), Head(f.tail)))
TailStored(d, f, units) ==
  IF f.tail = <<>> THEN f
  ELSE LET a == Taken(d, LastKnownFileIndex(f), 1, MaxUnits)
       IN  [f EXCEPT !.chunks = Put(@, Stored(f), [at |-> a.start, units |-> units]), !.tail = <<>>]

FlushFits(d, n, units) ==
  LET f == files[n]
  IN  StartFits(d, f) /\ TailFits(StartSaved(d, n, f), StartedFile(d, f), units)
FlushedDisk(d, n, units) == TailSaved(StartSaved(d, n, files[n]), StartedFile(d, files[n]), units)
FlushedFile(d, n, units) == TailStored(StartSaved(d, n, files[n]), StartedFile(d, files[n]), units)

Ready == phase = "ready"
Has(n) == n \in DOMAIN files
Buffered == {n \in DOMAIN files : files[n].start = 0 \/ files[n].tail # <<>>}

(* A flush in this session has cut the media, and the free map still has   *)
(* what was cut off.  Most callers write no chunk until they open it again.*)
CutShort == \E r \in freeMap : r.end > length
MayWrite(n) == CutShort /\ n \in Buffered => "continues" \in setting

(* newStreamIdentifier: the lowest that no file of the session has had. *)
NewIdentifier == CHOOSE i \in 0 .. Cardinality(ids) : i \notin ids /\ \A j \in 0 .. i - 1 : j \in ids

NewVirtualFile(n) ==
  /\ Ready /\ ~Has(n) /\ NewIdentifier <= MaxIdentifier
  /\ files' = Put(files, n, NewFile(NewIdentifier))
  /\ ids' = ids \cup {NewIdentifier}
  /\ UNCHANGED <<setting, phase, media, length, size, freeMap, scan>>

(* The name exists: newVirtualFile returns null, and its caller registers  *)
(* the implementation of what it was given.                                *)
NewVirtualFileExists(n) ==
  /\ "recreates" \in setting /\ Ready /\ Has(n)
  /\ phase' = "failed"
  /\ UNCHANGED <<setting, media, length, size, freeMap, files, ids, scan>>

(* append: what the tail buffer holds goes out when more comes. *)
AppendTo(n, p, units) ==
  /\ Ready /\ Has(n) /\ MayWrite(n) /\ Length(files[n]) < MaxPieces
  /\ FlushFits(Disk, n, units)
  /\ SetDisk(FlushedDisk(Disk, n, units))
  /\ files' = Put(files, n, [FlushedFile(Disk, n, units) EXCEPT !.tail = <<p>>])
  /\ UNCHANGED <<setting, phase, ids, scan>>

Flush(n, units) ==
  /\ Ready /\ Has(n) /\ MayWrite(n) /\ FlushFits(Disk, n, units)
  /\ SetDisk(FlushedDisk(Disk, n, units))
  /\ files' = Put(files, n, FlushedFile(Disk, n, units))
  /\ UNCHANGED <<setting, phase, ids, scan>>

(* An append, flush, truncate or close that places a chunk past the end    *)
(* answers an error.  A session is not followed any further then.          *)
SaveRefused(n) ==
  LET started == StartSaved(Disk, n, files[n])
      f == StartedFile(Disk, files[n])
  IN  /\ Has(n) /\ n \in Buffered
      /\ phase = "closing" \/ (Ready /\ MayWrite(n))
      /\ \/ /\ f # files[n] /\ Refused(Disk, 0, StartUnits, StartUnits)
            /\ SetDisk(Disk)
         \/ /\ f.tail # <<>> /\ StartFits(Disk, files[n])
            /\ Refused(started, LastKnownFileIndex(f), 1, MaxUnits)
            /\ SetDisk(started)
      /\ phase' = "failed"
      /\ UNCHANGED <<setting, files, ids, scan>>

(* The chunk the position is in, saved again in place with fewer units. *)
Shrunk(d, c, units) ==
  LET m == CHOOSE x \in d.media : x.at = c.at
  IN  [d EXCEPT !.media = Written(@, [m EXCEPT !.units = units])]

(* The chunks of a file are where its map has them.  Where one is not, an  *)
(* erase does nothing and a truncate ends as VirtualFile has it.           *)
Loads(d, n, f) ==
  /\ f.start # 0 => \E m \in d.media : m.kind = "start" /\ m.at = f.start /\ m.id = f.id /\ m.name = n
  /\ \A o \in DOMAIN f.chunks :
       \E m \in d.media : m.kind = "data" /\ m.at = f.chunks[o].at /\ m.id = f.id /\ m.offset = o

(* truncate after the first k chunks, which a scan may have missed on a    *)
(* media that was cut: flush, shorten the last chunk kept, give up those   *)
(* behind it.                                                              *)
Shorten(d, n, f, k, left) ==
  LET given == {f.chunks[o] : o \in {o \in DOMAIN f.chunks : o >= k}}
      cut == k > 0 /\ left < f.chunks[k - 1].units
      rest == [at |-> f.chunks[k - 1].at + left, units |-> f.chunks[k - 1].units - left]
      kept == [o \in 0 .. k - 1 |->
                 IF o = k - 1 /\ cut THEN [f.chunks[o] EXCEPT !.units = left] ELSE f.chunks[o]]
  IN  /\ Loads(d, n, f) /\ 0 .. k - 1 \subseteq DOMAIN f.chunks
      /\ cut => f.chunks[k - 1].at + f.chunks[k - 1].units <= d.length
      /\ SetDisk(IF cut THEN Freed(Shrunk(d, f.chunks[k - 1], left), {rest} \cup given) ELSE Freed(d, given))
      /\ files' = Put(files, n, [f EXCEPT !.chunks = kept])

Truncate(n, k, units, left) ==
  /\ Ready /\ Has(n) /\ MayWrite(n) /\ k <= Length(files[n]) /\ Length(files[n]) > 0
  /\ FlushFits(Disk, n, units)
  /\ \E d \in {FlushedDisk(Disk, n, units)}, f \in {FlushedFile(Disk, n, units)} : Shorten(d, n, f, k, left)
  /\ UNCHANGED <<setting, phase, ids, scan>>

ChunksOf(f) ==
  {f.chunks[o] : o \in DOMAIN f.chunks}
  \cup (IF f.start = 0 THEN {} ELSE {[at |-> f.start, units |-> StartUnits]})

(* Mutated form: the areas are given up, but not flushed. *)
EraseUnflushed(n) ==
  /\ Ready /\ Has(n)
  /\ freeMap' = {[r EXCEPT !.dirty = FALSE] : r \in Freed(Disk, ChunksOf(files[n])).freeMap}
  /\ files' = Except(files, n)
  /\ UNCHANGED <<setting, phase, media, length, size, ids, scan>>

(* erase: every chunk is given up and the free space flushed at once; the  *)
(* identifier stays known until the container is opened again.             *)
Erase(n) ==
  /\ Ready /\ Has(n) /\ Loads(Disk, n, files[n])
  /\ Flushable(Freed(Disk, ChunksOf(files[n])))
  /\ SetDisk(FlushFreeSpace(Freed(Disk, ChunksOf(files[n]))))
  /\ files' = Except(files, n)
  /\ UNCHANGED <<setting, phase, ids, scan>>

EraseRefused(n) ==
  /\ Ready /\ Has(n) /\ Loads(Disk, n, files[n])
  /\ ~Flushable(Freed(Disk, ChunksOf(files[n])))
  /\ SetDisk(FlushUntilRefused(Freed(Disk, ChunksOf(files[n]))))
  /\ phase' = "failed"
  /\ UNCHANGED <<setting, files, ids, scan>>

(* Mutated form: the start chunk keeps the old name. *)
RenameInMemory(n, m) ==
  /\ Ready /\ Has(n) /\ ~Has(m)
  /\ files' = Put(Except(files, n), m, files[n])
  /\ UNCHANGED <<setting, phase, media, length, size, freeMap, ids, scan>>

(* rename: the start chunk is saved again in place, then the maps; past    *)
(* the end of the media nothing is done.  The new name is one that no file *)
(* has; nothing in the code sees to that.                                  *)
Rename(n, m) ==
  LET f == files[n]
  IN  /\ Ready /\ Has(n) /\ ~Has(m) /\ f.start <= size
      /\ media' = IF f.start = 0 THEN media
                  ELSE Written(media, At(Chunk("start", StartUnits, f.id, m, 0, NoPiece), f.start))
      /\ files' = Put(Except(files, n), m, f)
      /\ UNCHANGED <<setting, phase, length, size, freeMap, ids, scan>>

------------------------------------------------------------------------------
(* close: the free space is flushed, then the files, one after the other.  *)
MayClose == Ready /\ ("buffers" \in setting \/ Buffered = {})

CloseRefused ==
  /\ MayClose /\ ~Flushable(Disk)
  /\ SetDisk(FlushUntilRefused(Disk))
  /\ phase' = "failed"
  /\ UNCHANGED <<setting, files, ids, scan>>

CloseBegin ==
  /\ MayClose /\ Flushable(Disk)
  /\ SetDisk(FlushFreeSpace(Disk))
  /\ phase' = "closing"
  /\ UNCHANGED <<setting, files, ids, scan>>

CloseFile(n, units) ==
  /\ phase = "closing" /\ n \in Buffered
  /\ FlushFits(Disk, n, units)
  /\ SetDisk(FlushedDisk(Disk, n, units))
  /\ files' = Put(files, n, FlushedFile(Disk, n, units))
  /\ UNCHANGED <<setting, phase, ids, scan>>

CloseEnd ==
  /\ phase = "closing" /\ Buffered = {}
  /\ phase' = "closed"
  /\ freeMap' = {} /\ files' = [n \in {} |-> 0] /\ ids' = {}
  /\ UNCHANGED <<setting, media, length, size, scan>>

(* open: a header for an empty container, and a scan still to come for one *)
(* that is not (the test for a header alone compares bytes with units).    *)
Open ==
  /\ phase = "closed"
  /\ length' = Higher(length, HeaderUnits) /\ size' = length'
  /\ phase' = IF length = 0 THEN "ready" ELSE "opened"
  /\ freeMap' = {} /\ files' = [n \in {} |-> 0] /\ ids' = {}
  /\ scan' = HeaderUnits
  /\ UNCHANGED <<setting, media>>

------------------------------------------------------------------------------
(* traverseContainer, a chunk per step.                                    *)
ScanBegin ==
  /\ phase = "opened"
  /\ phase' = "scanning"
  /\ UNCHANGED <<setting, media, length, size, freeMap, files, ids, scan>>

Scanning(m) ==
  /\ phase = "scanning" /\ scan < size
  /\ m \in media /\ m.at = scan
  /\ scan' = scan + m.units
  /\ UNCHANGED <<setting, phase, media, length, size>>

ScanFill(m) ==
  /\ Scanning(m) /\ m.kind = "fill"
  /\ freeMap' = NewFreeSpaceArea(freeMap, m.at, m.units, FALSE)
  /\ UNCHANGED <<setting, files, ids>>

(* Mutated form: the guessed identifier stays in the map, not the real one. *)
ScanStartGuessed(m) ==
  /\ Scanning(m) /\ m.kind = "start" /\ ~Has(m.name)
  /\ files' = Put(files, m.name, [NewFile(m.id) EXCEPT !.start = m.at])
  /\ ids' = ids \cup {NewIdentifier}
  /\ UNCHANGED <<setting, freeMap>>

(* A file of that name is made; the identifier it was given is replaced.   *)
ScanStart(m) ==
  /\ Scanning(m) /\ m.kind = "start" /\ ~Has(m.name)
  /\ files' = Put(files, m.name, [NewFile(m.id) EXCEPT !.start = m.at])
  /\ ids' = ids \cup {m.id}
  /\ UNCHANGED <<setting, freeMap>>

Owner(m) == {n \in DOMAIN files : files[n].id = m.id}

ScanData(m) ==
  /\ Scanning(m) /\ m.kind = "data"
  /\ \E n \in Owner(m) :
       files' = [files EXCEPT ![n].chunks = Put(@, m.offset, [at |-> m.at, units |-> m.units])]
  /\ UNCHANGED <<setting, freeMap, ids>>

Parses(m) ==
  /\ m.at = scan /\ m.kind # "torn"
  /\ m.kind = "start" => ~Has(m.name)
  /\ m.kind = "data" => Owner(m) # {}

(* No header where one should be, a name twice, data that is nobody's.     *)
ScanFails ==
  /\ phase = "scanning" /\ scan < size
  /\ ~\E m \in media : Parses(m)
  /\ phase' = "failed"
  /\ UNCHANGED <<setting, media, length, size, freeMap, files, ids, scan>>

ScanEnd ==
  /\ phase = "scanning" /\ scan >= size
  /\ phase' = "ready" /\ scan' = HeaderUnits
  /\ UNCHANGED <<setting, media, length, size, freeMap, files, ids>>

(* The size of the chunk that takes the tail of a file, if it has one. *)
TailUnits(n) == IF Has(n) /\ files[n].tail # <<>> THEN ChunkUnits ELSE {1}

(* What may be left of the last chunk that a truncate keeps. *)
LeftUnits(n, k, u) ==
  IF k = 0 THEN {1}
  ELSE {c \in ChunkUnits : c <= IF Has(n) /\ k - 1 \in DOMAIN files[n].chunks THEN files[n].chunks[k - 1].units ELSE u}

ScanStep == (\E m \in media : ScanFill(m) \/ ScanStart(m) \/ ScanData(m)) \/ ScanFails \/ ScanEnd
CloseStep == CloseEnd \/ \E n \in Names : \E u \in TailUnits(n) : CloseFile(n, u)

Next ==
  \/ Open \/ ScanBegin \/ ScanStep \/ CloseBegin \/ CloseRefused \/ CloseStep
  \/ \E n \in Names :
       \/ NewVirtualFile(n) \/ NewVirtualFileExists(n) \/ Erase(n) \/ EraseRefused(n) \/ SaveRefused(n)
       \/ \E m \in Names : Rename(n, m)
       \/ \E u \in TailUnits(n) : Flush(n, u) \/ \E p \in Pieces : AppendTo(n, p, u)
       \/ \E k \in 0 .. MaxPieces, u \in TailUnits(n) : \E left \in LeftUnits(n, k, u) : Truncate(n, k, u, left)

Spec == Init /\ [][Next]_containerVars

------------------------------------------------------------------------------
(* What the media alone says: the chunks a scan gets to, from the header   *)
(* on, and the directory they make.                                        *)
Reached ==
  LET f[p \in HeaderUnits .. length] ==
        {m \in media : m.at = p} \cup
        UNION {f[m.at + m.units] : m \in {m \in media : m.at = p /\ m.at + m.units <= length}}
  IN  IF length < HeaderUnits THEN {} ELSE f[HeaderUnits]

MediaStarts == {m \in Reached : m.kind = "start"}
MediaFile(n) ==
  LET s == CHOOSE m \in MediaStarts : m.name = n
      ds == {m \in Reached : m.kind = "data" /\ m.id = s.id}
  IN  [i \in 1 .. Cardinality(ds) |->
         IF \E m \in ds : m.offset = i - 1 THEN (CHOOSE m \in ds : m.offset = i - 1).data ELSE NoPiece]
MediaArchive == [n \in {m.name : m \in MediaStarts} |-> MediaFile(n)]

(* What a reader of the virtual file gets from where its map points. *)
PieceAt(f, o) ==
  LET ms == {m \in media : m.at = f.chunks[o].at /\ m.kind = "data" /\ m.id = f.id /\ m.offset = o}
  IN  IF ms = {} THEN NoPiece ELSE (CHOOSE m \in ms : TRUE).data
StoredPieces(f) == [i \in 1 .. Stored(f) |-> IF i - 1 \in DOMAIN f.chunks THEN PieceAt(f, i - 1) ELSE NoPiece]
FilesArchive == [n \in DOMAIN files |-> StoredPieces(files[n]) \o files[n].tail]

InUse == phase \in {"ready", "closing"}

(* Whatever is created, written, cut, erased or renamed, whichever holes   *)
(* it lands in and how often the container is closed and opened again, the *)
(* directory is that of an Archive: no file is lost, mixed with another or *)
(* brought back.  (The other callers are promised nothing.)                *)
Abstract == INSTANCE Archive WITH
  archive <- IF ~Orderly THEN [n \in {} |-> <<>>] ELSE IF InUse THEN FilesArchive ELSE MediaArchive
IsArchive == Abstract!ArchiveSpec

(* While no region waits to be flushed, the media alone holds the stored   *)
(* part of every file: the process may end there without a close.          *)
CleanMediaParses ==
  Orderly /\ phase = "ready" /\ (\A r \in freeMap : ~r.dirty) =>
    MediaArchive = [n \in {n \in DOMAIN files : files[n].start # 0} |-> StoredPieces(files[n])]

(* A single pass over the media meets the start chunk of a file before its *)
(* data, and its data in order (README.rst: files are read in one pass).   *)
InOrder(f) ==
  \A o \in DOMAIN f.chunks :
    /\ f.start # 0 /\ f.start < f.chunks[o].at
    /\ \A q \in DOMAIN f.chunks : q < o => f.chunks[q].at < f.chunks[o].at
StreamOrder == "continues" \notin setting => \A n \in DOMAIN files : InOrder(files[n])

(* The chunks of the files and the free regions lie apart and leave no     *)
(* hole: no unit is used twice, and none is lost.  (Callers who write on   *)
(* after a cut get chunks over the regions it left in the map.)            *)
Extents ==
  (UNION {{<<n, c.at, c.at + c.units>> : c \in ChunksOf(files[n])} : n \in DOMAIN files})
  \cup {<<Nobody, r.start, r.end>> : r \in freeMap}
EveryUnitOnce ==
  phase = "ready" /\ "continues" \notin setting =>
    \A u \in HeaderUnits .. size - 1 :
      Cardinality({x \in Extents : x[2] <= u /\ u < x[3]}) = 1

(* No two files of the directory share a stream identifier.                *)
IdentifiersDiffer ==
  \A n, m \in DOMAIN files : files[n].id = files[m].id => n = m

(* close() leaves a media that the next scan can read: in every case, as   *)
(* container_impl.h has it, and after the files have been flushed.         *)
CloseKeepsMediaReadable == ~(phase = "scanning" /\ scan < size /\ ~\E m \in media : Parses(m))
ScanSucceeds == Orderly => CloseKeepsMediaReadable
==============================================================================
