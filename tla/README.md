# A TLA+ model of inecontainer

inecontainer keeps any number of *virtual files* in one *container*: a file or
a memory buffer that can be written in any order and is laid out so that a
single pass over it, front to back, can present the data of every virtual file
in order. This directory holds TLA+ modules translated from
`src/inecontainer/`, the TLC configurations that check them on small instances,
and TLAPS proofs, for every instance, about the allocator, the ring buffer, the
back ends, the virtual file, the container, and its users, a reader and the tool.

`PROJECT.json` maps every definition to the lines it models and lists runs,
mutated forms, findings, hazards and theorems.

## 1. The system

### The format

A container is a file header chunk followed by chunks, each a power of two from
32 to 4096 bytes, aligned to 32 bytes. A `FileIndex` counts those 32 byte units.
A chunk is a *fill chunk* (free space), a *stream start chunk* (name and
identifier of a virtual file) or a *stream data chunk* (identifier, offset and
payload). A scan finds a chunk only by the size of the one before it: every unit
must belong to exactly one chunk, and space that nobody uses must be covered by
fill chunks, or the rest of the container is unreadable.

### Components

| component (source) | state | operations | modelled in |
|---|---|---|---|
| `ChunkHeader` | type, size code, invalid byte count | `setBestFitSize`, `setNumberValidBytes`, `setAllBytesValid`, sizes | `ChunkHeader` |
| `Chunk`, `StreamDataChunk`, `FillChunk`, `ScatterGatherListSegment` | header, list of segments with processed counts | `addScatterGatherListSegment`, `save`, `load` | `DataChunk` |
| `FreeSpaceTracker`, `FreeSpace`, `FreeSpaceData`, `ContainerArea` | ordered map of free and reserved regions with a dirty flag; number of reservations | `newFreeSpaceArea`, `reserveFreeSpaceArea`, `releaseReservation`, `flushFreeSpace`, `clearFreeSpace` | `FreeMap`, `FreeMapWalk`, `FreeSpaceTracker` |
| `VirtualFileImpl`, `ChunkMapData` | position, chunk map, one loaded chunk with a dirty flag, tail buffer, start chunk index | `read`, `write`, `append`, `flush`, `truncate`, `setPosition`, `erase`, `rename` | `VirtualFile` (bytes of one file), `Container` (chunks of several) |
| `RingBuffer` (the tail buffer) | array, two indices, count | `insert`, `extract`, `snoop`, bulk operations in two segments, `clear` | `RingBuffer` |
| `ContainerImpl`, `StreamStartChunk` | directory by name and by identifier, `fileMapsPopulated`, `lastReportedStatus` | `open`, `close`, `directory`, `streamRead`, `traverseContainer`, `newVirtualFile`, `flushArea` | `Container` (place and space), `Opening` (what a scan makes of the media) |
| `FileContainer::Private`, `MemoryContainer::Private` | file handle or byte vector, position, remembered size | `open`, `close`, `read`, `write`, `setPosition`, `truncate`, `flush` | `FileMedia`, `MemoryMedia`, composed in `BackEnd` |
| `FileHeaderChunk` | none | written to empty media, checked at open | `Opening` |
| `Status` classes | class, code, count | tests as a bool, `success`, `failure` | `Status` |
| public wrappers | none | forwarding | `Opening`, `BackEnd`, `Container` |
| `ic` (src/ic/ic.cpp) | arguments, exit status, a copy of the directory | the switches, one after the other | `Ic` |

### How they interact

All calls run in the caller's thread; there are no locks, queues or threads. The
hard part is that an operation is a long chain of calls over *shared* state:

* `VirtualFileImpl::append` asks the tracker for a region *after the file's last
  chunk*, builds a chunk from the tail (ring) buffer and the caller's bytes,
  saves it, shrinks the reservation by what the chunk took, and releases the rest.
* `erase` and `truncate` return regions to the tracker; the tracker joins them
  with their neighbours and marks them dirty. `flushFreeSpace` later calls back
  into `ContainerImpl::flushArea`, which writes fill chunks or truncates.
* `ContainerImpl` scans the media with `traverseContainer`, which calls back out
  through the public `newVirtualFile` (a user may override `createFile`), lets
  the file take an identifier, and then corrects it.
* The back end is reached by virtual calls through `Container::Private`.
* `ic` is a user of all that: it opens, takes the directory, and reads, writes and
  erases files until a switch fails; then it closes.
* A call answers a `Status`. "Something to say" (the conversion to bool), "a
  success" and "a failure" are three tests, and which one a caller makes decides
  what it takes a short read for.

### What is hard here

Order: start chunk before data, data in rising position, fill chunks after
everything that still needs space. Staleness: one loaded chunk per file that may
be newer than the media; free regions that may be newer than the media; a size
remembered beside the file. Partial failure: a save that fails between reserve
and release, a load that fails after the old chunk was dropped. Boundaries: a
request inside a region, a full tail buffer, a truncation at a chunk's edge. A
stop and a rescan at any point where nothing is owed. `PROJECT.json` has these as
hazards at their lines, each with the properties that catch it, or a note.

## 2. Modules

    ChunkHeader <- DataChunk <- MCDataChunk
    FreeMap <- FreeMapWalk <- FreeMapAgreement <- FreeSpaceTracker <- MCFreeSpaceTracker
            <- Container <- MCContainer          (refines Archive)
    VirtualFile                                  (refines ByteFile)
    RingBuffer                                   (refines Fifo)
    Status <- FileMedia, MemoryMedia <- BackEnd  (refines Media)
           <- Opening <- Ic <- MCSession

Proofs, each over the module it is named for:

    DataLemmas <- FreeMapLemmas <- FreeSpaceTrackerProofs
                                <- ContainerProofs
               <- VirtualFileProofs
               <- BackEndProofs
               <- SessionProofs              (Opening and Ic)
    RingBufferProofs

**Abstract specifications.** `Fifo`: a bounded queue. `ByteFile`: a sequence of
bytes with a position. `Media`: a row of bytes and a position that never leaves
it. `Archive`: a directory from names to contents. Each detailed module has its
refinement mapping at its end and the abstract specification as a property.

**FreeMap** holds the tracker's map as a *set* of regions `[start, end,
reserved, dirty]` and one operator for each method: `NewFreeSpaceArea` (join with
the available regions that touch), `Reserved`/`Allocation` (first usable region
cut in up to three, or new space at the end), `Released`. **FreeMapWalk** has the
same three methods the way the code has them, walking iterators over a map
ordered by key, with what its assertions would find. In a map whose entries do not
overlap both are the same: **FreeMapAgreement** states it for any map, and the
invariant `WalksAgree` for every map that a tracker reaches and every call that
could be made (proved, section 4). Where error paths have left entries that overlap, the forms of
`FreeMap` do not apply, and `FreeSpaceTracker` takes the walk; a call that runs
into an assertion of the code ends the program there.

**FreeSpaceTracker** puts the map beside what it is about: the length of the
media, the units of live chunks, the fill chunks on the media. `held` is the
reservation of the one caller that may hold one. `flush` is the loop of
`flushFreeSpace` with the loop of `flushArea` inside it, a chunk per step; `scan`
is the position of `traverseContainer`. `Abandon` is an error path that returns
without releasing, after a part of the chunk may have been written; `FlushFails` is
the same for a fill chunk, whose header comes first, so that the media may show a
fill chunk of which only a part was written (`FillTorn`). `media`, chosen once, is
the kind of the media: whether it can be truncated, and whether writes to it may fail.

**VirtualFile** is one file: `chunkMap` (offset to payload size), `stored` (what
the media holds of each chunk), the loaded chunk, the tail. `call` is the call in
progress, and each iteration of the loops of `read`, `write`, `append`, `flush`
and `truncate` is a step: those loops decide between the buffer and the media
anew each time round. A byte is the offset it was written to and a version, so
that a byte in the wrong place shows. The variable `faults` is chosen once in the
initial state: a behaviour has media that works, media that may refuse to save,
or media that may fail to load together with a caller that truncates empty files. A
truncation wipes the chunks it drops one by one and loads each first; a load that
fails there leaves a map with a hole (`TruncateHalfDone`), and the file, "lost" then,
is not followed any further.

**Container** is several files, the tracker's map and the media as the set of
chunk headers on it. Writing a chunk destroys headers under it and nothing else,
so the leftovers of old chunks stay there for a scan to run into. A media that is
cut ends where it is cut, in the middle of a chunk if need be, and a start chunk
that ends there cannot be loaded. `length` is what the media has and `size` what its
`size()` says, which for a container file stays what it was. The region of a cut end
stays in the map as it does in the code; where such regions overlap what is reserved
later, the walk of `FreeMapWalk` decides (without its assertions, as in a release
build). A chunk that would be put past the end, and a flush of a region there, is
refused by `setPosition`: the call answers an error, what it did before stays done
(`SaveRefused`, `EraseRefused`, `CloseRefused`), and the session is not followed
further ("failed"). Operations act at once; the scan and `close` go step by step.

`setting`, chosen once, is the kind of media (can it be cut, "truncates"; does
`size()` remember what it was, "remembers") and the habits of the callers: they close
with unflushed bytes, "buffers"; they make a file that exists, "recreates"; they write
chunks in a session in which a flush has cut the media, "continues". Callers without
that last habit may cut the media, in any way and as often as they like, but open the
container again before they bring another chunk to it.

**RingBuffer**: a bulk operation is one step, as its start, the caller's use of
the segments and its finish are called without anything in between.

**Status** has every status class that the models answer, and the three tests.

**Opening** is a container object and media it did not write. The media is a row
of chunks behind a header that may be absent, cut off, foreign, of another version
or damaged; the last chunk may be torn in its common header, its own header or its
payload, and a chunk of zeros stands for a gap. `open`, `directory`,
`newVirtualFile` and `streamRead` are functions of the object and the media, since
one thread makes the calls: `Traverse` folds `ScanChunk` over the row and stops at
the first status with something to say. The state machine is a program that makes
these calls in any order, with files that take streamed data or leave
`receivedData` as it is. `Container` has what this leaves out, the place of the
chunks and the free space.

**Ic** is `main` of the tool, a step for each switch, each file of an export and
each block of an import, over the container of `Opening` and a file system in
which a file may be missing, locked or a folder. `moved` is the only thing it
needs to know of a file's position: whether it is still at the start. An import stays
in the file's tail until the tool closes; a longer one sends chunks out before, and
what these leave of a hole the flush at `close` still covers. That case is left out:
it differs in how much of a hole is lost. `close` covers the free space and then
flushes the files. Where there is no free space the late chunks go behind the row
(`Close`). Otherwise each goes to the front of a hole behind what its file has, a
start chunk to any that may be long enough, or to the end (`CloseInHoles`), and what
it does not take of the hole is left uncovered: `Zeros` stands for bytes that are no
header. The control state is "scattered" then. The ends
that are no exit (a null pointer made into a string, `fclose` of a null pointer)
are the control state "crashed". **MCSession** has both users, a reader or the
tool, one for a behaviour.

**BackEnd** takes, for a whole behaviour, the file back end over standard I/O or
the memory back end. Any call of standard I/O may fail, and a read or a write
may have done a part (`CallsFail`). `Shrinks` is FALSE: after a truncation the
remembered size is wrong (finding 4), and nothing that follows is a `Media`. Seeks
past the end, short writes and the zeros of a gap are those of standard I/O as the
class uses it, which is outside this repository. An `open` whose seeks fail answers an
error and leaves the file open with the size of before ("unsized"); a `freopen` that
fails in `truncate` has freed the handle that the object keeps ("dangling"), and what
it does then is undefined, so that no call follows in the model.

**ChunkHeader, DataChunk** keep the real numbers: codes of the size field, the
count of invalid bytes at the end of a chunk, 4 and 14 byte headers.

### Abstractions

CRC and byte layout: a chunk is whole or absent. Payloads: bytes with an offset
and a version in `VirtualFile`, opaque pieces in `Container`. Names: members of a
set. Statuses: class, code and count, not the text. `Container` takes a piece as what
one data chunk holds; the bytes are `VirtualFile`'s. `Opening` has no free map:
a container that is scanned twice frees its fill chunks twice, which a build with
assertions stops at (free_space_tracker.cpp:95), and a release build does not notice.

## 3. Runs

| run | instance | shows |
|---|---|---|
| `data_chunk` | all eight real sizes, payload lengths around every size boundary, up to three segments | a reader of the header finds exactly the bytes the writer counted (`ReaderAgrees`), in the smallest chunk that holds them (`RightSized`); a fill chunk covers more than half of the rest (`FillCoversHalf`) |
| `tracker` | chunks of one and two units, start chunk of two, media of eight, no truncation | no unit given out twice (`Disjoint`, `FreeIsUnused`), none lost (`NoLeak`), holes stay whole (`Coalesced`), reservations are where the caller asked (`ReservationServes`), clean regions really are fill chunks (`CleanIsShown`), none stays reserved; a scan ends; the iterator code computes what `FreeMap` states (`WalksAgree`) |
| `tracker_faults` | chunks of one, two and four units on media of five; media that works, writes that fail at any unit, or truncating media | with abandoned reservations and half written chunks in the map, over which the code's own walk decides, what is on offer is nobody's (`OfferedIsUnused`); a flush ends, with an area that is covered, cut, refused or torn at any unit (`FlushEnds`) |
| `ring_buffer` | four cells, two values | the two segments partition the array at every wrap; a queue (`IsQueue`) |
| `virtual_file` | files of four bytes, chunks of one or two, a tail of three, two versions | see below |
| `container` | two interchangeable names, one kind of piece and up to two of them in a file, media of seven units, chunks of one and two, a start chunk of two; five settings: media that cannot be cut, the same with callers who buffer and recreate, media that can, with a size that follows and with one that does not, and media that can with callers who write on after a cut | see below |
| `back_end` | two byte values, four bytes, calls that fail or do a part | both back ends are the media the container asks for (`IsMedia`) |
| `session` | rows of up to four chunks (torn ones up to three), two names, three calls; command lines of up to two switches and eight misuses, eight file systems | see below |
| `cut_reused`, `tracker_abandoned`, `close_buffered`, `file_gap` | | violations, section 5 |

`virtual_file`: chunks tile the file (`ChunksTile`); the loaded chunk is the
media's unless dirty (`CacheCoherent`); no loop shifts data, even when saves
fail (`BytesInPlace`); after a flush the media alone has the file
(`FlushPersists`); every call returns (`CallsReturn`); and the whole is a
`ByteFile`.

`container`: when no fill chunk is owed, a scan of the media alone gives the
directory (`CleanMediaParses`: a process may stop there); a single pass meets
everything in order (`StreamOrder`); every unit is in one chunk or region
(`EveryUnitOnce`); identifiers differ (`IdentifiersDiffer`); a scan after a
proper close succeeds (`ScanSucceeds`); and across all of that the container is
an `Archive`. `StreamOrder`, `EveryUnitOnce` and `IdentifiersDiffer` hold for
callers who buffer and recreate too. For callers who write on in a session that has
cut the media only `IdentifiersDiffer` is claimed: finding 1 is what becomes of the
rest, and the other properties name the habits that they are not about. On media that
can be cut this is a promise to a narrow kind of caller, as both back ends cut.

`session`, the reader: a streamed read that has nothing to say gave every file on
the media all its data in order and ended each (`StreamDelivers`); a directory
that came without a complaint is complete, whichever call made the scan
(`DirectoryWhole`); a file made before the first scan gets an identifier no chunk
has (`NewIdentifierFree`). The tool: it executes no switch unless it knows every
file (`ToolSeesAll`). Where `close` puts no chunk into free space: when it exits with
0, the container and the disk are what the help text promises of each switch in turn
(`ExitZeroMeansDone`), and what fails, crashes or is refused leaves other files alone
(`OthersUntouched`). Where `close` does, the same is true of the chunks, which are all
on the media and in stream order (`LateChunksInOrder`), but not of what a reader
finds: a scan may stop at the first hole that is covered in part (finding 3). And the
tool ends (`ToolExits`), except when it imports a folder.

**Why the bounds are enough.** A join has at most two neighbours and a cut at
most three parts: eight units have room for a hole on both sides of a live chunk
and a hole larger than a chunk. A file of four bytes in chunks of one or two has
up to four chunks, and every loop can pass through the buffered chunk, past it
and into the tail. The tail is larger than any chunk, as 4096 is above 4082.
Seven units are a header and six: two start chunks with a piece each, or one with a
piece and three units of holes. A start chunk of two is longer than the shortest
chunk, as the four units of the code are longer than one: it can be too long for a
hole, or overlap the rest of a region. A hole of two is what a fill chunk of two
covers and a chunk of one leaves the rest of. Two of the violation runs have nine
units, which they need for a history that goes wrong.
Four chunks are two files with a piece each, interleaved or not, or one file and
what may stand between its parts; two switches are enough for one to work on what
the other left. Torn media have up to three chunks because what is behind the
torn chunk does not exist. The media of the tool are an empty container, one
file, and two in an order that is not that of their names, whole, torn, or with a
gap; the tool's torn payloads are left out, as it reads them through `VirtualFile`.
`MaxSize`, `MaxFile`, `MaxCount`, `MaxFaulty`, `MaxPieces`, `MaxIdentifier`,
`MaxCalls` and `MaxLength` are bounds of the models, not of the code.
The instance of `tracker_faults` has chunks of four units, of which a save can write
one, two or three, so that what is left behind overlaps one later chunk or several.

**Deadlock** is not checked where the bounds stop the system (trackers,
container), where the program ends (session), where a behaviour is not followed past
an error (virtual file, back end), or where the module is a function over its inputs
(data chunk).

**Fairness.** Weak fairness of `FlushStep` and `ScanStep` in `FreeSpaceTracker`
of `Step` in `VirtualFile`, and of the tool's steps in `MCSession`: the loops run
to their end in the one thread there is, as long as it is scheduled. Nothing is
assumed of a caller of the library, who need not make any call.

Every property of a passing run has a *mutated form* of a mapped definition (its
comment says "Mutated form") with which TLC finds it violated.

## 4. Proofs

| theorem | module | property |
|---|---|---|
| `TypeCorrect` | `FreeSpaceTrackerProofs` | `TypeOK` |
| `RegionsDisjoint` | | `Disjoint` |
| `LiveChunksAreSafe` | | `FreeIsUnused` |
| `RegionsCoalesced` | | `Coalesced` |
| `NothingLeaks` | | `NoLeak` |
| `ReservationsServe` | | `ReservationServes` |
| `ReservationsReleased` | | `EveryReservationReleased` |
| `CleanRegionsShown` | | `CleanIsShown` |
| `WalksAlwaysAgree` | | `WalksAgree` |
| `OffersUnused` | | `OfferedIsUnused` |
| `CountCorrect` | `RingBufferProofs` | `CountIsDistance` |
| `SegmentsCorrect` | | `SegmentsPartition` |
| `ImplementsQueue` | | `IsQueue` (refines `Fifo`) |
| `BackEndIsMedia` | `BackEndProofs` | `IsMedia` (refines `Media`) |
| `FileTyped` | `VirtualFileProofs` | `TypeOK` |
| `ChunksAlwaysTile` | | `ChunksTile` |
| `CacheAlwaysCoherent` | | `CacheCoherent` |
| `BytesAlwaysInPlace` | | `BytesInPlace` |
| `FlushAlwaysPersists` | | `FlushPersists` (an action property) |
| `VirtualFileIsByteFile` | | `IsByteFile` (refines `ByteFile`) |
| `ContainerInvariant` | `ContainerProofs` | the inductive invariant `ContainerInv` |
| `StreamsAlwaysOrdered` | | `StreamOrder` |
| `IdentifiersAlwaysDiffer` | | `IdentifiersDiffer` |
| `EveryUnitAlwaysOnce` | | `EveryUnitOnce` |
| `ScansAlwaysSucceed` | | `ScanSucceeds` |
| `CleanMediaAlwaysParses` | | `CleanMediaParses` |
| `ContainerIsArchive` | | `IsArchive` (refines `Archive`) |
| `StreamsDelivered` | `SessionProofs` | `StreamDelivers` |
| `DirectoriesWhole` | | `DirectoryWhole` |
| `NewIdentifiersFree` | | `NewIdentifierFree` |
| `ToolSees` | | `ToolSeesAll` |
| `OthersStay` | | `OthersUntouched` |
| `ZeroMeansDone` | | `ExitZeroMeansDone` |

Each holds for every value of the constants that the assumptions below leave; the
runs check the same formulas on their instances.

### The tracker

**Assumptions.** `TrackerAssumption` (sizes are positive, one of them is one unit,
there is a largest, the start chunk has one of them) and `MediaKinds = {Working}`:
media that is not truncated and writes that succeed. Both matter. Both back ends of
the repository *do* support truncation, and there `Disjoint` fails (finding 1); after
a failed save `FreeIsUnused` fails (finding 2). The theorems are about containers
over a back end whose `supportsTruncation()` is false, a choice the interface leaves
to its users, and that has not failed. The exception is `OffersUnused`, which has
`TrackerAssumption` only: media of any kind, and `OfferedIsUnused` speaks of those
that are not truncated, whether writes to them fail or not.

**The argument.** None of the properties is inductive alone. A join keeps the
regions apart only if the freed units were in no region (`FreeIsUnused`); that
survives a commit only if the reservation is one reserved entry that no one else
may touch (`HeldInv`); a flush writes only over its own area if the entry it was
taken from still lies there (`FlushInv`); and a rescan, which empties the map,
gives back what it had only if clean regions are covered by fill chunks
(`MediaInv`). `TrackerInv` is their conjunction with `TypeOK` and `NoLeak`.
`FreeMapLemmas` has what each map operation does to an arbitrary well-formed map
(what a join, a cut and a release cover, keep apart and leave merged), so that
`FreeSpaceTrackerProofs` has one lemma per action, and one step per conjunct
under it that the action can disturb.

`CleanIsShown` says more of a clean region than `MediaInv`: fill chunks that lie
inside it cover it. `ShownInv` is inductive over `TrackerInv` because it also says
of a region that is being flushed, clean in the map and not yet covered, how far the
chunks behind the flush have come. A join makes its region dirty outside a scan, and
in a scan what it joins is covered already; a chunk that is saved destroys no fill
chunk inside another region, as the regions are apart.

`WalksAgree` compares two computations on one map, so that it needs of the
invariant only that the map is well formed and coalesced, and where its entries may
lie. The loop of `newFreeSpaceArea` is a fold over the entries in the order of the
keys. `WalkInduction` turns it into an induction over the sets of entries that were
passed, and `AgreeStep` carries through it that the new region is still growing
(`OpenAt`) or has been put in before a reserved entry (`ClosedAt`). The search of
`reserveFreeSpaceArea` finds exactly the usable regions (`ServingIsUsable`), and the
two merges of `releaseReservation` are one join (`MergePreviousIs`, `MergeNextIs`).
This is what allows the other modules to use the simple forms.

**Where writes fail** none of this holds: reservations are left behind, the next one
may be handed out over them, entries overlap, and it is the walk that decides.
`OffersUnused` has an invariant of its own, `FaultInv`, for this. It says that
*available* entries stay apart and keys unique (`Own`), that no unit on offer is
live or past the end (`OfferInv`), that each reserved entry, left behind or held,
begins at a unit that is neither live nor on offer (`TakenInv`), and that no other
reserved entry begins inside the area that is held (`AreaInv`). Without the last two
an allocation could meet a key that is there already, where `std::map::insert` does
nothing, and the area that was handed out would be in no entry. Every lemma about an operation
comes in this weaker form, too (`WalkNewFreeOwn`, `ReserveOwn`, `ReleaseOwn`): what
it puts on offer was so before or lies in the area that was freed (`Grown`).

### The ring buffer

`RingAssumption` only: at least one cell, and `T()` is an entry. `CountIsDistance`,
which holds the types, is inductive; the partition follows from it, because going
round the array from the extraction index meets each cell once (`AdvanceInjective`,
`AdvanceOnto`). The refinement takes a step with the invariant on both its ends and
shows what it does to the sequence `Content`: `ContentPut` for what is written
behind the entries, `ContentGet` for what is taken in front of them.

### The back ends

**Assumption.** `Shrinks = FALSE`, as in the run: after a truncation the size that
`FileContainer` remembers is wrong (finding 4). Standard I/O may fail at any byte.

**The argument.** `BackEndInv` has both positions within the bytes there are and
the remembered size of the file no larger than the file (`PositionsStay`). With it
the gap that `fwrite` would fill with zeros is empty, the unsigned `size() -
position` does not wrap, and a write over the end is an overwriting followed by an
appending, which is the loop of `MemoryContainer` and the one call of
`FileContainer`. One step for each action then names the step of `Media` that it is.

### The virtual file

**Assumptions.** `FileAssumption` (every chunk holds something, and less than the
tail, as 4082 is below 4096). `FileTyped`, `ChunksAlwaysTile` and
`FlushAlwaysPersists` also assume `OneRefused`: no behaviour has loads that fail
*and* saves that fail. It is needed. After a failed load `write` saves the chunk
with no bytes, and stays in its loop (section 5); if the save that would follow
fails as well, `write` returns, the media keeps an empty chunk, and the map made
from it on reopening has a chunk of size 0, which TLC shows with
`Faults = {{"load", "save"}}`. `CacheCoherent` and `BytesInPlace` are about
behaviours whose loads work, and `IsByteFile` about those in which nothing fails and
`truncate` is not called on an empty file: their theorems need no more than that.

**The argument.** `FileInv` has the chunk map tiling the stored part (`Tiled`); the
stored chunks as long as the map says and their bytes in place (`StoredOK`); the
same of the loaded chunk (`BufferOK`) and of the tail (`TailOK`); a clean buffer
that is what the media holds at *every* step, not only between calls (`Coherent`);
and of the call in progress that its position lies in the file and that what it has
left to write belongs there (`CallOK`): `BytesInPlace` is not inductive without
that. `StoredOK` has one exception, `Stuck`, the loop that a failed load has left
without end. `Tiles` has its own lemmas: each position lies in exactly one chunk,
the one that `upper_bound` and a step back find, and adding a chunk at the end or
cutting at a position leaves a tiling.

The second half of `VirtualFileProofs` shows that the content is a *row*: the bytes of each chunk
where they are newest, one after the other, then the tail (`ContentIs`). A change to
a chunk is the same change to the row (`RowSpliced`), a chunk taken from the tail
leaves the concatenation as it was (`AddedContent`, `MovedOn`), a truncation is a
prefix (`RowCut`). On that rest two invariants over `FileInv`. `FlushSafe`: during a
flush the content and the position are those of its start and the loaded chunk is
not newer than the media; so when the tail is empty, the media has it all. `Promise`:
of a read in progress, that it has returned the bytes between where it began and
where it is; of a write or an append, that the content, once what is left has been
written at the position or put at the end, is what the abstract call makes of the
content at the start. A write that passes its tail over to an append keeps its own
promise, which is why `AppendKept` has two cases. Every step then either leaves what
the user sees (`Still`) or is a step of `ByteFile` (`NextMaps`).

### The container

**Assumptions.** `ContainerAssumption` (chunk sizes are positive, one of them is one
unit, there is a largest, the start chunk has one of them), and of a behaviour that
its media cannot be truncated, one of the settings of the run `container`. With
truncation the region of a cut end dangles. For callers who write on after that the
properties fail (finding 1); for the others, who are orderly and open
the container again first, the run shows them and they are not proved.

**The argument.** None of the properties is inductive alone; a chunk lands after the last
chunk of its file only if the map has the chunks of all files outside its regions,
and a scan finds the same map again only if the media shows it. `ContainerInv` is

* `FilesOK`: `StreamOrder`, `IdentifiersDiffer`, and that every identifier in the
  directory is taken;
* `InUseInv`: there is a set of headers on the media, one for the start of each
  file and one for each of its chunks, such that they and the regions of the map lie
  apart and leave no hole (`SpaceOK`); no other header reaches from before a region
  into it; and each unit of a clean region is covered by a fill chunk (`ShownOK`);
* `ClosingInv`: what an orderly close has already flushed;
* `StoredInv`: of the media between two sessions, that its headers lie apart and
  cover it, and that its start and data chunks are streams in order with identifiers
  of their own (`Streams`);
* `ScanInv`: of a scan, that the part it has passed is a container in order, with
  the directory and the map found so far.

Each operation is a composition of saves, releases and flushes, and each of these
has a lemma about a disk and a directory (`Holds`), with the map lemmas of
`FreeMapLemmas` under it. Reopening uses no part of `InUseInv`: the scan builds
the directory and the map anew, one step of `ScanInv` per chunk, and at its end
`InUseInv` holds again. `ScanSucceeds` is that induction's other half: a scan that
has come so far finds a chunk at its position, and one that it accepts.

The second half of `ContainerProofs` goes on from there to what the files hold. `Reached`, a walk
over the media by the sizes in the headers, is a recursive function; where headers
lie apart and cover the media its only value is the whole media (`ReachedLemma`, by
the last position at which two such functions could differ). A disk without dirty
regions then shows the directory: its start chunks are those of the files, and the
data chunks with the identifier of a file are as many as its map has
(`DataHeadersAre`, a bijection), which is `CleanMediaParses` and what is handed over
at each close (`CloseEndShows`) and at the end of each scan (`ScanEndShows`, with
`NoTails`). In between, a file keeps its pieces as long as nothing brings a data
header of its identifier to the media (`PiecesStay`): `FlushedContents` and
`CutContents` say what a flush and a truncation make of the pieces of the file they
are about, and that the others keep theirs; an erase and a close bring fill chunks
alone, a rename a start chunk. `StepActs` has one case for each action, and in each
the archive stays or takes a step of `Archive`.

### The reader and the tool

**Assumptions.** `OpeningAssumption` (names are in an order) and `IcAssumption` (a
name, a switch and the container's name on a command line can be told apart). The
media are `AnyMedia`: rows of any length in any of the states of the header, torn
or not, with chunks of zeros anywhere, in which the start of a file is before its
data and no name or identifier starts twice (`WellFormed`). `StreamOrder` and
`IdentifiersDiffer` of the container give the order and the identifiers, its
directory the names. Without `WellFormed` a scan still ends, in
`StreamIdentifierMismatch` or `FilenameMismatch`, or in a directory in which two
files share an identifier and one has the data of both. `ReaderSpec` is a program with any options and
any calls; `MaxCalls` is any number. `ToolSpec` is the tool on command lines of any
length in which a switch that wants a name has one behind it (`AnyArguments`; where
another switch follows, the tool takes it for a name, and the help text promises
nothing), with any file system, on the same media without torn payloads. Both
specifications leave fairness out, as the theorems are about safety. `OthersStay` and
`ZeroMeansDone` are about a tool that has not put a chunk into free space at its close:
`ToolInv` holds until then, and "scattered" is the end (`ScatteredStays`).

**The argument, the scan.** `Traverse` is a fold over the row. Its value at the end
is that of a *run*, a function from how far the scan has come to its state, each
from the one before (`RowInduction` carries a fact along a run, by the first place
at which it would fail). `ScannedTo` is what holds on the way: without an error, the
maps are those of the chunks passed, and so is what was heard (`ScannedStep`). Where
there is a complaint nothing is promised but that the maps it leaves, if it came to a
file, stop the next scan: `Stops` is what a chunk may be that no scan over given maps
passes.

**The argument, the reader.** `StreamDelivers` is about streams that come after
other calls, of which each may have left a part of the directory. `ReaderInv` says
of an opened container (`OpenedOK`): it knows nothing yet, or the media hold no file,
or the media are `Blocked`, they hold a chunk that stops any scan over these maps. A
second scan meets a name it knows, or what stopped the first; so a stream without a
complaint was the first scan, and `ScannedTo` gives what it delivered. As long as
nobody streams, a directory that has nothing to say is `Whole`, and then identifiers
that are not in the map are not on the media.

**The argument, the tool.** `ToolInv` holds at every step of `main`:

* `Agrees`: what the container knows of each file is what the media's chunks say,
  and no two files share an identifier, be they stored or imported just now;
* `Met`: the files of the container, with what is in their tails, and those of the
  file system are what the switches up to the present one promise. `Want(k)` is that
  promise after `k` arguments, again a run of a fold. `Doomed` is the exception: a
  name in a switch's place, which ends in an error before anything is closed with 0.
  In the middle of an export (`Exporting`) the files already passed are on the disk,
  and in that of an import (`Importing`) the tail is the beginning of the file;
* `KeptIn`: the files that no argument names are stored as they were given;
* `Broken`: if it could not open or scan, the loop over the switches is left out and
  nothing is to be flushed.

`StepWorks` says what a step between two switches has to show, and each action has
its lemma over it. An erase makes fill chunks of one identifier's chunks, and the
others keep theirs because identifiers differ (`Agrees`). `close` folds over the
names: `CloseAgrees` follows that run and shows that the container with its tails
moved to the media agrees with the media at its end, so that all that `Met` says of
the container is then true of the media (`ClosedFiles`). Where the media has no free
space, to append is what `close` does (`AppendBehind` says so of the places that
`CloseInHoles` allows).

### Only model-checked

* Liveness (`FlushEnds`, `ScanEnds`, `CallsReturn`, `ToolExits`): outside what the
  prover can do.
* `DataChunk` computes by folds over segments and by powers of two: `ReaderAgrees`,
  `RightSized`, `FillCoversHalf`. Their inputs are bounded in the code, too: eight
  sizes, up to three segments.
* The properties of `Container` on media that are truncated, for callers who do not
  write on after a cut.
* `LateChunksInOrder`: what `close` makes of holes.

## 5. What the code does not do as it says

Four runs show it:

1. **`cut_reused`**. `ContainerImpl::flushArea` (container_impl.cpp:328) cuts a free
   end off the media, but its region stays in the map. What is appended next lands
   at the new end, inside that region, and its units are free and live at once; where
   they are released they overlap the old entry (free_space_tracker.cpp:244 asserts
   that the map is not corrupted). In the run two files are made and the second is
   erased, which leaves the region. A piece for the first file goes to its front, and
   what the reservation leaves of it is dirty. The start chunk of a new file is longer
   than that rest and goes to the end of the media, over the rest. `close` flushes
   the region and cuts the media off in the middle of the start chunk. The file was
   flushed, `close` reports no error, and the next scan fails there.
2. **`tracker_abandoned`**. When a save fails, `append`, `flush` and
   `writeStreamStartIfNeeded` (virtual_file_impl.cpp:613, 842, 1030) return without
   releasing the reservation, against free_space_tracker.h:95. A save is several
   writes; those that succeeded have moved the end of the media *into* the region
   that stays behind. The next chunk is appended there, is live in a region of the
   map, and the next flush, which does not ask whether a region is reserved, covers
   it with fill chunks. What remains true is that nothing on offer is in use.
3. **`close_buffered`**. `close` (container_impl.cpp:166) flushes free space and
   then the files. A file that still had bytes in its tail takes space out of a
   region just covered by a larger fill chunk; the rest of that chunk is not
   covered again, and the next scan runs into what was there before.
   The tool gets there with an exit status of 0: `ic C -i b`, where `b` is in the
   container and not its last file, erases `b`, covers the hole, and keeps the new data
   in the cache until it closes. The files behind the hole are lost to a scan. (What
   it meets there are the random bytes of a fill chunk's padding or an old header; by
   accident it may accept them.)
4. **`file_gap`**. `FileContainer::Private::truncate`
   (container_file_container_private.cpp:291) does not update the remembered size,
   so the next chunk is put where the file ended before the truncation. The file
   grows over a gap of zeros, which is no chunk, and the scan after a proper close
   stops there. container_impl.h:119 promises that close forces everything to be
   flushed, container_file_container_private.h:91 that `size` is the current size.

Seen in the code while translating it, without a run of their own:

* `setBestFitSize` (chunk_header.cpp:266) leaves the old invalid byte count;
  chunk_header.h:273 says that all data is then valid. Callers set it afterwards.
* `toPosition` (chunk_header.cpp:149) multiplies in the 32 bit type of the index
  and wraps at 4 GiB.
* A failed load leaves `currentChunk` at a chunk whose bytes the buffer no longer
  has (virtual_file_impl.cpp:417), and in the middle of `write` the loop does not
  end (virtual_file_impl.cpp:474). `CacheCoherent` and `CallsReturn` exclude
  behaviours with failing loads for that reason. Where a save fails after that, an
  empty chunk stays on the media (section 4, the virtual file); no run has both.
* `truncate` of a file without stored chunks steps back from the beginning of an
  empty map (virtual_file_impl.cpp:696); the next line asserts otherwise.
* `Container::newVirtualFile` uses the null pointer of a name that exists
  (container_container.cpp:71); container_container.h:106 says that "A null pointer
  is returned on error", and `FileCreationError` cannot be reached for that reason.
* A header that is read short is answered with a success, which `ic` and the tests
  take for an error by asking for a bool; `failure()` would not
  (container_impl.cpp:83). `open` compares a size in bytes with an index of units
  (container_impl.cpp:126), so media with chunks are scanned whatever their size.
* `directory()` sets `fileMapsPopulated` before it scans, and scans once: a second
  call is short of the same files, with the same `lastStatus`. `streamRead`
  answers its status and does not keep it (container_impl.cpp:191), so after one
  that stopped half-way `directory()` is short without an error. After
  `directory()`, `streamRead` of a container with files always answers
  `FilenameMismatch`. `DirectoryWhole` and `NewIdentifierFree` are about programs
  that do not call it.
* `open` of a file whose size cannot be found answers `FailedToOpenFile` and leaves the
  file open (container_file_container_private.cpp:137-149); a `freopen` that fails in
  `truncate` leaves a handle in use that is freed (line 336).
* Nothing checks the CRC of a chunk in a scan; a torn chunk is noticed by short
  reads.
* `doInitialize` (src/ic/ic.cpp:183) never advances its iterator: it erases the
  first file twice, the second time with an error, and keeps the others. The help
  text (ic.cpp:365) says that the switch "Erases any content in the container".
* `ic`: the help text has `-x` and `--extract`, the code `-e` and `--export`
  (ic.cpp:444); a switch without its parameter makes a string of a null pointer
  (ic.cpp:437), and so does an unknown switch at the end; the container between a
  switch and its parameter makes the parameter a switch, after it was used
  (ic.cpp:432); a file that cannot be opened for writing is closed as a null
  pointer (ic.cpp:105); importing a folder does not end (ic.cpp:301); extracting a
  file that the same command has imported or extracted empties the file on the
  disk and fails (ic.cpp:74-85).
* `fileRenamed` (container_impl.cpp:287) keeps the old entry of a target name
  that exists; `Rename` is modelled for new names.
* ring_buffer.h:38 allows insertion and extraction on different threads; both
  write the same count. The repository uses one thread.

## 6. Not modelled, and plan

Done: the modules above in this order: allocator and its map, chunk format, ring
buffer, one file, container, back ends; the allocator's invariant and the ring
buffer proved; then opening, scanning and streaming with the statuses, and the tool;
then the proofs of the clean regions, the back ends, the virtual file, the
container, and of the reader and the tool.

Not modelled:

* Reads and writes that fail inside an operation of `Container`, and what follows a
  call that was refused: an erase or a truncation that stops midway leaves chunks that
  no map has, a refused save leaves its reservation. Every such call answers an error,
  and no document says what the container then holds. The single parts are modelled:
  the tracker's reservation (`tracker_faults`), the file's memory
  (`virtual_file`), the media (`back_end`).
* A stop with dirty regions: `CleanMediaParses` says where a process may stop, and
  nothing is promised elsewhere. `Opening` has what a stop inside a write leaves.
* The payload of a data chunk that was overwritten or cut: `Container` has it as no
  piece at all, as nothing checks it (no CRC is read).
* The byte layout and the CRC; the width of an index; names longer than a start
  chunk holds, for which `setVirtualFilename` computes a negative length
  (stream_start_chunk.cpp); identifiers running out after 2^24 files.
* `VirtualFile`'s callbacks when a user's class overrides them with calls back into
  the container. Two threads: the repository has none.
* Tests, build files, the CRC table generator.

Proving, next:

1. `Container` on media that are truncated, for callers who do not write on after a
   cut: the properties that the run shows, for every chunk size.
2. What holds of the tracker on truncating media (`Coalesced`, `NoLeak` below the
   end).
3. The memory back end with truncation, which only the file back end gets wrong.
4. The tool over torn payloads, which needs `VirtualFile` and `Opening` composed.
