--------------------------- MODULE FreeSpaceTracker ---------------------------
(***************************************************************************)
(* FreeSpaceTracker with the container it allocates for: the map of free   *)
(* regions, the one reservation its single-threaded callers may hold, and  *)
(* of the media only what allocation depends on: how long it is, which     *)
(* units belong to live chunks and which fill chunks it shows.             *)
(*                                                                         *)
(* A unit is the 32 bytes that a FileIndex counts.  flushFreeSpace and the *)
(* scan of an opened container advance one chunk at a time, as the loops   *)
(* of ContainerImpl::flushArea and traverseContainer do.                   *)
(***************************************************************************)
EXTENDS FreeMapAgreement

CONSTANTS
  ChunkUnits,   \* the chunk sizes, in units (powers of two up to 128)
  StartUnits,   \* size of a stream start chunk, in units (4)
  HeaderUnits,  \* size of the file header chunk, in units
  MediaKinds,   \* of what kinds may the media be?
  MaxSize       \* bound on the length of the media, in units

ASSUME TrackerAssumption ==
  /\ ChunkUnits \subseteq Nat \ {0} /\ 1 \in ChunkUnits
  /\ \E m \in ChunkUnits : \A c \in ChunkUnits : c <= m
  /\ StartUnits \in ChunkUnits
  /\ HeaderUnits \in Nat \ {0}
  /\ MediaKinds \subseteq [truncates : BOOLEAN, fails : BOOLEAN]
  /\ MaxSize \in Nat

VARIABLES
  freeMap,  \* the entries of the map
  size,     \* length of the media, in units
  used,     \* units of the chunks that are live
  fills,    \* fill chunks on the media, as [start, end)
  held,     \* the outstanding reservation, or NoHandle
  flush,    \* a flushFreeSpace in progress: next key, rest of the area
  scan,     \* position of a scan in progress; size when there is none
  media     \* its kind: does it implement truncate(), may writes to it fail?

trackerVars == <<freeMap, size, used, fills, held, flush, scan, media>>

(* Media that cannot be cut and whose writes succeed. *)
Working == [truncates |-> FALSE, fails |-> FALSE]

MaxUnits == CHOOSE m \in ChunkUnits : \A c \in ChunkUnits : c <= m

NoHandle == [key |-> 0, start |-> 0, units |-> 0, from |-> 0, minimum |-> 0]
NoFlush  == [next |-> 0, start |-> 0, end |-> 0, active |-> FALSE]

Units(s, e) == s .. (e - 1)

TypeOK ==
  /\ freeMap \in SUBSET Region /\ NonEmpty(freeMap)
  /\ size \in Nat /\ scan \in Nat
  /\ used \in SUBSET Nat
  /\ fills \in SUBSET [start : Nat, end : Nat]
  /\ held \in [key : Nat, start : Nat, units : Nat, from : Nat, minimum : Nat]
  /\ flush \in [next : Nat, start : Nat, end : Nat, active : BOOLEAN]

Idle == held = NoHandle /\ ~flush.active /\ scan = size

Init ==
  /\ freeMap = {} /\ fills = {}
  /\ size = HeaderUnits /\ scan = HeaderUnits
  /\ used = 0 .. HeaderUnits - 1
  /\ held = NoHandle /\ flush = NoFlush
  /\ media \in MediaKinds

(* What is left of the fill chunks when [s, e) is written. *)
Unwritten(s, e) == {f \in fills : f.end <= s \/ e <= f.start}

------------------------------------------------------------------------------
(* Regions never overlap, whatever newFreeSpaceArea, reserveFreeSpaceArea  *)
(* and releaseReservation split, join or drop.                             *)
Disjoint == DisjointRegions(freeMap)

(* Where that holds the operations on the map are those of FreeMap; where  *)
(* reservations were left behind the walk decides, and a call that runs    *)
(* into an assertion ends the program.                                     *)
NewFreeArea(s, n, dirty) ==
  IF Disjoint /\ \A r \in freeMap : r.end <= s \/ s + n <= r.start
  THEN freeMap' = NewFreeSpaceArea(freeMap, s, n, dirty)
  ELSE LET w == WalkNewFree(freeMap, s, n, dirty) IN w.sound /\ freeMap' = w.map

ReleaseReservation(length, h) ==
  IF Disjoint
  THEN freeMap' = Released(freeMap, length, h)
  ELSE LET w == WalkRelease(freeMap, length, h) IN w.sound /\ freeMap' = w.map

(* A chunk, or what a shrunk chunk gives up, becomes free.                 *)
NewFree(s, n) ==
  /\ Idle /\ s >= HeaderUnits /\ n > 0 /\ Units(s, s + n) \subseteq used
  /\ NewFreeArea(s, n, TRUE)
  /\ used' = used \ Units(s, s + n)
  /\ UNCHANGED <<size, fills, held, flush, scan, media>>

Reserve(from, minimum, desired) ==
  /\ Idle
  /\ LET a == IF Disjoint THEN Allocation(freeMap, size, from, minimum, desired)
                          ELSE WalkAllocation(freeMap, size, from, minimum, desired)
     IN  held' = [key |-> a.start, start |-> a.start, units |-> a.end - a.start,
                  from |-> from, minimum |-> minimum]
  /\ freeMap' = IF Disjoint THEN Reserved(freeMap, size, from, minimum, desired)
                           ELSE WalkReserve(freeMap, size, from, minimum, desired)
  /\ UNCHANGED <<size, used, fills, flush, scan, media>>

(* The holder saves a chunk of c units at the front of its reservation,    *)
(* reduces the reservation by it and releases the rest.  A container       *)
(* cannot be positioned past its end.                                      *)
Commit(c) ==
  /\ held # NoHandle /\ held.start <= size
  /\ c \in ChunkUnits /\ held.minimum <= c /\ c <= held.units
  /\ LET e == held.start + c
     IN  /\ e <= MaxSize
         /\ size' = Higher(size, e) /\ scan' = Higher(size, e)
         /\ used' = used \cup Units(held.start, e)
         /\ fills' = Unwritten(held.start, e)
         /\ ReleaseReservation(Higher(size, e),
                               [key |-> held.key, start |-> e, units |-> held.units - c])
  /\ held' = NoHandle
  /\ UNCHANGED <<flush, media>>

(* The save fails after n units (a seek past the end fails at once): the   *)
(* callers return the error and never release the reservation.             *)
Abandon(n) ==
  /\ held # NoHandle /\ n <= held.units
  /\ \/ media.fails /\ held.start <= size /\ held.start + n <= MaxSize
     \/ held.start > size /\ n = 0
  /\ size' = IF n = 0 THEN size ELSE Higher(size, held.start + n)
  /\ scan' = size'
  /\ fills' = IF n = 0 THEN fills ELSE Unwritten(held.start, held.start + n)
  /\ held' = NoHandle
  /\ UNCHANGED <<freeMap, used, flush, media>>

------------------------------------------------------------------------------
(* flushFreeSpace(): every dirty entry in the order of the map, reserved   *)
(* entries included.                                                       *)
FlushBegin ==
  /\ Idle
  /\ flush' = [NoFlush EXCEPT !.active = TRUE]
  /\ UNCHANGED <<freeMap, size, used, fills, held, scan, media>>

InArea == flush.active /\ flush.start < flush.end
Ahead  == {r \in freeMap : r.start >= flush.next /\ r.dirty}

FlushEntry ==
  /\ flush.active /\ ~InArea /\ Ahead # {}
  /\ LET r == First(Ahead)
     IN  /\ freeMap' = Flushed(freeMap, r)
         /\ flush' = [next |-> r.start + 1, start |-> r.start, end |-> r.end, active |-> TRUE]
  /\ UNCHANGED <<size, used, fills, held, scan, media>>

Largest(n) == CHOOSE c \in ChunkUnits : c <= n /\ \A d \in ChunkUnits : d <= n => d <= c

(* flushArea decides once, for the whole area, whether to truncate. *)
Truncates == media.truncates /\ flush.end >= size

(* Mutated form: the remaining area is not reduced. *)
FlushChunkNoReduce ==
  /\ InArea /\ ~Truncates /\ flush.start <= size
  /\ LET e == flush.start + Largest(flush.end - flush.start)
     IN  /\ e <= MaxSize
         /\ fills' = Unwritten(flush.start, e) \cup {[start |-> flush.start, end |-> e]}
         /\ size' = Higher(size, e) /\ scan' = Higher(size, e)
  /\ UNCHANGED <<freeMap, used, held, flush, media>>

(* One fill chunk at the front of the rest of the area. *)
FlushChunk ==
  /\ InArea /\ ~Truncates /\ flush.start <= size
  /\ LET e == flush.start + Largest(flush.end - flush.start)
     IN  /\ e <= MaxSize
         /\ fills' = Unwritten(flush.start, e) \cup {[start |-> flush.start, end |-> e]}
         /\ size' = Higher(size, e) /\ scan' = Higher(size, e)
         /\ flush' = [flush EXCEPT !.start = e]
  /\ UNCHANGED <<freeMap, used, held, media>>

FlushTruncate ==
  /\ InArea /\ Truncates /\ flush.start <= size
  /\ size' = flush.start /\ scan' = flush.start
  /\ fills' = {f \in fills : f.end <= flush.start}
  /\ flush' = [flush EXCEPT !.start = flush.end]
  /\ UNCHANGED <<freeMap, used, held, media>>

(* The media and the fill chunks when the save of an area's next fill      *)
(* chunk gets n units far.  Its header comes first: where the media goes   *)
(* on for as long as the header says, it shows a fill chunk all the same.  *)
FillTorn(n) ==
  LET e == flush.start + Largest(flush.end - flush.start)
  IN  /\ media.fails /\ ~Truncates /\ flush.start <= size
      /\ flush.start + n <= e /\ flush.start + n <= MaxSize
      /\ size' = Higher(size, flush.start + n) /\ scan' = size'
      /\ fills' = Unwritten(flush.start, e)
                    \cup {f \in {[start |-> flush.start, end |-> e]} : e <= size'}

(* The area can not be cut, or nothing of it can be written, a seek past   *)
(* the end included.                                                       *)
AreaRefused ==
  /\ media.fails \/ flush.start > size
  /\ UNCHANGED <<size, scan, fills>>

(* Mutated form: the loop tries again. *)
FlushRetries(n) ==
  /\ InArea
  /\ IF n = 0 THEN AreaRefused ELSE FillTorn(n)
  /\ UNCHANGED <<freeMap, used, held, flush, media>>

(* The write of an area fails after n units: the loop stops, the flag is   *)
(* cleared.                                                                *)
FlushFails(n) ==
  /\ InArea
  /\ IF n = 0 THEN AreaRefused ELSE FillTorn(n)
  /\ flush' = NoFlush
  /\ UNCHANGED <<freeMap, used, held, media>>

FlushEnd ==
  /\ flush.active /\ ~InArea /\ Ahead = {}
  /\ flush' = NoFlush
  /\ UNCHANGED <<freeMap, size, used, fills, held, scan, media>>

------------------------------------------------------------------------------
(* open(): clearFreeSpace, then a scan of the media before the first use.  *)
(* The media is only known to parse when the map has nothing to flush.     *)
Reopen ==
  /\ Idle /\ \A r \in freeMap : ~r.dirty /\ ~r.reserved
  /\ freeMap' = {}
  /\ scan' = HeaderUnits
  /\ HeaderUnits < size
  /\ UNCHANGED <<size, used, fills, held, flush, media>>

(* Mutated form: the position is not moved past the chunk. *)
ScanFillStays ==
  /\ scan < size
  /\ \E f \in fills :
       /\ f.start = scan
       /\ NewFreeArea(f.start, f.end - f.start, FALSE)
  /\ UNCHANGED <<size, used, fills, held, flush, scan, media>>

ScanFill ==
  /\ scan < size
  /\ \E f \in fills :
       /\ f.start = scan
       /\ NewFreeArea(f.start, f.end - f.start, FALSE)
       /\ scan' = f.end
  /\ UNCHANGED <<size, used, fills, held, flush, media>>

ScanLive ==
  /\ scan < size /\ scan \in used
  /\ scan' = scan + 1
  /\ UNCHANGED <<freeMap, size, used, fills, held, flush, media>>

------------------------------------------------------------------------------
FlushStep ==
  \/ FlushEntry \/ FlushChunk \/ FlushTruncate \/ FlushEnd
  \/ \E n \in 0 .. MaxUnits : FlushFails(n)
ScanStep  == ScanFill \/ ScanLive

Next ==
  \/ \E s, n \in 0 .. size : NewFree(s, n)
  \/ Reserve(0, StartUnits, StartUnits)
  \/ \E from \in 0 .. size : Reserve(from, 1, MaxUnits)
  \/ \E c \in ChunkUnits : Commit(c)
  \/ \E n \in 0 .. MaxUnits : Abandon(n)
  \/ FlushBegin \/ FlushStep
  \/ Reopen \/ ScanStep

(* The thread that runs a flush or a scan keeps running. *)
Fairness == WF_trackerVars(FlushStep) /\ WF_trackerVars(ScanStep)

Spec     == Init /\ [][Next]_trackerVars
FairSpec == Spec /\ Fairness

------------------------------------------------------------------------------
(* No unit of a live chunk is in a region: what a reservation hands out    *)
(* and what a flush overwrites with fill chunks is nobody's.               *)
FreeIsUnused == \A r \in freeMap : \A u \in used : ~In(u, r)

(* Available regions that touch are one region, so a hole is offered whole *)
(* to the next request (newFreeSpaceArea, releaseReservation merge).       *)
Coalesced == CoalescedRegions(freeMap)

(* Every unit of the media belongs to a live chunk or to a region: no hole *)
(* is lost, not by a split, a release, a merge or a rescan.                *)
NoLeak ==
  \A u \in 0 .. size - 1 :
    u \in used \/ u >= scan \/ \E r \in freeMap : In(u, r)

(* A reservation is not below the requested index, has the requested room, *)
(* leaves no gap to the end of the media and is one reserved entry.        *)
ReservationServes ==
  held # NoHandle =>
    /\ held.start >= held.from /\ held.units >= held.minimum
    /\ held.start <= size
    /\ Entry(held.key, held.start + held.units, TRUE, TRUE) \in freeMap

BeingFlushed(r) == InArea /\ flush.start < r.end /\ r.start < flush.end

(* The code's walks over the ordered map and the forms of FreeMap, which   *)
(* the other modules use, give the same map for every call that could be   *)
(* made in the state (newFreeSpaceArea, reserveFreeSpaceArea,              *)
(* releaseReservation), and not only for those the callers do make; no     *)
(* assertion on the way fails.                                             *)
WalksAgree ==
  /\ NewFreeAgrees(freeMap, MaxSize)
  /\ ReserveAgrees(freeMap, size, MaxSize)
  /\ ReleaseAgrees(freeMap, size)

(* What fileUpdateNeeded promises: the media shows a clean region as fill  *)
(* chunks from its first unit to its last, and nothing but them.           *)
CleanIsShown ==
  \A r \in freeMap : (~r.dirty /\ ~BeingFlushed(r)) =>
    \A u \in r.start .. (Lower(r.end, size) - 1) :
      \E f \in fills : In(u, f) /\ r.start <= f.start /\ f.end <= r.end

(* Between calls no entry is reserved: whoever reserved an area released   *)
(* it ("You must call this method on every free space area you reserve").  *)
EveryReservationReleased ==
  Idle => \A r \in freeMap : ~r.reserved

(* Where writes may fail and error paths leave reservations behind, what   *)
(* the tracker has on offer is still nobody's: no unit of a live chunk is  *)
(* in a region that is not reserved.  Of the reserved ones it is not true. *)
OfferedIsUnused ==
  ~media.truncates => \A r \in freeMap : ~r.reserved => \A u \in used : ~In(u, r)

(* A flushFreeSpace that has begun comes to its end: every fill chunk that *)
(* flushArea writes takes something off the area.                          *)
FlushEnds == flush.active ~> ~flush.active

(* The scan of an opened container comes to its end. *)
ScanEnds  == (scan < size) ~> (scan = size)
==============================================================================
