---------------------------- MODULE FreeMapAgreement ----------------------------
(***************************************************************************)
(* The forms of FreeMap against the walk of FreeMapWalk, on every call     *)
(* that could be made in a map without overlaps, on indices up to "last".  *)
(***************************************************************************)
EXTENDS FreeMapWalk

(* newFreeSpaceArea's walk is the new region joined with its neighbours,   *)
(* for every area that no entry overlaps.                                  *)
NewFreeAgrees(map, last) ==
  \A s \in 0 .. last, n \in 1 .. last, d \in BOOLEAN :
    s + n <= last /\ (\A r \in map : Apart(r, Entry(s, s + n, FALSE, FALSE))) =>
      WalkNewFree(map, s, n, d) = [map |-> NewFreeSpaceArea(map, s, n, d), sound |-> TRUE]

(* reserveFreeSpaceArea's walk cuts the lowest region that serves. *)
ReserveAgrees(map, size, last) ==
  \A from \in 0 .. last, lo, hi \in 1 .. last :
    lo <= hi /\ from + hi <= last =>
      /\ WalkReserve(map, size, from, lo, hi) = Reserved(map, size, from, lo, hi)
      /\ WalkAllocation(map, size, from, lo, hi) = Allocation(map, size, from, lo, hi)

(* releaseReservation's two merges are one join with both neighbours, for  *)
(* every reservation and whatever of it was used.                          *)
ReleaseAgrees(map, size) ==
  \A r \in map : r.reserved =>
    \A s \in r.start .. r.end :
      LET h == [key |-> r.start, start |-> s, units |-> r.end - s]
      IN  WalkRelease(map, size, h) = [map |-> Released(map, size, h), sound |-> TRUE]
==============================================================================
