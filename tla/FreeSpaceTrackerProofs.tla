------------------------ MODULE FreeSpaceTrackerProofs ------------------------
(***************************************************************************)
(* Safety of FreeSpaceTracker for every chunk size, container length and   *)
(* history.  On containers that do not truncate and do not fail the        *)
(* invariant TrackerInv is inductive, and each property follows from it.   *)
(* Where writes may fail, so that reservations are left behind and entries *)
(* overlap, it is FaultInv, and the lemmas are about the code's own walk   *)
(* over the map.                                                           *)
(***************************************************************************)
EXTENDS FreeSpaceTracker, FreeMapLemmas

(* The regions lie in the part of the media that was scanned, except for a *)
(* reservation, which may lie at the end of the media.                     *)
RegionsInv ==
  /\ WellFormed(freeMap) /\ CoalescedRegions(freeMap)
  /\ \A r \in freeMap : ~r.reserved => r.end <= scan

(* Live chunks lie on the media, the file header chunk is one of them. *)
MediaInv ==
  /\ HeaderUnits <= scan /\ scan <= size
  /\ used \subseteq 0 .. size - 1 /\ 0 .. HeaderUnits - 1 \subseteq used
  /\ \A f \in fills : f.start < f.end /\ f.end <= size /\ \A u \in used : ~In(u, f)

Mine == Entry(held.key, held.start + held.units, TRUE, TRUE)

(* The reservation that is held is the only reserved entry. *)
HeldInv ==
  /\ \A r \in freeMap : r.reserved => held # NoHandle /\ r = Mine
  /\ held # NoHandle =>
       /\ Mine \in freeMap
       /\ held.key = held.start /\ held.from <= held.start
       /\ held.minimum <= held.units /\ 1 <= held.units
       /\ held.start + held.units <= size \/ held.start = size
       /\ ~flush.active /\ scan = size

(* What a flush still has to write lies in a region. *)
FlushInv ==
  /\ flush.active => scan = size
  /\ InArea => \E r \in freeMap : r.start <= flush.start /\ flush.end <= r.end

TrackerInv == TypeOK /\ RegionsInv /\ MediaInv /\ HeldInv /\ FlushInv /\ FreeIsUnused /\ NoLeak

------------------------------------------------------------------------------
(* What TrackerAssumption gives: the largest chunk, and no size is zero. *)
LEMMA SizesLemma ==
  /\ ChunkUnits \subseteq Nat /\ \A c \in ChunkUnits : 1 <= c /\ c <= MaxUnits
  /\ MaxUnits \in Nat /\ 1 <= MaxUnits /\ StartUnits \in Nat /\ 1 <= StartUnits
  /\ HeaderUnits \in Nat /\ 1 <= HeaderUnits
<1>1. MaxUnits \in ChunkUnits /\ \A c \in ChunkUnits : c <= MaxUnits
  BY TrackerAssumption DEF MaxUnits
<1> QED BY <1>1, TrackerAssumption

(* The largest chunk that fits is a chunk that fits. *)
LEMMA LargestLemma ==
  ASSUME NEW n \in Nat, 1 <= n
  PROVE  Largest(n) \in Nat /\ 1 <= Largest(n) /\ Largest(n) <= n
<1> DEFINE fits == {c \in ChunkUnits : c <= n}
           T == {n - c : c \in fits}
<1>1. fits \subseteq Nat /\ 1 \in fits
  BY TrackerAssumption
<1>2. T \subseteq Nat /\ T # {}
  BY <1>1
<1>3. PICK x \in T : \A y \in T : x <= y
  BY <1>2, LeastOf
<1>4. PICK c \in fits : x = n - c
  BY <1>3
<1>5. ASSUME NEW d \in fits PROVE d <= c
  <2>1. n - d \in T
    OBVIOUS
  <2>2. n - c <= n - d
    BY <1>3, <1>4, <2>1
  <2>3. c \in Nat /\ d \in Nat
    BY <1>1
  <2> QED BY <2>2, <2>3
<1>6. c \in ChunkUnits /\ c <= n /\ \A d \in ChunkUnits : d <= n => d <= c
  BY <1>5
<1>7. Largest(n) \in ChunkUnits /\ Largest(n) <= n
  BY <1>6 DEF Largest
<1> QED BY <1>7, SizesLemma

(* A region without a unit of [s, e) lies apart from it. *)
LEMMA ApartLemma ==
  ASSUME NEW q \in Region, q.start < q.end, NEW s \in Nat, NEW e \in Nat, s < e,
         \A u \in s .. (e - 1) : ~In(u, q)
  PROVE  q.end <= s \/ e <= q.start
<1>1. q.start \in Nat /\ q.end \in Nat
  BY DEF Region
<1>2. ~In(s, q) /\ (q.start \in s .. (e - 1) => ~In(q.start, q))
  BY <1>1
<1> QED BY <1>1, <1>2 DEF In

(* The initial state satisfies the invariant. *)
LEMMA InitInv == Init => TrackerInv
<1> SUFFICES ASSUME Init PROVE TrackerInv
  OBVIOUS
<1> USE SizesLemma DEF Init
<1>1. TypeOK
  BY DEF TypeOK, NonEmpty, NoHandle, NoFlush
<1>2. RegionsInv
  BY DEF RegionsInv, WellFormed, NonEmpty, DisjointRegions, CoalescedRegions
<1>3. MediaInv /\ NoLeak
  BY DEF MediaInv, NoLeak
<1>4. HeldInv /\ FlushInv /\ FreeIsUnused
  BY DEF HeldInv, FlushInv, FreeIsUnused, InArea, NoFlush
<1> QED BY <1>1, <1>2, <1>3, <1>4 DEF TrackerInv

(* A step that changes none of the variables keeps the invariant. *)
LEMMA StutterInv == TrackerInv /\ UNCHANGED trackerVars => TrackerInv'
<1> SUFFICES ASSUME TrackerInv, UNCHANGED trackerVars PROVE TrackerInv'
  OBVIOUS
<1> USE DEF trackerVars
<1>1. TypeOK' /\ RegionsInv'
  BY DEF TrackerInv, TypeOK, RegionsInv
<1>2. MediaInv' /\ NoLeak' /\ FreeIsUnused'
  BY DEF TrackerInv, MediaInv, NoLeak, FreeIsUnused
<1>3. HeldInv' /\ FlushInv'
  BY DEF TrackerInv, HeldInv, FlushInv, InArea, Mine
<1> QED BY <1>1, <1>2, <1>3 DEF TrackerInv

(* No regions overlap, so the operations on the map have their simple form. *)
LEMMA PlainForms ==
  ASSUME TrackerInv
  PROVE  /\ Disjoint
         /\ \A s, n \in Nat, d \in BOOLEAN :
              (\A q \in freeMap : q.end <= s \/ s + n <= q.start) /\ NewFreeArea(s, n, d)
                => freeMap' = Coalesce(freeMap, Entry(s, s + n, FALSE, d))
         /\ \A m, h : ReleaseReservation(m, h) => freeMap' = Released(freeMap, m, h)
<1>1. Disjoint
  BY DEF TrackerInv, RegionsInv, WellFormed, Disjoint
<1> QED BY <1>1 DEF NewFreeArea, NewFreeSpaceArea, ReleaseReservation

(* The units of a chunk belong to no region. *)
LEMMA NewFreeForm ==
  ASSUME TrackerInv, NEW s \in Nat, NEW n \in Nat, NewFree(s, n)
  PROVE  /\ 0 < n /\ HeaderUnits <= s /\ \A u \in s .. (s + n - 1) : u \in used
         /\ \A q \in freeMap : q.end <= s \/ s + n <= q.start
         /\ freeMap' = Coalesce(freeMap, Entry(s, s + n, FALSE, TRUE))
<1>0. NewFreeArea(s, n, TRUE) /\ n > 0 /\ s >= HeaderUnits /\ Units(s, s + n) \subseteq used
  BY Zenon DEF NewFree
<1>1. 0 < n /\ HeaderUnits <= s /\ \A u \in s .. (s + n - 1) : u \in used
  BY <1>0, SizesLemma DEF Units
<1>2. ASSUME NEW q \in freeMap PROVE q.end <= s \/ s + n <= q.start
  <2>1. q \in Region /\ q.start < q.end /\ s < s + n /\ s + n \in Nat
    BY <1>1 DEF TrackerInv, TypeOK, NonEmpty
  <2>2. \A u \in s .. (s + n - 1) : ~In(u, q)
    BY <1>1 DEF TrackerInv, FreeIsUnused
  <2> QED BY <2>1, <2>2, ApartLemma
<1> QED BY <1>0, <1>1, <1>2, PlainForms

(* What a scan finds lies behind all regions. *)
LEMMA ScanFillForm ==
  ASSUME TrackerInv, NEW s \in Nat, NEW e \in Nat, s < e, scan = s, scan < size,
         NewFreeArea(s, e - s, FALSE)
  PROVE  /\ \A q \in freeMap : ~q.reserved /\ q.end <= s
         /\ freeMap' = Coalesce(freeMap, Entry(s, e, FALSE, FALSE))
<1>1. \A q \in freeMap : ~q.reserved /\ q.end <= s
  BY DEF TrackerInv, TypeOK, RegionsInv, HeldInv
<1>2. e - s \in Nat /\ s + (e - s) = e
  OBVIOUS
<1>3. freeMap' = Coalesce(freeMap, Entry(s, s + (e - s), FALSE, FALSE))
  BY <1>1, <1>2, PlainForms
<1> QED BY <1>1, <1>2, <1>3

(* Freeing a chunk: its units belong to no region, so the new region is    *)
(* apart from all others.                                                  *)
LEMMA NewFreeInv ==
  ASSUME TrackerInv, NEW s \in Nat, NEW n \in Nat, NewFree(s, n)
  PROVE  TrackerInv'
<1> DEFINE r == Entry(s, s + n, FALSE, TRUE)
<1>1. /\ held = NoHandle /\ ~flush.active /\ scan = size /\ HeaderUnits <= s /\ 0 < n
      /\ \A u \in s .. (s + n - 1) : u \in used
      /\ freeMap' = Coalesce(freeMap, r) /\ used' = used \ (s .. (s + n - 1))
      /\ UNCHANGED <<size, fills, held, flush, scan>>
  <2>1. Idle /\ used' = used \ Units(s, s + n) /\ UNCHANGED <<size, fills, held, flush, scan>>
    BY Zenon DEF NewFree
  <2>2. /\ 0 < n /\ HeaderUnits <= s /\ \A u \in s .. (s + n - 1) : u \in used
        /\ freeMap' = Coalesce(freeMap, r)
    BY NewFreeForm
  <2>3. held = NoHandle /\ ~flush.active /\ scan = size /\ used' = used \ (s .. (s + n - 1))
    BY <2>1 DEF Idle, Units
  <2> HIDE DEF r
  <2> QED BY <2>1, <2>2, <2>3, Zenon
<1>2. r \in Region /\ r.start = s /\ r.end = s + n /\ ~r.reserved
  <2>1. s + n \in Nat
    OBVIOUS
  <2> QED BY <2>1, EntryLemma
<1> HIDE DEF r
<1>3. size \in Nat /\ scan \in Nat /\ s + n <= size
  <2>1. s + n - 1 \in used
    BY <1>1
  <2> QED BY <2>1 DEF TrackerInv, TypeOK, MediaInv
<1>4. \A q \in freeMap : Apart(q, r)
  BY <1>2, NewFreeForm DEF Apart
<1>5. r.start < r.end
  BY <1>1, <1>2
<1>6. WellFormed(freeMap) /\ CoalescedRegions(freeMap)
  BY DEF TrackerInv, RegionsInv
<1>7. /\ WellFormed(Coalesce(freeMap, r)) /\ CoalescedRegions(Coalesce(freeMap, r))
      /\ \A u \in Nat : Covers(Coalesce(freeMap, r), u) <=> In(u, r) \/ Covers(freeMap, u)
      /\ \A q : q.reserved => (q \in Coalesce(freeMap, r) <=> q \in freeMap)
      /\ \A b \in Nat : (r.end <= b /\ \A q \in freeMap : ~q.reserved => q.end <= b)
                          => \A q \in Coalesce(freeMap, r) : ~q.reserved => q.end <= b
  BY <1>2, <1>4, <1>5, <1>6, CoalesceLemma
<1>8. \A u \in Nat : Covers(freeMap', u) <=> (s <= u /\ u < s + n) \/ Covers(freeMap, u)
  BY <1>1, <1>2, <1>7 DEF In
<1>9. RegionsInv'
  BY <1>1, <1>2, <1>3, <1>7 DEF TrackerInv, RegionsInv
<1>10. TypeOK'
  BY <1>1, <1>9 DEF TrackerInv, TypeOK, RegionsInv, WellFormed
<1>11. MediaInv'
  BY <1>1, <1>3, SizesLemma DEF TrackerInv, MediaInv
<1>12. HeldInv'
  <2>1. ASSUME NEW q \in freeMap', q.reserved PROVE FALSE
    BY <1>1, <1>7, <2>1 DEF TrackerInv, HeldInv
  <2> QED BY <1>1, <2>1 DEF HeldInv
<1>13. FlushInv'
  BY <1>1 DEF FlushInv, InArea
<1>14. FreeIsUnused'
  <2>1. ASSUME NEW q \in freeMap', NEW u \in used', In(u, q) PROVE FALSE
    <3>1. u \in used /\ u \in Nat /\ ~(s <= u /\ u < s + n)
      BY <1>1 DEF TrackerInv, TypeOK
    <3>2. Covers(freeMap, u)
      BY <1>8, <2>1, <3>1 DEF Covers
    <3> QED BY <3>1, <3>2 DEF Covers, TrackerInv, FreeIsUnused
  <2> QED BY <2>1 DEF FreeIsUnused
<1>15. NoLeak'
  <2>1. ASSUME NEW u \in 0 .. size - 1 PROVE u \in used' \/ Covers(freeMap', u)
    <3>1. u \in Nat /\ u < scan
      BY <1>1, <1>3
    <3>2. u \in used \/ Covers(freeMap, u)
      BY <1>3, <3>1 DEF TrackerInv, NoLeak, Covers
    <3> QED BY <1>1, <1>8, <3>1, <3>2
  <2> QED BY <1>1, <2>1 DEF NoLeak, Covers
<1> QED BY <1>9, <1>10, <1>11, <1>12, <1>13, <1>14, <1>15 DEF TrackerInv

(* Reserving: ReserveLemma says what is handed out and what the map covers. *)
LEMMA ReserveInv ==
  ASSUME TrackerInv, NEW from \in Nat, NEW minimum \in Nat, NEW desired \in Nat,
         from <= size, 1 <= minimum, minimum <= desired, Reserve(from, minimum, desired)
  PROVE  TrackerInv'
<1> DEFINE a == Allocation(freeMap, size, from, minimum, desired)
           new == Reserved(freeMap, size, from, minimum, desired)
           mine == Entry(a.start, a.end, TRUE, TRUE)
<1>1. /\ held = NoHandle /\ ~flush.active /\ scan = size /\ freeMap' = new
      /\ held' = [key |-> a.start, start |-> a.start, units |-> a.end - a.start,
                  from |-> from, minimum |-> minimum]
      /\ UNCHANGED <<size, used, fills, flush, scan>>
  BY PlainForms DEF Reserve, Idle
<1>2. WellFormed(freeMap) /\ CoalescedRegions(freeMap) /\ size \in Nat
  BY DEF TrackerInv, TypeOK, RegionsInv
<1>3. \A q \in freeMap : ~q.reserved /\ q.end <= size
  BY <1>1 DEF TrackerInv, RegionsInv, HeldInv
<1>4. /\ a.start \in Nat /\ a.end \in Nat
      /\ from <= a.start /\ a.start + minimum <= a.end
      /\ a.end <= size \/ a.start = size
      /\ mine \in new
      /\ \A q \in new : q.reserved => q = mine
      /\ \A q \in new : ~q.reserved => q.end <= size
      /\ WellFormed(new) /\ CoalescedRegions(new)
      /\ \A u \in Nat : Covers(new, u) => Covers(freeMap, u) \/ size <= u
      /\ \A u \in Nat : Covers(freeMap, u) => Covers(new, u)
  BY <1>2, <1>3, ReserveLemma
<1> HIDE DEF a, new, mine
<1>5. /\ held' # NoHandle /\ held'.key = a.start /\ held'.start = a.start
      /\ held'.units = a.end - a.start /\ held'.from = from /\ held'.minimum = minimum
      /\ held'.units \in Nat /\ held'.start + held'.units = a.end
      /\ held' \in [key : Nat, start : Nat, units : Nat, from : Nat, minimum : Nat]
  <2>1. a.end - a.start \in Nat /\ a.start + (a.end - a.start) = a.end
    BY <1>4
  <2>2. held'.minimum # NoHandle.minimum
    BY <1>1 DEF NoHandle
  <2> QED BY <1>1, <1>4, <2>1, <2>2
<1>6. Mine' = mine
  BY <1>5 DEF Mine, mine
<1>7. TypeOK' /\ RegionsInv'
  BY <1>1, <1>4, <1>5 DEF TrackerInv, TypeOK, RegionsInv, WellFormed
<1>8. MediaInv'
  BY <1>1 DEF TrackerInv, MediaInv
<1>9. HeldInv'
  <2>1. held'.key = held'.start /\ held'.from <= held'.start
    BY <1>4, <1>5
  <2>2. held'.minimum <= held'.units /\ 1 <= held'.units
    BY <1>4, <1>5
  <2>3. held'.start + held'.units <= size' \/ held'.start = size'
    BY <1>1, <1>4, <1>5
  <2> QED BY <1>1, <1>4, <1>5, <1>6, <2>1, <2>2, <2>3 DEF HeldInv
<1>10. FlushInv'
  BY <1>1 DEF FlushInv, InArea
<1>11. FreeIsUnused'
  <2>1. ASSUME NEW q \in freeMap', NEW u \in used', In(u, q) PROVE FALSE
    <3>1. u \in used /\ u \in Nat /\ ~(size <= u)
      BY <1>1, <1>2 DEF TrackerInv, TypeOK, MediaInv
    <3>2. Covers(freeMap, u)
      BY <1>1, <1>4, <2>1, <3>1 DEF Covers
    <3> QED BY <3>1, <3>2 DEF Covers, TrackerInv, FreeIsUnused
  <2> QED BY <2>1 DEF FreeIsUnused
<1>12. NoLeak'
  <2>1. ASSUME NEW u \in 0 .. size - 1 PROVE u \in used \/ u >= scan \/ Covers(new, u)
    <3>1. u \in Nat
      BY <1>2
    <3> QED BY <1>4, <3>1 DEF TrackerInv, NoLeak, Covers
  <2> QED BY <1>1, <2>1 DEF NoLeak, Covers
<1> QED BY <1>7, <1>8, <1>9, <1>10, <1>11, <1>12 DEF TrackerInv

(* Saving a chunk at the front of the reservation and releasing the rest:  *)
(* ReleaseLemma says that the rest, and nothing of the chunk, is free.     *)
LEMMA CommitInv ==
  ASSUME TrackerInv, NEW c \in ChunkUnits, Commit(c)
  PROVE  TrackerInv'
<1>1. /\ held # NoHandle /\ c <= held.units /\ c \in Nat /\ 1 <= c
      /\ held.start \in Nat /\ held.units \in Nat /\ size \in Nat
  BY SizesLemma DEF Commit, TrackerInv, TypeOK
<1>2. PICK s \in Nat, e \in Nat, n \in Nat :
        s = held.start /\ e = s + c /\ n = held.units - c
  <2>1. held.start + c \in Nat /\ held.units - c \in Nat
    BY <1>1
  <2> QED BY <1>1, <2>1, Zenon
<1>3. PICK r \in freeMap : r = Mine
  BY <1>1 DEF TrackerInv, HeldInv
<1>4. /\ r \in Region /\ r.start = s /\ r.end = s + held.units /\ r.reserved
      /\ held.key = s /\ scan = size /\ ~flush.active
      /\ s + held.units <= size \/ s = size
      /\ \A q \in freeMap : q.reserved => q = r
  <2>1. held.key \in Nat /\ s + held.units \in Nat /\ held.key = s
    BY <1>1, <1>2 DEF TrackerInv, HeldInv
  <2>2. r \in Region /\ r.start = s /\ r.end = s + held.units /\ r.reserved
    <3>1. PICK k \in Nat : k = s + held.units
      BY <2>1
    <3>2. r = Entry(s, k, TRUE, TRUE)
      BY <1>2, <1>3, <2>1, <3>1 DEF Mine
    <3>3. r \in Region /\ r.start = s /\ r.end = k /\ r.reserved = TRUE
      BY <3>2, EntryLemma
    <3> QED BY <3>1, <3>3
  <2> QED BY <1>1, <1>2, <1>3, <2>1, <2>2 DEF TrackerInv, HeldInv
<1>5. PICK m \in Nat : m = size' /\ m = Higher(size, e)
  BY <1>1, <1>2 DEF Commit, Higher
<1>6. /\ scan' = m /\ size' = m /\ held' = NoHandle /\ UNCHANGED flush
      /\ used' = used \cup (s .. (e - 1)) /\ fills' = Unwritten(s, e)
      /\ freeMap' = Released(freeMap, m, [key |-> r.start, start |-> e, units |-> n])
  BY <1>1, <1>2, <1>4, <1>5, PlainForms DEF Commit, Units
<1>7. /\ size <= m /\ e <= m
      /\ r.end <= m \/ m <= e
      /\ \A u \in Nat : size <= u /\ u < m => s <= u /\ u < e
      /\ s < e /\ r.start <= e /\ e + n = r.end
  BY <1>1, <1>2, <1>4, <1>5 DEF Higher
<1>8. /\ WellFormed(freeMap') /\ CoalescedRegions(freeMap')
      /\ \A q : q.reserved => (q \in freeMap' <=> q \in freeMap \ {r})
      /\ \A q \in freeMap' : ~q.reserved => q.end <= m
      /\ \A u \in 0 .. m - 1 :
           Covers(freeMap', u) <=> Covers(freeMap \ {r}, u) \/ (e <= u /\ u < r.end)
      /\ \A u \in Nat : Covers(freeMap', u) => Covers(freeMap \ {r}, u) \/ (e <= u /\ u < r.end)
  <2>1. WellFormed(freeMap) /\ CoalescedRegions(freeMap)
    BY DEF TrackerInv, RegionsInv
  <2>2. ASSUME NEW q \in freeMap, ~q.reserved PROVE q.end <= m
    <3>1. q.end \in Nat /\ q.end <= size
      BY <1>4, <2>2 DEF TrackerInv, TypeOK, RegionsInv, Region
    <3> QED BY <1>1, <1>7, <3>1
  <2>3. r.start <= e /\ e + n = r.end /\ (r.end <= m \/ m <= e) /\ r.reserved
    BY <1>4, <1>7
  <2>4. freeMap' = Released(freeMap, m, [key |-> r.start, start |-> e, units |-> n])
    BY <1>6
  <2> QED BY <2>1, <2>2, <2>3, <2>4, ReleaseLemma
<1>9. \A u \in Nat : s <= u /\ u < e => ~Covers(freeMap \ {r}, u)
  <2>1. ASSUME NEW u \in Nat, s <= u, u < e, NEW q \in freeMap \ {r}, In(u, q) PROVE FALSE
    <3>1. Apart(q, r) /\ q.start \in Nat /\ q.end \in Nat
      BY DEF TrackerInv, RegionsInv, WellFormed, DisjointRegions, Region
    <3>2. e <= r.end /\ r.start = s /\ r.end \in Nat
      BY <1>1, <1>2, <1>4
    <3> QED BY <2>1, <3>1, <3>2 DEF Apart, In
  <2> QED BY <2>1 DEF Covers
<1>10. \A u \in used : u \in Nat /\ ~Covers(freeMap, u)
  BY DEF TrackerInv, TypeOK, FreeIsUnused, Covers
<1>11. RegionsInv'
  BY <1>6, <1>8 DEF RegionsInv
<1>12. TypeOK'
  <2>1. freeMap' \in SUBSET Region /\ NonEmpty(freeMap')
    BY <1>8 DEF WellFormed
  <2>2. used' \in SUBSET Nat /\ fills' \in SUBSET [start : Nat, end : Nat]
    BY <1>6 DEF TrackerInv, TypeOK, Unwritten
  <2> QED BY <1>6, <2>1, <2>2 DEF TrackerInv, TypeOK, NoHandle
<1>13. MediaInv'
  <2>1. HeaderUnits <= scan' /\ scan' <= size' /\ 0 .. HeaderUnits - 1 \subseteq used'
    BY <1>1, <1>4, <1>6, <1>7, SizesLemma DEF TrackerInv, MediaInv
  <2>2. used' \subseteq 0 .. size' - 1
    BY <1>1, <1>6, <1>7 DEF TrackerInv, MediaInv
  <2>3. ASSUME NEW f \in fills'
        PROVE  f.start < f.end /\ f.end <= size' /\ \A u \in used' : ~In(u, f)
    <3>1. f \in fills /\ (f.end <= s \/ e <= f.start) /\ f.start \in Nat /\ f.end \in Nat
      BY <1>6 DEF Unwritten, TrackerInv, TypeOK
    <3>2. f.start < f.end /\ f.end <= size /\ \A u \in used : ~In(u, f)
      BY <3>1 DEF TrackerInv, MediaInv
    <3>3. \A u \in s .. (e - 1) : ~In(u, f)
      BY <3>1 DEF In
    <3> QED BY <1>1, <1>6, <1>7, <3>1, <3>2, <3>3
  <2> QED BY <2>1, <2>2, <2>3 DEF MediaInv
<1>14. HeldInv' /\ FlushInv'
  <2>1. \A q \in freeMap' : ~q.reserved
    BY <1>4, <1>8
  <2> QED BY <1>4, <1>6, <2>1 DEF HeldInv, FlushInv, InArea
<1>15. FreeIsUnused'
  <2>1. ASSUME NEW u \in used', Covers(freeMap', u) PROVE FALSE
    <3>1. u \in Nat
      BY <1>12 DEF TypeOK
    <3>2. Covers(freeMap \ {r}, u) \/ (e <= u /\ u < r.end)
      BY <1>8, <2>1, <3>1
    <3>3. CASE u \in used
      <4>1. Covers(freeMap \ {r}, u) => Covers(freeMap, u)
        BY DEF Covers
      <4>2. e <= u /\ u < r.end => Covers(freeMap, u)
        BY <1>4, <1>7, <3>1 DEF Covers, In
      <4> QED BY <1>10, <3>2, <3>3, <4>1, <4>2
    <3>4. CASE u \notin used
      <4>1. s <= u /\ u < e
        BY <1>6, <2>1, <3>4
      <4> QED BY <1>9, <3>1, <3>2, <4>1
    <3> QED BY <3>3, <3>4
  <2> QED BY <2>1 DEF FreeIsUnused, Covers
<1>16. NoLeak'
  <2>1. ASSUME NEW u \in 0 .. m - 1, u \notin used' PROVE Covers(freeMap', u)
    <3>1. u \in Nat /\ ~(s <= u /\ u < e) /\ u \notin used
      BY <1>6, <2>1
    <3>2. u \in 0 .. size - 1 /\ ~(u >= scan)
      <4>1. u < size
        BY <1>1, <1>7, <2>1, <3>1
      <4> QED BY <1>1, <1>4, <3>1, <4>1
    <3>3. Covers(freeMap, u)
      BY <3>1, <3>2 DEF TrackerInv, NoLeak, Covers
    <3>4. In(u, r) => e <= u /\ u < r.end
      BY <1>4, <3>1 DEF In
    <3>5. Covers(freeMap \ {r}, u) \/ (e <= u /\ u < r.end)
      BY <3>3, <3>4 DEF Covers
    <3> QED BY <1>8, <2>1, <3>5
  <2> QED BY <1>6, <2>1 DEF NoLeak, Covers
<1> QED BY <1>11, <1>12, <1>13, <1>14, <1>15, <1>16 DEF TrackerInv

(* A reservation lies on the media or at its end, so without failing       *)
(* writes none is abandoned.                                               *)
LEMMA AbandonNever ==
  ASSUME TrackerInv, media = Working, NEW n \in Nat, Abandon(n)
  PROVE  FALSE
<1>1. held # NoHandle /\ held.start > size
  BY DEF Abandon, Working
<1>2. held.start \in Nat /\ held.units \in Nat /\ size \in Nat
  BY DEF TrackerInv, TypeOK
<1>3. held.start + held.units <= size \/ held.start = size
  BY <1>1 DEF TrackerInv, HeldInv
<1> QED BY <1>1, <1>2, <1>3

(* The area a flush is in ends on the media. *)
LEMMA AreaLemma ==
  ASSUME TrackerInv, InArea
  PROVE  /\ held = NoHandle /\ scan = size /\ flush.active
         /\ flush.start < flush.end /\ flush.end <= size
         /\ flush.start \in Nat /\ flush.end \in Nat /\ size \in Nat
<1>1. /\ flush.active /\ flush.start < flush.end /\ scan = size
      /\ flush.start \in Nat /\ flush.end \in Nat /\ size \in Nat
  BY DEF TrackerInv, TypeOK, FlushInv, InArea
<1>2. held = NoHandle
  BY <1>1 DEF TrackerInv, HeldInv
<1>3. PICK r \in freeMap : r.start <= flush.start /\ flush.end <= r.end
  BY DEF TrackerInv, FlushInv
<1>4. ~r.reserved /\ r.end <= size /\ r.end \in Nat
  BY <1>1, <1>2 DEF TrackerInv, TypeOK, RegionsInv, HeldInv, Region
<1> QED BY <1>1, <1>2, <1>3, <1>4

(* Entering the next dirty entry clears its flag and moves no region. *)
LEMMA FlushEntryInv ==
  ASSUME TrackerInv, FlushEntry
  PROVE  TrackerInv'
<1> DEFINE r == First(Ahead)
           d == [r EXCEPT !.dirty = FALSE]
<1>1. /\ flush.active /\ ~InArea /\ Ahead # {}
      /\ freeMap' = Flushed(freeMap, r)
      /\ flush' = [next |-> r.start + 1, start |-> r.start, end |-> r.end, active |-> TRUE]
      /\ UNCHANGED <<size, used, fills, held, scan>>
  BY DEF FlushEntry
<1>2. Ahead \subseteq Region /\ Ahead \subseteq freeMap
  BY DEF Ahead, TrackerInv, TypeOK
<1>3. r \in freeMap /\ r \in Region
  BY <1>1, <1>2, FirstLemma
<1> HIDE DEF r
<1>4. WellFormed(freeMap) /\ CoalescedRegions(freeMap)
  BY DEF TrackerInv, RegionsInv
<1>5. /\ WellFormed(Flushed(freeMap, r)) /\ CoalescedRegions(Flushed(freeMap, r))
      /\ d.start = r.start /\ d.end = r.end /\ d.reserved = r.reserved
      /\ d \in Flushed(freeMap, r)
      /\ \A q \in Flushed(freeMap, r) : q = d \/ q \in freeMap
      /\ \A u \in Nat : Covers(Flushed(freeMap, r), u) <=> Covers(freeMap, u)
  BY <1>3, <1>4, FlushedLemma DEF Flushed
<1> HIDE DEF d
<1>6. held = NoHandle /\ scan = size /\ \A q \in freeMap : ~q.reserved /\ q.end <= scan
  BY <1>1 DEF TrackerInv, RegionsInv, HeldInv, FlushInv
<1>7. \A q \in freeMap' : ~q.reserved /\ q.end <= scan
  BY <1>1, <1>3, <1>5, <1>6
<1>8. RegionsInv'
  BY <1>1, <1>5, <1>7 DEF RegionsInv
<1>9. TypeOK'
  <2>1. flush' \in [next : Nat, start : Nat, end : Nat, active : BOOLEAN]
    BY <1>1, <1>3 DEF Region
  <2> QED BY <1>1, <1>8, <2>1 DEF TrackerInv, TypeOK, RegionsInv, WellFormed
<1>10. MediaInv'
  BY <1>1 DEF TrackerInv, MediaInv
<1>11. HeldInv'
  BY <1>1, <1>6, <1>7 DEF HeldInv
<1>12. FlushInv'
  <2>1. r.start \in Nat /\ r.end \in Nat
    BY <1>3 DEF Region
  <2>2. d.start <= flush'.start /\ flush'.end <= d.end /\ d \in freeMap'
    BY <1>1, <1>5, <2>1
  <2> QED BY <1>1, <1>6, <2>2 DEF FlushInv
<1>13. FreeIsUnused'
  <2>1. ASSUME NEW u \in used PROVE ~Covers(freeMap', u)
    BY <1>1, <1>5 DEF TrackerInv, TypeOK, FreeIsUnused, Covers
  <2> QED BY <1>1, <2>1 DEF FreeIsUnused, Covers
<1>14. NoLeak'
  <2>1. ASSUME NEW u \in 0 .. size - 1 PROVE u \in used \/ u >= scan \/ Covers(freeMap', u)
    <3>1. u \in Nat
      BY DEF TrackerInv, TypeOK
    <3> QED BY <1>1, <1>5, <3>1 DEF TrackerInv, NoLeak, Covers
  <2> QED BY <1>1, <2>1 DEF NoLeak, Covers
<1> QED BY <1>8, <1>9, <1>10, <1>11, <1>12, <1>13, <1>14 DEF TrackerInv

(* Writing a fill chunk: it lies in a region, so it overwrites nothing     *)
(* that is live and does not lengthen the media.                           *)
LEMMA FlushChunkInv ==
  ASSUME TrackerInv, FlushChunk
  PROVE  TrackerInv'
<1>1. /\ held = NoHandle /\ scan = size /\ flush.active /\ InArea
      /\ flush.start < flush.end /\ flush.end <= size
      /\ flush.start \in Nat /\ flush.end \in Nat /\ size \in Nat
  BY AreaLemma DEF FlushChunk
<1>2. PICK n \in Nat : n = flush.end - flush.start /\ 1 <= n
  <2>1. flush.end - flush.start \in Nat /\ 1 <= flush.end - flush.start
    BY <1>1
  <2> QED BY <2>1
<1>3. PICK c \in Nat : c = Largest(n) /\ 1 <= c /\ c <= n
  BY <1>2, LargestLemma
<1>4. PICK s \in Nat, e \in Nat : s = flush.start /\ e = s + c
  <2>1. flush.start + c \in Nat
    BY <1>1
  <2> QED BY <1>1, <2>1, Zenon
<1>5. s < e /\ e <= flush.end /\ e <= size /\ Higher(size, e) = size
  BY <1>1, <1>2, <1>3, <1>4 DEF Higher
<1>6. /\ fills' = Unwritten(s, e) \cup {[start |-> s, end |-> e]}
      /\ size' = size /\ scan' = size /\ flush' = [flush EXCEPT !.start = e]
      /\ UNCHANGED <<freeMap, used, held>>
  <2>1. e = flush.start + Largest(flush.end - flush.start)
    BY <1>2, <1>3, <1>4
  <2> QED BY <1>4, <1>5, <2>1 DEF FlushChunk
<1>7. PICK r \in freeMap : r.start <= s /\ flush.end <= r.end
  BY <1>1, <1>4 DEF TrackerInv, FlushInv
<1>8. r.start \in Nat /\ r.end \in Nat
  BY DEF TrackerInv, TypeOK, Region
<1>9. \A u \in used : u \in Nat /\ ~(s <= u /\ u < e)
  BY <1>1, <1>5, <1>7, <1>8 DEF TrackerInv, TypeOK, FreeIsUnused, In
<1>10. /\ flush'.active = flush.active /\ flush'.start = e /\ flush'.end = flush.end
       /\ flush' \in [next : Nat, start : Nat, end : Nat, active : BOOLEAN]
  BY <1>6 DEF TrackerInv, TypeOK
<1>11. TypeOK'
  <2>1. fills' \in SUBSET [start : Nat, end : Nat]
    BY <1>6 DEF TrackerInv, TypeOK, Unwritten
  <2> QED BY <1>1, <1>6, <1>10, <2>1 DEF TrackerInv, TypeOK
<1>12. RegionsInv'
  BY <1>1, <1>6 DEF TrackerInv, RegionsInv
<1>13. MediaInv'
  <2>1. ASSUME NEW f \in fills'
        PROVE  f.start < f.end /\ f.end <= size /\ \A u \in used : ~In(u, f)
    <3>1. CASE f \in fills
      BY <3>1 DEF TrackerInv, MediaInv
    <3>2. CASE f = [start |-> s, end |-> e]
      <4>1. f.start = s /\ f.end = e
        BY <3>2
      <4> QED BY <1>5, <1>9, <4>1 DEF In
    <3> QED BY <1>6, <3>1, <3>2 DEF Unwritten
  <2> QED BY <1>1, <1>6, <2>1 DEF TrackerInv, MediaInv
<1>14. HeldInv'
  BY <1>1, <1>6 DEF TrackerInv, HeldInv
<1>15. FlushInv'
  <2>1. r.start <= flush'.start /\ flush'.end <= r.end /\ r \in freeMap'
    BY <1>5, <1>6, <1>7, <1>8, <1>10
  <2> QED BY <1>1, <1>6, <2>1 DEF FlushInv
<1>16. FreeIsUnused' /\ NoLeak'
  BY <1>1, <1>6 DEF TrackerInv, FreeIsUnused, NoLeak
<1> QED BY <1>11, <1>12, <1>13, <1>14, <1>15, <1>16 DEF TrackerInv

(* Beginning and ending a flush touch nothing else. *)
LEMMA FlushBorderInv ==
  ASSUME TrackerInv, FlushBegin \/ FlushEnd
  PROVE  TrackerInv'
<1>1. /\ scan = size /\ held = NoHandle
      /\ UNCHANGED <<freeMap, size, used, fills, held, scan>>
      /\ flush' \in {NoFlush, [NoFlush EXCEPT !.active = TRUE]}
  BY DEF FlushBegin, FlushEnd, Idle, TrackerInv, FlushInv, HeldInv
<1>2. /\ flush' \in [next : Nat, start : Nat, end : Nat, active : BOOLEAN]
      /\ flush'.start = 0 /\ flush'.end = 0
  <2>1. CASE flush' = NoFlush
    BY <2>1 DEF NoFlush
  <2>2. CASE flush' = [NoFlush EXCEPT !.active = TRUE]
    <3>1. flush' = [next |-> 0, start |-> 0, end |-> 0, active |-> TRUE]
      BY <2>2 DEF NoFlush
    <3> QED BY <3>1
  <2> QED BY <1>1, <2>1, <2>2
<1>3. TypeOK' /\ RegionsInv'
  BY <1>1, <1>2 DEF TrackerInv, TypeOK, RegionsInv
<1>4. MediaInv' /\ HeldInv'
  BY <1>1 DEF TrackerInv, MediaInv, HeldInv
<1>5. FlushInv'
  BY <1>1, <1>2 DEF FlushInv, InArea
<1>6. FreeIsUnused' /\ NoLeak'
  BY <1>1 DEF TrackerInv, FreeIsUnused, NoLeak
<1> QED BY <1>3, <1>4, <1>5, <1>6 DEF TrackerInv

(* Areas lie on the media, so without truncation and failing writes no     *)
(* flush truncates and none stops early.                                   *)
LEMMA FlushStops ==
  ASSUME TrackerInv, media = Working, FlushTruncate \/ \E n \in 0 .. MaxUnits : FlushFails(n)
  PROVE  FALSE
<1>1. InArea /\ (Truncates \/ flush.start > size)
  BY DEF FlushTruncate, FlushFails, AreaRefused, FillTorn, Working
<1>2. ~Truncates
  BY DEF Truncates, Working
<1> QED BY <1>1, <1>2, AreaLemma

(* Reopening forgets the map; the scan has found nothing yet but the file  *)
(* header chunk.                                                           *)
LEMMA ReopenInv ==
  ASSUME TrackerInv, Reopen
  PROVE  TrackerInv'
<1>1. /\ held = NoHandle /\ ~flush.active /\ freeMap' = {} /\ scan' = HeaderUnits
      /\ HeaderUnits < size /\ UNCHANGED <<size, used, fills, held, flush>>
  BY DEF Reopen, Idle
<1>2. TypeOK' /\ RegionsInv' /\ MediaInv'
  BY <1>1, SizesLemma
  DEF TrackerInv, TypeOK, RegionsInv, MediaInv, NonEmpty, WellFormed, DisjointRegions,
      CoalescedRegions
<1>3. HeldInv' /\ FlushInv' /\ FreeIsUnused'
  BY <1>1 DEF HeldInv, FlushInv, InArea, FreeIsUnused
<1>4. NoLeak'
  BY <1>1, SizesLemma DEF TrackerInv, TypeOK, MediaInv, NoLeak
<1> QED BY <1>2, <1>3, <1>4 DEF TrackerInv

(* A scan of a fill chunk: every region found so far lies before it. *)
LEMMA ScanFillInv ==
  ASSUME TrackerInv, ScanFill
  PROVE  TrackerInv'
<1>1. PICK f \in fills :
        /\ scan < size /\ f.start = scan /\ scan' = f.end
        /\ NewFreeArea(f.start, f.end - f.start, FALSE)
        /\ UNCHANGED <<size, used, fills, held, flush>>
  BY DEF ScanFill
<1>2. PICK s \in Nat, e \in Nat : s = f.start /\ e = f.end
  BY DEF TrackerInv, TypeOK
<1>3. /\ s < e /\ e <= size /\ \A u \in used : u \in Nat /\ ~(s <= u /\ u < e)
      /\ size \in Nat /\ scan = s /\ HeaderUnits <= s /\ s + (e - s) = e
  BY <1>1, <1>2 DEF TrackerInv, TypeOK, MediaInv, In
<1> DEFINE r == Entry(s, e, FALSE, FALSE)
<1>4. freeMap' = Coalesce(freeMap, r)
  BY <1>1, <1>2, <1>3, ScanFillForm
<1>5. r \in Region /\ r.start = s /\ r.end = e /\ ~r.reserved
  BY EntryLemma
<1> HIDE DEF r
<1>6. held = NoHandle /\ ~flush.active /\ \A q \in freeMap : ~q.reserved /\ q.end <= s
  BY <1>1, <1>3 DEF TrackerInv, RegionsInv, HeldInv, FlushInv
<1>7. r.start < r.end /\ \A q \in freeMap : Apart(q, r)
  BY <1>3, <1>5, <1>6 DEF Apart
<1>8. WellFormed(freeMap) /\ CoalescedRegions(freeMap)
  BY DEF TrackerInv, RegionsInv
<1>9. /\ WellFormed(Coalesce(freeMap, r)) /\ CoalescedRegions(Coalesce(freeMap, r))
      /\ \A u \in Nat : Covers(Coalesce(freeMap, r), u) <=> In(u, r) \/ Covers(freeMap, u)
      /\ \A q : q.reserved => (q \in Coalesce(freeMap, r) <=> q \in freeMap)
      /\ \A b \in Nat : (r.end <= b /\ \A q \in freeMap : ~q.reserved => q.end <= b)
                          => \A q \in Coalesce(freeMap, r) : ~q.reserved => q.end <= b
  BY <1>5, <1>7, <1>8, CoalesceLemma
<1>10. \A q \in freeMap : q.end \in Nat
  BY <1>8 DEF WellFormed, Region
<1>11. \A q \in freeMap' : ~q.reserved /\ q.end <= e
  <2>1. \A q \in freeMap : q.end <= e
    BY <1>3, <1>6, <1>10
  <2>2. \A q \in freeMap' : ~q.reserved
    BY <1>4, <1>6, <1>9
  <2>3. r.end <= e
    BY <1>5
  <2> QED BY <1>4, <1>9, <2>1, <2>2, <2>3
<1>12. \A u \in Nat : Covers(freeMap', u) <=> (s <= u /\ u < e) \/ Covers(freeMap, u)
  BY <1>4, <1>5, <1>9 DEF In
<1>13. RegionsInv'
  BY <1>1, <1>2, <1>4, <1>9, <1>11 DEF RegionsInv
<1>14. TypeOK'
  BY <1>1, <1>2, <1>13 DEF TrackerInv, TypeOK, RegionsInv, WellFormed
<1>15. MediaInv'
  BY <1>1, <1>2, <1>3, SizesLemma DEF TrackerInv, MediaInv
<1>16. HeldInv' /\ FlushInv'
  BY <1>1, <1>6, <1>11 DEF HeldInv, FlushInv, InArea
<1>17. FreeIsUnused'
  <2>1. ASSUME NEW u \in used PROVE ~Covers(freeMap', u)
    BY <1>3, <1>12 DEF TrackerInv, FreeIsUnused, Covers
  <2> QED BY <1>1, <2>1 DEF FreeIsUnused, Covers
<1>18. NoLeak'
  <2>1. ASSUME NEW u \in 0 .. size - 1 PROVE u \in used \/ u >= e \/ Covers(freeMap', u)
    <3>1. u \in Nat
      BY <1>3
    <3>2. u \in used \/ u >= s \/ Covers(freeMap, u)
      BY <1>3 DEF TrackerInv, NoLeak, Covers
    <3> QED BY <1>12, <3>1, <3>2
  <2> QED BY <1>1, <1>2, <2>1 DEF NoLeak, Covers
<1> QED BY <1>13, <1>14, <1>15, <1>16, <1>17, <1>18 DEF TrackerInv

(* A scan of a live unit changes no region. *)
LEMMA ScanLiveInv ==
  ASSUME TrackerInv, ScanLive
  PROVE  TrackerInv'
<1>1. /\ scan < size /\ scan \in used /\ scan' = scan + 1
      /\ UNCHANGED <<freeMap, size, used, fills, held, flush>>
      /\ scan \in Nat /\ size \in Nat
  BY DEF ScanLive, TrackerInv, TypeOK
<1>2. TypeOK'
  BY <1>1 DEF TrackerInv, TypeOK
<1>3. RegionsInv'
  BY <1>1 DEF TrackerInv, TypeOK, RegionsInv, Region
<1>4. MediaInv'
  BY <1>1, SizesLemma DEF TrackerInv, MediaInv
<1>5. HeldInv' /\ FlushInv'
  <2>1. held = NoHandle /\ ~flush.active
    BY <1>1 DEF TrackerInv, HeldInv, FlushInv
  <2>2. \A r \in freeMap : ~r.reserved
    BY <2>1 DEF TrackerInv, HeldInv
  <2> QED BY <1>1, <2>1, <2>2 DEF HeldInv, FlushInv, InArea
<1>6. FreeIsUnused' /\ NoLeak'
  BY <1>1 DEF TrackerInv, FreeIsUnused, NoLeak
<1> QED BY <1>2, <1>3, <1>4, <1>5, <1>6 DEF TrackerInv

------------------------------------------------------------------------------
(* The media stays what it is. *)
LEMMA KindStays == [Next]_trackerVars => UNCHANGED media
  BY DEF Next, NewFree, Reserve, Commit, Abandon, FlushBegin, FlushStep, FlushEntry, FlushChunk,
         FlushTruncate, FlushFails, FlushEnd, Reopen, ScanStep, ScanFill, ScanLive, trackerVars

(* Every step keeps the invariant. *)
LEMMA NextInv ==
  ASSUME media = Working, TrackerInv, Next
  PROVE  TrackerInv'
<1>1. size \in Nat
  BY DEF TrackerInv, TypeOK
<1>2. CASE \E s, n \in 0 .. size : NewFree(s, n)
  BY <1>1, <1>2, NewFreeInv
<1>3. CASE Reserve(0, StartUnits, StartUnits)
  BY <1>1, <1>3, SizesLemma, ReserveInv
<1>4. CASE \E from \in 0 .. size : Reserve(from, 1, MaxUnits)
  <2>1. PICK from \in 0 .. size : Reserve(from, 1, MaxUnits)
    BY <1>4
  <2>2. from \in Nat /\ from <= size
    BY <1>1
  <2> QED BY <2>1, <2>2, SizesLemma, ReserveInv
<1>5. CASE \E c \in ChunkUnits : Commit(c)
  BY <1>5, CommitInv
<1>6. CASE \E n \in 0 .. MaxUnits : Abandon(n)
  <2>1. PICK n \in Nat : Abandon(n)
    BY <1>6, SizesLemma
  <2> QED BY <2>1, AbandonNever
<1>7. CASE FlushBegin \/ FlushEnd
  BY <1>7, FlushBorderInv
<1>8. CASE FlushEntry
  BY <1>8, FlushEntryInv
<1>9. CASE FlushChunk
  BY <1>9, FlushChunkInv
<1>10. CASE FlushTruncate \/ \E n \in 0 .. MaxUnits : FlushFails(n)
  BY <1>10, FlushStops
<1>11. CASE Reopen
  BY <1>11, ReopenInv
<1>12. CASE ScanFill
  BY <1>12, ScanFillInv
<1>13. CASE ScanLive
  BY <1>13, ScanLiveInv
<1> QED BY <1>2, <1>3, <1>4, <1>5, <1>6, <1>7, <1>8, <1>9, <1>10, <1>11, <1>12, <1>13
        DEF Next, FlushStep, ScanStep

(* The invariant holds in every state of a container that neither          *)
(* truncates nor fails.                                                    *)
THEOREM TrackerInvariant ==
  ASSUME MediaKinds = {Working}
  PROVE  Spec => []TrackerInv
<1> DEFINE Kept == TrackerInv /\ media = Working
<1>1. Init => Kept
  BY InitInv DEF Init
<1>2. Kept /\ [Next]_trackerVars => Kept'
  BY NextInv, StutterInv, KindStays
<1>3. Kept => TrackerInv
  OBVIOUS
<1> HIDE DEF Kept
<1> QED BY <1>1, <1>2, <1>3, PTL DEF Spec

(* Every variable keeps its type. *)
THEOREM TypeCorrect ==
  ASSUME MediaKinds = {Working}
  PROVE  Spec => []TypeOK
<1>1. TrackerInv => TypeOK
  BY DEF TrackerInv
<1> QED BY <1>1, TrackerInvariant, PTL

(* Regions never overlap: no index is handed out twice. *)
THEOREM RegionsDisjoint ==
  ASSUME MediaKinds = {Working}
  PROVE  Spec => []Disjoint
<1>1. TrackerInv => Disjoint
  BY DEF TrackerInv, RegionsInv, WellFormed, Disjoint
<1> QED BY <1>1, TrackerInvariant, PTL

(* No region, so no reservation and no flush, reaches a live chunk. *)
THEOREM LiveChunksAreSafe ==
  ASSUME MediaKinds = {Working}
  PROVE  Spec => []FreeIsUnused
<1>1. TrackerInv => FreeIsUnused
  BY DEF TrackerInv
<1> QED BY <1>1, TrackerInvariant, PTL

(* Free regions that touch are always merged. *)
THEOREM RegionsCoalesced ==
  ASSUME MediaKinds = {Working}
  PROVE  Spec => []Coalesced
<1>1. TrackerInv => Coalesced
  BY DEF TrackerInv, RegionsInv, Coalesced
<1> QED BY <1>1, TrackerInvariant, PTL

(* No unit of the media is lost: it is live, or in a region, or not        *)
(* scanned yet.                                                            *)
THEOREM NothingLeaks ==
  ASSUME MediaKinds = {Working}
  PROVE  Spec => []NoLeak
<1>1. TrackerInv => NoLeak
  BY DEF TrackerInv
<1> QED BY <1>1, TrackerInvariant, PTL

(* A reservation is where it was asked for, has the room that was asked    *)
(* for, leaves no gap to the end of the media and has its entry.           *)
THEOREM ReservationsServe ==
  ASSUME MediaKinds = {Working}
  PROVE  Spec => []ReservationServes
<1>1. ASSUME TrackerInv, held # NoHandle
      PROVE  /\ held.start >= held.from /\ held.units >= held.minimum
             /\ held.start <= size /\ Mine \in freeMap
  <2>1. /\ held.start \in Nat /\ held.units \in Nat /\ size \in Nat
        /\ held.from \in Nat /\ held.minimum \in Nat
    BY <1>1 DEF TrackerInv, TypeOK
  <2>2. /\ Mine \in freeMap /\ held.from <= held.start /\ held.minimum <= held.units
        /\ held.start + held.units <= size \/ held.start = size
    BY <1>1 DEF TrackerInv, HeldInv
  <2> QED BY <2>1, <2>2
<1>2. TrackerInv => ReservationServes
  BY <1>1 DEF ReservationServes, Mine
<1> QED BY <1>2, TrackerInvariant, PTL

(* A reservation never outlives the operation that made it. *)
THEOREM ReservationsReleased ==
  ASSUME MediaKinds = {Working}
  PROVE  Spec => []EveryReservationReleased
<1>1. TrackerInv => EveryReservationReleased
  BY DEF TrackerInv, HeldInv, EveryReservationReleased, Idle
<1> QED BY <1>1, TrackerInvariant, PTL
------------------------------------------------------------------------------
(***************************************************************************)
(* CleanIsShown: what is not dirty in the free map can be read off the     *)
(* media.  It is inductive together with TrackerInv once it also says how  *)
(* far the area of a flush in progress has come.                           *)
(***************************************************************************)

(* Fill chunks show the units of r up to e, and reach neither before r nor *)
(* past e.                                                                 *)
ShownUpTo(r, e) ==
  \A u \in r.start .. (e - 1) : \E f \in fills : In(u, f) /\ r.start <= f.start /\ f.end <= e

ShownInv ==
  /\ \A r \in freeMap : (~r.dirty /\ ~BeingFlushed(r)) => ShownUpTo(r, r.end)
  /\ InArea => \E r \in freeMap : /\ r.start <= flush.start /\ flush.end = r.end
                                  /\ ShownUpTo(r, flush.start)

------------------------------------------------------------------------------
(* The steps outside a flush make no clean region and destroy no fill      *)
(* chunk of one.                                                           *)
LEMMA OutsideShown ==
  ASSUME TrackerInv, ShownInv, ~InArea, ~InArea',
         \A q \in freeMap' : q \in freeMap \/ q.dirty,
         \A q \in freeMap' : ~q.dirty => \A f \in fills : q.start <= f.start /\ f.end <= q.end => f \in fills'
  PROVE  ShownInv'
<1>1. ASSUME NEW q \in freeMap', ~q.dirty PROVE ShownUpTo(q, q.end)'
  <2>1. q \in freeMap /\ ~BeingFlushed(q)
    BY <1>1 DEF BeingFlushed
  <2>2. ShownUpTo(q, q.end)
    BY <1>1, <2>1 DEF ShownInv
  <2> QED BY <1>1, <2>2 DEF ShownUpTo
<1> QED BY <1>1 DEF ShownInv

(* A region that is freed is dirty, and so is what it joins.               *)
LEMMA NewFreeShown ==
  ASSUME TrackerInv, ShownInv, NEW s \in Nat, NEW n \in Nat, NewFree(s, n)
  PROVE  ShownInv'
<1> DEFINE r == Entry(s, s + n, FALSE, TRUE)
<1>1. /\ ~flush.active /\ freeMap' = Coalesce(freeMap, r) /\ 0 < n
      /\ \A u \in s .. (s + n - 1) : u \in used
      /\ UNCHANGED <<fills, flush>>
  <2>1. Idle /\ UNCHANGED <<fills, flush>>
    BY Zenon DEF NewFree
  <2> QED BY <2>1, NewFreeForm DEF Idle
<1>2. r \in Region /\ r.start = s /\ r.end = s + n /\ r.dirty = TRUE
  <2>1. s + n \in Nat
    OBVIOUS
  <2> QED BY <2>1, EntryLemma
<1> HIDE DEF r
<1>3. WellFormed(freeMap) /\ r.start < r.end
  BY <1>1, <1>2 DEF TrackerInv, RegionsInv
<1>4. \A q \in freeMap' : q \in freeMap \/ q.dirty
  BY <1>1, <1>2, <1>3, JoinedLemma
<1> QED BY <1>1, <1>4, OutsideShown DEF InArea

(* Whatever a request is cut out of is dirty.                              *)
LEMMA ReserveShown ==
  ASSUME TrackerInv, ShownInv, NEW from, NEW minimum, NEW desired,
         Reserve(from, minimum, desired)
  PROVE  ShownInv'
<1>1. /\ ~flush.active /\ freeMap' = Reserved(freeMap, size, from, minimum, desired)
      /\ UNCHANGED <<fills, flush>>
  BY PlainForms DEF Reserve, Idle
<1>2. \A q \in freeMap' : q \in freeMap \/ q.dirty
  BY <1>1, ReservedIsDirty
<1> QED BY <1>1, <1>2, OutsideShown DEF InArea

(* The chunk that is saved lies in the reservation, apart from all others. *)
LEMMA CommitShown ==
  ASSUME TrackerInv, ShownInv, NEW c \in ChunkUnits, Commit(c)
  PROVE  ShownInv'
<1>1. /\ held # NoHandle /\ c <= held.units /\ c \in Nat
      /\ held.start \in Nat /\ held.units \in Nat /\ held.key = held.start
      /\ ~flush.active /\ Mine \in freeMap
  BY SizesLemma DEF Commit, TrackerInv, TypeOK, HeldInv
<1>2. PICK s \in Nat, e \in Nat, t \in Nat :
        s = held.start /\ e = held.start + c /\ t = held.start + held.units /\ e <= t
  <2>1. /\ held.start + c \in Nat /\ held.start + held.units \in Nat
        /\ held.start + c <= held.start + held.units
    BY <1>1
  <2> QED BY <1>1, <2>1, Zenon
<1>3. Mine = Entry(s, t, TRUE, TRUE)
  BY <1>1, <1>2 DEF Mine
<1>4. Mine \in Region /\ Mine.start = s /\ Mine.end = t /\ Mine.reserved = TRUE
  BY <1>3, EntryLemma
<1> HIDE DEF Mine
<1>5. PICK m, h : /\ freeMap' = Released(freeMap, m, h) /\ h.key = s
                  /\ fills' = Unwritten(s, e) /\ UNCHANGED flush
  BY <1>1, <1>2, PlainForms DEF Commit
<1>6. EntryOf(freeMap, h) = Mine
  <2>1. \A q \in freeMap : q.start = s => q = Mine
    BY <1>1, <1>4 DEF TrackerInv, RegionsInv, WellFormed, NonEmpty, DisjointRegions, Apart, Region
  <2> QED BY <1>1, <1>4, <1>5, <2>1 DEF EntryOf
<1>7. \A q \in freeMap' : q.dirty \/ (q \in freeMap /\ q # Mine)
  BY <1>5, <1>6, ReleasedIsDirty
<1>8. ASSUME NEW q \in freeMap', ~q.dirty, NEW f \in fills, q.start <= f.start, f.end <= q.end
      PROVE  f \in fills'
  <2>1. q \in freeMap /\ q # Mine
    BY <1>7, <1>8
  <2>2. q.end <= s \/ t <= q.start
    BY <1>1, <1>4, <2>1 DEF TrackerInv, RegionsInv, WellFormed, DisjointRegions, Apart
  <2>3. f.start \in Nat /\ f.end \in Nat /\ q.start \in Nat /\ q.end \in Nat
    BY <2>1 DEF TrackerInv, TypeOK, Region
  <2> QED BY <1>2, <1>5, <1>8, <2>2, <2>3 DEF Unwritten
<1> QED BY <1>1, <1>5, <1>7, <1>8, OutsideShown DEF InArea

------------------------------------------------------------------------------
(* Entering an entry: nothing of its area is shown yet, and it is the      *)
(* region being flushed.                                                   *)
LEMMA FlushEntryShown ==
  ASSUME TrackerInv, ShownInv, FlushEntry
  PROVE  ShownInv'
<1>1. /\ ~InArea /\ Ahead # {} /\ UNCHANGED fills
      /\ Ahead \subseteq Region /\ Ahead \subseteq freeMap
  BY DEF FlushEntry, Ahead, TrackerInv, TypeOK
<1>2. First(Ahead) \in freeMap /\ First(Ahead) \in Region
  BY <1>1, FirstLemma
<1>3. PICK r \in freeMap :
        /\ r \in Region /\ freeMap' = Flushed(freeMap, r)
        /\ flush' = [next |-> r.start + 1, start |-> r.start, end |-> r.end, active |-> TRUE]
  BY <1>2 DEF FlushEntry
<1> DEFINE d == [r EXCEPT !.dirty = FALSE]
<1>4. r.start \in Nat /\ r.end \in Nat /\ r.start < r.end
  BY <1>3 DEF TrackerInv, TypeOK, NonEmpty, Region
<1>5. d.start = r.start /\ d.end = r.end /\ d \in freeMap'
  BY <1>3 DEF Region, Flushed
<1>6. \A q \in freeMap' : q = d \/ q \in freeMap
  BY <1>3 DEF Flushed
<1> HIDE DEF d
<1>7. flush'.start = r.start /\ flush'.end = r.end /\ InArea'
  BY <1>3, <1>4 DEF InArea
<1>8. BeingFlushed(d)'
  BY <1>4, <1>5, <1>7 DEF BeingFlushed
<1>9. ASSUME NEW q \in freeMap', ~q.dirty, ~BeingFlushed(q)' PROVE ShownUpTo(q, q.end)'
  <2>1. q \in freeMap /\ ~BeingFlushed(q)
    BY <1>1, <1>6, <1>8, <1>9 DEF BeingFlushed
  <2>2. ShownUpTo(q, q.end)
    BY <1>9, <2>1 DEF ShownInv
  <2> QED BY <1>1, <2>2 DEF ShownUpTo
<1>10. d.start <= flush'.start /\ flush'.end = d.end /\ ShownUpTo(d, flush.start)'
  <2>1. \A u \in d.start .. (flush'.start - 1) : FALSE
    BY <1>4, <1>5, <1>7
  <2> QED BY <1>4, <1>5, <1>7, <2>1 DEF ShownUpTo
<1> QED BY <1>5, <1>9, <1>10 DEF ShownInv

(* A fill chunk written: it continues the row of those before it, and      *)
(* touches no other region.                                                *)
LEMMA FlushChunkShown ==
  ASSUME TrackerInv, ShownInv, FlushChunk
  PROVE  ShownInv'
<1>1. /\ InArea /\ flush.start < flush.end /\ flush.start \in Nat /\ flush.end \in Nat
  BY AreaLemma DEF FlushChunk
<1>2. PICK n \in Nat : n = flush.end - flush.start /\ 1 <= n
  <2>1. flush.end - flush.start \in Nat /\ 1 <= flush.end - flush.start
    BY <1>1
  <2> QED BY <2>1
<1>3. PICK c \in Nat : c = Largest(n) /\ 1 <= c /\ c <= n
  BY <1>2, LargestLemma
<1>4. PICK s \in Nat, e \in Nat, t \in Nat :
        s = flush.start /\ e = s + c /\ t = flush.end /\ s < e /\ e <= t
  <2>1. flush.start + c \in Nat /\ flush.start < flush.start + c /\ flush.start + c <= flush.end
    BY <1>1, <1>2, <1>3
  <2> QED BY <1>1, <2>1, Zenon
<1>5. /\ fills' = Unwritten(s, e) \cup {[start |-> s, end |-> e]}
      /\ flush' = [flush EXCEPT !.start = e] /\ UNCHANGED freeMap
  <2>1. e = flush.start + Largest(flush.end - flush.start)
    BY <1>2, <1>3, <1>4
  <2> QED BY <1>4, <2>1 DEF FlushChunk
<1>6. flush'.active = flush.active /\ flush'.start = e /\ flush'.end = t
  BY <1>4, <1>5 DEF TrackerInv, TypeOK
<1>7. PICK r \in freeMap : r.start <= s /\ t = r.end /\ ShownUpTo(r, s)
  BY <1>1, <1>4 DEF ShownInv
<1>8. r.start \in Nat /\ r.end \in Nat
  BY DEF TrackerInv, TypeOK, Region
<1>9. ShownUpTo(r, e)'
  <2>1. ASSUME NEW u \in r.start .. (e - 1)
        PROVE  \E f \in fills' : In(u, f) /\ r.start <= f.start /\ f.end <= e
    <3>1. CASE u < s
      <4>1. u \in r.start .. (s - 1)
        BY <1>4, <1>8, <3>1
      <4>2. PICK f \in fills : In(u, f) /\ r.start <= f.start /\ f.end <= s
        BY <1>7, <4>1 DEF ShownUpTo
      <4>3. f.end \in Nat /\ f \in fills'
        BY <1>5, <4>2 DEF TrackerInv, TypeOK, Unwritten
      <4> QED BY <1>4, <4>2, <4>3
    <3>2. CASE ~(u < s)
      <4> DEFINE f == [start |-> s, end |-> e]
      <4>1. f \in fills' /\ f.start = s /\ f.end = e
        BY <1>5
      <4> HIDE DEF f
      <4>2. In(u, f) /\ r.start <= f.start /\ f.end <= e
        BY <1>4, <1>7, <1>8, <3>2, <4>1 DEF In
      <4> QED BY <4>1, <4>2
    <3> QED BY <3>1, <3>2
  <2> QED BY <2>1 DEF ShownUpTo
<1>10. ASSUME NEW q \in freeMap, ~q.dirty, ~BeingFlushed(q)' PROVE ShownUpTo(q, q.end)'
  <2>1. CASE q = r
    <3>1. e = t
      BY <1>4, <1>6, <1>7, <1>8, <1>1, <1>10, <2>1 DEF BeingFlushed, InArea
    <3> QED BY <1>7, <1>9, <2>1, <3>1
  <2>2. CASE q # r
    <3>1. (q.end <= r.start \/ r.end <= q.start) /\ q.start \in Nat /\ q.end \in Nat
      BY <2>2 DEF TrackerInv, TypeOK, RegionsInv, WellFormed, DisjointRegions, Apart, Region
    <3>2. ~BeingFlushed(q)
      BY <1>4, <1>7, <1>8, <3>1 DEF BeingFlushed
    <3>3. ShownUpTo(q, q.end)
      BY <1>10, <3>2 DEF ShownInv
    <3>4. ASSUME NEW f \in fills, q.start <= f.start, f.end <= q.end PROVE f \in fills'
      <4>1. f.start \in Nat /\ f.end \in Nat
        BY DEF TrackerInv, TypeOK
      <4> QED BY <1>4, <1>5, <1>7, <1>8, <3>1, <3>4, <4>1 DEF Unwritten
    <3> QED BY <3>3, <3>4 DEF ShownUpTo
  <2> QED BY <2>1, <2>2
<1>11. r.start <= flush'.start /\ flush'.end = r.end /\ ShownUpTo(r, flush.start)'
  <2>1. r.start <= e
    BY <1>4, <1>7, <1>8
  <2> QED BY <1>6, <1>7, <1>9, <2>1 DEF ShownUpTo
<1> QED BY <1>5, <1>10, <1>11 DEF ShownInv

------------------------------------------------------------------------------
(* Whatever leaves the map and the fill chunks alone, outside an area.     *)
LEMMA SameShown ==
  ASSUME ShownInv, ~InArea, ~InArea', UNCHANGED <<freeMap, fills>>
  PROVE  ShownInv'
BY DEF ShownInv, BeingFlushed, ShownUpTo

(* A fill chunk found by a scan: the region it gives or joins is shown by  *)
(* it and by the chunks of the regions it joins.                           *)
LEMMA ScanFillShown ==
  ASSUME TrackerInv, ShownInv, ScanFill
  PROVE  ShownInv'
<1>1. PICK f \in fills :
        /\ scan < size /\ f.start = scan
        /\ NewFreeArea(f.start, f.end - f.start, FALSE)
        /\ UNCHANGED <<fills, flush>>
  BY DEF ScanFill
<1>2. PICK s \in Nat, e \in Nat : s = f.start /\ e = f.end
  BY DEF TrackerInv, TypeOK
<1>3. s < e /\ s + (e - s) = e /\ size \in Nat /\ scan = s
  BY <1>1, <1>2 DEF TrackerInv, TypeOK, MediaInv
<1> DEFINE r == Entry(s, e, FALSE, FALSE)
<1>4. freeMap' = Coalesce(freeMap, r)
  BY <1>1, <1>2, <1>3, ScanFillForm
<1>5. r \in Region /\ r.start = s /\ r.end = e
  BY EntryLemma
<1> HIDE DEF r
<1>6. ~InArea /\ ~InArea' /\ WellFormed(freeMap) /\ r.start < r.end
  BY <1>1, <1>3, <1>5 DEF InArea, TrackerInv, FlushInv, RegionsInv
<1>7. ASSUME NEW q \in freeMap', ~q.dirty PROVE ShownUpTo(q, q.end)'
  <2>1. CASE q \in freeMap
    BY <1>1, <1>6, <1>7, <2>1 DEF ShownInv, BeingFlushed, ShownUpTo
  <2>2. CASE q \notin freeMap
    <3>1. /\ q.start <= r.start /\ r.end <= q.end
          /\ \A u \in q.start .. (q.end - 1) :
               \/ In(u, r)
               \/ \E p \in freeMap : /\ In(u, p) /\ (p.dirty => q.dirty)
                                     /\ q.start <= p.start /\ p.end <= q.end
      BY <1>4, <1>5, <1>6, <2>2, JoinedLemma
    <3>2. ASSUME NEW u \in q.start .. (q.end - 1)
          PROVE  \E g \in fills : In(u, g) /\ q.start <= g.start /\ g.end <= q.end
      <4>1. CASE In(u, r)
        BY <1>2, <1>5, <3>1, <4>1 DEF In
      <4>2. CASE ~In(u, r)
        <5>1. PICK p \in freeMap : /\ In(u, p) /\ ~p.dirty
                                   /\ q.start <= p.start /\ p.end <= q.end
          BY <1>7, <3>1, <4>2
        <5>2. ShownUpTo(p, p.end) /\ p.start \in Nat /\ p.end \in Nat
          BY <1>6, <5>1 DEF ShownInv, BeingFlushed, TrackerInv, TypeOK, Region
        <5>3. q \in Region
          <6>1. \A x \in freeMap : Apart(x, r)
            <7>1. \A x \in freeMap : x.end <= s
              BY <1>1, <1>3 DEF TrackerInv, RegionsInv, HeldInv
            <7> QED BY <1>5, <7>1 DEF Apart
          <6>2. WellFormed(Coalesce(freeMap, r))
            BY <1>5, <1>6, <6>1, CoalesceLemma DEF TrackerInv, RegionsInv
          <6> QED BY <1>4, <6>2 DEF WellFormed
        <5>4. u \in p.start .. (p.end - 1)
          BY <5>1, <5>2, <5>3 DEF In, Region
        <5>5. PICK g \in fills : In(u, g) /\ p.start <= g.start /\ g.end <= p.end
          BY <5>2, <5>4 DEF ShownUpTo
        <5>6. g.start \in Nat /\ g.end \in Nat /\ q.start \in Nat /\ q.end \in Nat
          BY <5>3 DEF TrackerInv, TypeOK, Region
        <5> QED BY <5>1, <5>2, <5>5, <5>6
      <4> QED BY <4>1, <4>2
    <3> QED BY <1>1, <3>2 DEF ShownUpTo
  <2> QED BY <2>1, <2>2
<1> QED BY <1>6, <1>7 DEF ShownInv

------------------------------------------------------------------------------
(* Every step keeps what is clean shown.                                   *)
LEMMA NextShown ==
  ASSUME media = Working, TrackerInv, ShownInv, Next
  PROVE  ShownInv'
<1>1. size \in Nat
  BY DEF TrackerInv, TypeOK
<1>2. CASE \E s, n \in 0 .. size : NewFree(s, n)
  BY <1>1, <1>2, NewFreeShown
<1>3. CASE Reserve(0, StartUnits, StartUnits) \/ \E from \in 0 .. size : Reserve(from, 1, MaxUnits)
  BY <1>3, ReserveShown
<1>4. CASE \E c \in ChunkUnits : Commit(c)
  BY <1>4, CommitShown
<1>5. CASE \E n \in 0 .. MaxUnits : Abandon(n)
  <2>1. PICK n \in Nat : Abandon(n)
    BY <1>5, SizesLemma
  <2> QED BY <2>1, AbandonNever
<1>6. CASE FlushBegin \/ FlushEnd
  <2>1. UNCHANGED <<freeMap, fills>> /\ ~InArea /\ flush'.start = 0 /\ flush'.end = 0
    BY <1>6 DEF FlushBegin, FlushEnd, Idle, InArea, NoFlush
  <2> QED BY <2>1, SameShown DEF InArea
<1>7. CASE FlushEntry
  BY <1>7, FlushEntryShown
<1>8. CASE FlushChunk
  BY <1>8, FlushChunkShown
<1>9. CASE FlushTruncate \/ \E n \in 0 .. MaxUnits : FlushFails(n)
  BY <1>9, FlushStops
<1>10. CASE Reopen
  BY <1>10 DEF Reopen, Idle, ShownInv, InArea
<1>11. CASE ScanFill
  BY <1>11, ScanFillShown
<1>12. CASE ScanLive
  <2>1. UNCHANGED <<freeMap, fills, flush>> /\ ~InArea
    BY <1>12 DEF ScanLive, TrackerInv, TypeOK, FlushInv, InArea
  <2> QED BY <2>1, SameShown DEF InArea
<1> QED BY <1>2, <1>3, <1>4, <1>5, <1>6, <1>7, <1>8, <1>9, <1>10, <1>11, <1>12
        DEF Next, FlushStep, ScanStep

(* A region that is not dirty is on the media as fill chunks, whole and    *)
(* with nothing else: what fileUpdateNeeded promises.                      *)
THEOREM CleanRegionsShown ==
  ASSUME MediaKinds = {Working}
  PROVE  Spec => []CleanIsShown
<1> DEFINE Kept == TrackerInv /\ ShownInv /\ media = Working
<1>1. Init => Kept
  BY InitInv DEF Init, ShownInv, InArea, NoFlush
<1>2. Kept /\ [Next]_trackerVars => Kept'
  <2> SUFFICES ASSUME Kept, [Next]_trackerVars PROVE Kept'
    OBVIOUS
  <2>1. CASE Next
    BY <2>1, NextInv, NextShown, KindStays
  <2>2. CASE UNCHANGED trackerVars
    BY <2>2, StutterInv DEF trackerVars, ShownInv, BeingFlushed, ShownUpTo, InArea
  <2> QED BY <2>1, <2>2
<1>3. Kept => CleanIsShown
  <2> SUFFICES ASSUME Kept, NEW r \in freeMap, ~r.dirty, ~BeingFlushed(r),
                      NEW u \in r.start .. (Lower(r.end, size) - 1)
               PROVE  \E f \in fills : In(u, f) /\ r.start <= f.start /\ f.end <= r.end
    BY DEF CleanIsShown
  <2>1. r.start \in Nat /\ r.end \in Nat /\ size \in Nat
    BY DEF TrackerInv, TypeOK, Region
  <2>2. u \in r.start .. (r.end - 1)
    BY <2>1 DEF Lower
  <2>3. ShownUpTo(r, r.end)
    BY DEF ShownInv
  <2> QED BY <2>2, <2>3 DEF ShownUpTo
<1> HIDE DEF Kept
<1> QED BY <1>1, <1>2, <1>3, PTL DEF Spec

------------------------------------------------------------------------------
(* Maps in which error paths have left reservations, so that entries may   *)
(* overlap: what is on offer still lies apart, and keys are unique.        *)
Taken(map)     == {r \in map : r.reserved}
OnOffer(map, u) == \E r \in map : ~r.reserved /\ In(u, r)
Own(map) ==
  /\ map \subseteq Region /\ NonEmpty(map)
  /\ \A r, q \in map : r.start = q.start => r = q
  /\ \A r, q \in map : ~r.reserved /\ ~q.reserved => r = q \/ Apart(r, q)

(* What is on offer in the new map was so before, or lies in [s, e).       *)
Grown(new, map, s, e) ==
  /\ Own(new) /\ Taken(new) = Taken(map)
  /\ \A u \in Nat : OnOffer(new, u) => OnOffer(map, u) \/ (s <= u /\ u < e)

LEMMA OwnIs ==
  ASSUME NEW map, Own(map), NEW r \in map
  PROVE  /\ r.start \in Nat /\ r.end \in Nat /\ r.reserved \in BOOLEAN /\ r.dirty \in BOOLEAN
         /\ r \in Region /\ r.start < r.end
         /\ r = Entry(r.start, r.end, r.reserved, r.dirty)
<1>1. r \in Region /\ r.start < r.end
  BY DEF Own, NonEmpty
<1> QED BY <1>1 DEF Region, Entry

(* Taking entries away. *)
LEMMA DropOwn ==
  ASSUME NEW map, Own(map), NEW Z
  PROVE  /\ Own(map \ Z)
         /\ \A u \in Nat : OnOffer(map \ Z, u) => OnOffer(map, u)
         /\ \A q \in map, u \in Nat : q \in Z /\ ~q.reserved /\ In(u, q) => ~OnOffer(map \ Z, u)
<1>1. Own(map \ Z)
  BY DEF Own, NonEmpty
<1>2. \A u \in Nat : OnOffer(map \ Z, u) => OnOffer(map, u)
  BY DEF OnOffer
<1>3. ASSUME NEW q \in map, NEW u \in Nat, q \in Z, ~q.reserved, In(u, q), OnOffer(map \ Z, u)
      PROVE  FALSE
  <2>1. PICK r \in map \ Z : ~r.reserved /\ In(u, r)
    BY <1>3 DEF OnOffer
  <2>2. Apart(r, q)
    BY <1>3, <2>1 DEF Own
  <2> QED BY <1>3, <2>1, <2>2, OwnIs DEF Apart, In
<1> QED BY <1>1, <1>2, <1>3

(* Putting a region on offer of which no unit is. *)
LEMMA PutOwn ==
  ASSUME NEW map, Own(map), NEW r \in Region, ~r.reserved, r.start < r.end,
         \A q \in map : q.start # r.start,
         \A u \in Nat : In(u, r) => ~OnOffer(map, u)
  PROVE  Grown(map \cup {r}, map, r.start, r.end)
<1> DEFINE new == map \cup {r}
<1>0. r.start \in Nat /\ r.end \in Nat
  BY DEF Region
<1>1. new \subseteq Region /\ NonEmpty(new)
  BY DEF Own, NonEmpty
<1>2. \A p, q \in new : p.start = q.start => p = q
  BY DEF Own
<1>3. ASSUME NEW q \in map, ~q.reserved PROVE Apart(q, r) /\ Apart(r, q)
  <2>0. q.start \in Nat /\ q.end \in Nat /\ q.start < q.end
    BY OwnIs
  <2>1. ~(In(q.start, r) /\ In(q.start, q)) /\ ~(In(r.start, r) /\ In(r.start, q))
    BY <1>0, <1>3, <2>0 DEF OnOffer
  <2> QED BY <1>0, <2>0, <2>1 DEF In, Apart
<1>4. \A p, q \in new : ~p.reserved /\ ~q.reserved => p = q \/ Apart(p, q)
  BY <1>3 DEF Own
<1>5. Own(new)
  BY <1>1, <1>2, <1>4 DEF Own
<1>6. Taken(new) = Taken(map)
  BY DEF Taken
<1>7. \A u \in Nat : OnOffer(new, u) => OnOffer(map, u) \/ (r.start <= u /\ u < r.end)
  BY DEF OnOffer, In
<1> QED BY <1>5, <1>6, <1>7 DEF Grown

(* std::map::insert keeps what it finds under the key. *)
LEMMA InsertOwn ==
  ASSUME NEW map, Own(map), NEW s \in Nat, NEW e \in Nat, s < e, NEW d \in BOOLEAN,
         \A u \in Nat : s <= u /\ u < e => ~OnOffer(map, u)
  PROVE  Grown(Insert(map, Entry(s, e, FALSE, d)), map, s, e)
<1> DEFINE r == Entry(s, e, FALSE, d)
<1>1. r \in Region /\ r.start = s /\ r.end = e /\ ~r.reserved
  BY EntryLemma
<1>2. CASE \E q \in map : q.start = r.start
  BY <1>2 DEF Insert, Grown
<1>3. CASE ~ \E q \in map : q.start = r.start
  <2>1. Insert(map, r) = map \cup {r}
    BY <1>3 DEF Insert
  <2>2. \A u \in Nat : In(u, r) => ~OnOffer(map, u)
    BY <1>1 DEF In
  <2> HIDE DEF r
  <2>3. Grown(map \cup {r}, map, r.start, r.end)
    BY <1>1, <1>3, <2>2, PutOwn
  <2> QED BY <1>1, <2>1, <2>3 DEF r
<1> QED BY <1>2, <1>3

(* Of entries with keys up to a bound there is a last one, and they are    *)
(* finitely many.                                                          *)
LEMMA LastLemma ==
  ASSUME NEW m, m \subseteq Region, m # {}, NEW b \in Nat, \A r \in m : r.start <= b
  PROVE  Last(m) \in m /\ \A q \in m : q.start <= Last(m).start
<1> DEFINE T == {q.start : q \in m}
<1>1. T \subseteq Nat /\ T # {} /\ \A x \in T : x <= b
  BY DEF Region
<1> HIDE DEF T
<1>2. PICK x \in T : \A y \in T : x >= y
  BY <1>1, LargestOf
<1>3. PICK r \in m : x = r.start
  BY DEF T
<1>4. ASSUME NEW q \in m PROVE q.start <= r.start
  <2>1. q.start \in T
    BY DEF T
  <2> QED BY <1>1, <1>2, <1>3, <2>1
<1> QED BY <1>3, <1>4 DEF Last

LEMMA KeysFinite ==
  ASSUME NEW map, Own(map), NEW b \in Nat, \A r \in map : r.start <= b
  PROVE  IsFiniteSet(map)
<1> DEFINE f == [r \in map |-> r.start]
<1>1. IsFiniteSet(0 .. b)
  BY FS_Interval
<1>2. f \in [map -> 0 .. b]
  BY OwnIs
<1>3. \A r, q \in map : f[r] = f[q] => r = q
  BY DEF Own
<1>4. f \in Injection(map, 0 .. b)
  BY <1>2, <1>3 DEF Injection, IsInjective
<1> QED BY <1>1, <1>4, FS_Injection

------------------------------------------------------------------------------
(* The walk of newFreeSpaceArea over the entries from its start on.        *)
WalkState == [map : SUBSET Region, start : Nat, end : Nat, dirty : BOOLEAN, done : BOOLEAN,
              sound : BOOLEAN]
WalkEnd(S, base, dirty) ==
  MapThenFoldSet(LAMBDA r, acc : Absorb(acc, r, dirty), base, LAMBDA r : r, Last, S)

LEMMA AbsorbType ==
  ASSUME NEW a \in WalkState, NEW r \in Region, NEW d \in BOOLEAN
  PROVE  Absorb(a, r, d) \in WalkState
<1>1. /\ a.map \in SUBSET Region /\ a.start \in Nat /\ a.end \in Nat /\ a.dirty \in BOOLEAN
      /\ a.done \in BOOLEAN /\ a.sound \in BOOLEAN
      /\ r.start \in Nat /\ r.end \in Nat /\ r.dirty \in BOOLEAN
  BY DEF WalkState, Region
<1>2. Insert(a.map, Entry(a.start, r.start, FALSE, a.dirty)) \in SUBSET Region
  <2>1. PICK q : q = Entry(a.start, r.start, FALSE, a.dirty) /\ q \in Region
    BY <1>1, EntryLemma
  <2> QED BY <1>1, <2>1 DEF Insert
<1>3. Higher(a.end, r.end) \in Nat
  BY <1>1 DEF Higher
<1>4. a.map \ {r} \in SUBSET Region
  BY <1>1
<1>5. CASE a.done \/ r.start > a.end
  BY <1>5 DEF Absorb
<1>6. CASE ~(a.done \/ r.start > a.end) /\ r.reserved
  <2>1. Absorb(a, r, d) = [a EXCEPT !.map = Insert(@, Entry(a.start, r.start, FALSE, a.dirty)),
                 !.start = r.end, !.dirty = d, !.sound = @ /\ r.start > a.start]
    BY <1>6, Zenon DEF Absorb
  <2> QED BY <1>1, <1>2, <2>1 DEF WalkState
<1>7. CASE ~(a.done \/ r.start > a.end) /\ ~r.reserved
  <2>1. Absorb(a, r, d) = [a EXCEPT !.map = @ \ {r}, !.end = Higher(@, r.end), !.dirty = @ \/ r.dirty,
                 !.sound = @ /\ r.start > a.start]
    BY <1>7, Zenon DEF Absorb
  <2>2. (a.dirty \/ r.dirty) \in BOOLEAN /\ (a.sound /\ r.start > a.start) \in BOOLEAN
    BY <1>1
  <2> QED BY <1>1, <1>3, <1>4, <2>1, <2>2 DEF WalkState
<1> QED BY <1>5, <1>6, <1>7

(* What the first entries hand on to the next holds at the end.            *)
LEMMA WalkInduction ==
  ASSUME NEW S, S \subseteq Region, IsFiniteSet(S), NEW b \in Nat, \A r \in S : r.start <= b,
         NEW base \in WalkState, NEW d \in BOOLEAN, NEW G, <<{}, base>> \in G,
         \A s \in SUBSET S : \A a \in WalkState :
           s # {} /\ <<s \ {Last(s)}, a>> \in G => <<s, Absorb(a, Last(s), d)>> \in G
  PROVE  WalkEnd(S, base, d) \in WalkState /\ <<S, WalkEnd(S, base, d)>> \in G
<1> DEFINE X == WalkState
           step == [p \in S \X X |-> Absorb(p[2], p[1], d)]
           next == [s \in SUBSET S |-> Last(s)]
           Good(g) == g = [s \in SUBSET S |-> IF s = {} THEN base ELSE Absorb(g[s \ {Last(s)}], Last(s), d)]
           f == CHOOSE g : Good(g)
<1>1. \A s \in SUBSET S : s # {} => Last(s) \in s
  BY LastLemma
<1>2. step \in [S \X X -> X]
  BY AbsorbType
<1>3. \A s \in SUBSET S : s # {} => next[s] \in s
  BY <1>1
<1>4. f[S] = WalkEnd(S, base, d)
  BY Zenon DEF WalkEnd, MapThenFoldSet
<1>5. PICK h : Folding(h, S, X, base, step, next)
  <2> HIDE DEF step, next
  <2> QED BY <1>2, <1>3, FoldExists
<1>6. h \in [SUBSET S -> X] /\ h = [s \in SUBSET S |-> IF s = {} THEN base ELSE step[<<next[s], h[s \ {next[s]}]>>]]
  BY <1>5, Zenon DEF Folding
<1>7. ASSUME NEW s \in SUBSET S, s # {}
      PROVE  step[<<next[s], h[s \ {next[s]}]>>] = Absorb(h[s \ {Last(s)}], Last(s), d)
  <2>1. next[s] = Last(s) /\ Last(s) \in S /\ h[s \ {Last(s)}] \in X
    BY <1>1, <1>6, <1>7
  <2> QED BY <2>1
<1>8. Good(h)
  <2> HIDE DEF step, next
  <2> QED BY <1>6, <1>7
<1>9. Good(f)
  <2> HIDE DEF Good
  <2> QED BY <1>8
<1>10. PICK g : g = f /\ Good(g)
  BY <1>9
<1>11. /\ DOMAIN g = SUBSET S /\ g[{}] = base
       /\ \A s \in SUBSET S : s # {} => g[s] = Absorb(g[s \ {Last(s)}], Last(s), d)
  BY <1>10
<1> DEFINE T == {s \in SUBSET S : ~(g[s] \in X /\ <<s, g[s]>> \in G)}
<1>12. T = {}
  <2>1. SUFFICES ASSUME T # {} PROVE FALSE
    OBVIOUS
  <2>2. PICK s \in T : \A x \in s : s \ {x} \notin T
    BY <2>1, SmallestSet
  <2>3. s \in SUBSET S /\ s # {}
    BY <1>11
  <2>4. Last(s) \in s /\ Last(s) \in Region /\ s \ {Last(s)} \in SUBSET S
    BY <1>1, <2>3
  <2>5. g[s \ {Last(s)}] \in X /\ <<s \ {Last(s)}, g[s \ {Last(s)}]>> \in G
    BY <2>2, <2>4
  <2>6. g[s] = Absorb(g[s \ {Last(s)}], Last(s), d)
    BY <1>11, <2>3
  <2>7. g[s] \in X /\ <<s, g[s]>> \in G
    BY <2>3, <2>4, <2>5, <2>6, AbsorbType
  <2> QED BY <2>2, <2>7
<1>13. g[S] \in X /\ <<S, g[S]>> \in G
  BY <1>12
<1>14. g[S] = WalkEnd(S, base, d)
  <2> HIDE DEF f
  <2> QED BY <1>4, <1>10
<1> QED BY <1>13, <1>14

(* What the walk may take: the area that was asked for, and what was on    *)
(* offer.                                                                  *)
Takes(a, m, s, e) ==
  /\ Own(a.map) /\ Taken(a.map) = Taken(m)
  /\ \A u \in Nat : OnOffer(a.map, u) => OnOffer(m, u) \/ (s <= u /\ u < e)
  /\ \A u \in Nat : a.start <= u /\ u < a.end =>
       ~OnOffer(a.map, u) /\ (OnOffer(m, u) \/ (s <= u /\ u < e))
WalkedTo(t, a, m, s, e) ==
  /\ a.done => a.map = m
  /\ ~a.done /\ a.sound => Takes(a, m, s, e) /\ AtOrPast(m, s) \ t \subseteq a.map

(* Each entry that the walk meets. *)
LEMMA AbsorbTakes ==
  ASSUME NEW m, Own(m), NEW s \in Nat, NEW e \in Nat, NEW a \in WalkState,
         NEW r \in m, r \in a.map, NEW d \in BOOLEAN,
         Takes(a, m, s, e), ~a.done, Absorb(a, r, d).sound
  PROVE  /\ Takes(Absorb(a, r, d), m, s, e)
         /\ \A q \in a.map : q # r => q \in Absorb(a, r, d).map
<1>1. /\ a.start \in Nat /\ a.end \in Nat /\ a.dirty \in BOOLEAN /\ a.sound \in BOOLEAN
      /\ a = [map |-> a.map, start |-> a.start, end |-> a.end, dirty |-> a.dirty,
              done |-> a.done, sound |-> a.sound]
  BY DEF WalkState
<1>2. /\ r.start \in Nat /\ r.end \in Nat /\ r.start < r.end /\ r.reserved \in BOOLEAN
  BY OwnIs
<1>3. Own(a.map) /\ Taken(a.map) = Taken(m)
  BY DEF Takes
<1>4. \A u \in Nat : OnOffer(a.map, u) => OnOffer(m, u) \/ (s <= u /\ u < e)
  BY DEF Takes
<1>5. \A u \in Nat : a.start <= u /\ u < a.end =>
        ~OnOffer(a.map, u) /\ (OnOffer(m, u) \/ (s <= u /\ u < e))
  BY DEF Takes
<1>6. CASE r.start > a.end
  BY <1>6 DEF Absorb
<1>7. CASE r.start <= a.end /\ r.reserved
  <2> DEFINE b == Absorb(a, r, d)
             new == Insert(a.map, Entry(a.start, r.start, FALSE, a.dirty))
  <2>0. b = [a EXCEPT !.map = Insert(@, Entry(a.start, r.start, FALSE, a.dirty)),
                 !.start = r.end, !.dirty = d, !.sound = @ /\ r.start > a.start]
    BY <1>1, <1>2, <1>7 DEF Absorb
  <2>1. b.map = new /\ b.start = r.end /\ b.end = a.end /\ (b.sound <=> a.sound /\ r.start > a.start)
    BY <1>1, <2>0
  <2>2. a.start < r.start
    BY <1>1, <1>2, <2>1
  <2>3. Grown(new, a.map, a.start, r.start)
    <3>1. \A u \in Nat : a.start <= u /\ u < r.start => ~OnOffer(a.map, u)
      BY <1>1, <1>2, <1>5, <1>7
    <3> QED BY <1>1, <1>2, <1>3, <2>2, <3>1, InsertOwn
  <2>4. Own(new) /\ Taken(new) = Taken(m)
    BY <1>3, <2>3 DEF Grown
  <2>5. \A u \in Nat : OnOffer(new, u) => OnOffer(a.map, u) \/ (a.start <= u /\ u < r.start)
    BY <2>3 DEF Grown
  <2>8. \A q \in a.map : q \in new
    BY DEF Insert
  <2> HIDE DEF b, new
  <2>6. \A u \in Nat : OnOffer(new, u) => OnOffer(m, u) \/ (s <= u /\ u < e)
    BY <1>1, <1>2, <1>4, <1>5, <1>7, <2>5
  <2>7. \A u \in Nat : r.end <= u /\ u < a.end => ~OnOffer(new, u) /\ (OnOffer(m, u) \/ (s <= u /\ u < e))
    BY <1>1, <1>2, <1>5, <2>2, <2>5
  <2>9. Takes(b, m, s, e)
    BY <2>1, <2>4, <2>6, <2>7 DEF Takes
  <2> QED BY <2>1, <2>8, <2>9 DEF b
<1>8. CASE r.start <= a.end /\ ~r.reserved
  <2> DEFINE b == Absorb(a, r, d)
             new == a.map \ {r}
  <2>0. b = [a EXCEPT !.map = @ \ {r}, !.end = Higher(@, r.end), !.dirty = @ \/ r.dirty,
                 !.sound = @ /\ r.start > a.start]
    BY <1>1, <1>2, <1>8 DEF Absorb
  <2>1. b.map = new /\ b.start = a.start /\ b.end = Higher(a.end, r.end) /\ (b.sound <=> a.sound /\ r.start > a.start)
    BY <1>1, <2>0
  <2>2. a.start < r.start /\ (b.end = a.end \/ b.end = r.end)
    BY <1>1, <1>2, <2>1 DEF Higher
  <2>3. Own(new) /\ \A u \in Nat : OnOffer(new, u) => OnOffer(a.map, u)
    BY <1>3, DropOwn
  <2>4. \A u \in Nat : In(u, r) => ~OnOffer(new, u) /\ OnOffer(m, u)
    <3>1. \A u \in Nat : In(u, r) => ~OnOffer(new, u)
      BY <1>3, <1>8, DropOwn
    <3> QED BY <1>8, <3>1 DEF OnOffer
  <2>5. \A u \in Nat : a.start <= u /\ u < b.end => ~OnOffer(new, u) /\ (OnOffer(m, u) \/ (s <= u /\ u < e))
    <3>1. ASSUME NEW u \in Nat, a.start <= u, u < b.end PROVE u < a.end \/ In(u, r)
      BY <1>1, <1>2, <1>8, <2>2, <3>1 DEF In
    <3> HIDE DEF b, new
    <3> QED BY <1>5, <2>3, <2>4, <3>1
  <2>6. Taken(new) = Taken(m)
    BY <1>3, <1>8 DEF Taken
  <2> HIDE DEF b, new
  <2>7. Takes(b, m, s, e)
    BY <1>4, <2>1, <2>3, <2>5, <2>6 DEF Takes
  <2>8. \A q \in a.map : q # r => q \in new
    BY DEF new
  <2> QED BY <2>1, <2>7, <2>8 DEF b
<1> QED BY <1>1, <1>2, <1>6, <1>7, <1>8

(* Where the walk begins, after a look at the entry before. *)
LEMMA WalkBegins ==
  ASSUME NEW m, Own(m), NEW b \in Nat, \A r \in m : r.start <= b,
         NEW s \in Nat, NEW e \in Nat, s < e, NEW d \in BOOLEAN,
         \A u \in Nat : s <= u /\ u < e => ~OnOffer(m, u)
  PROVE  AfterPrevious(m, s, e, d) \in WalkState /\ WalkedTo({}, AfterPrevious(m, s, e, d), m, s, e)
<1> DEFINE below == Below(m, s)
           p == Last(below)
           asked == [map |-> m, start |-> s, end |-> e, dirty |-> d, done |-> FALSE, sound |-> TRUE]
           a == AfterPrevious(m, s, e, d)
<1>1. m \in SUBSET Region
  BY DEF Own
<1>2. asked \in WalkState /\ WalkedTo({}, asked, m, s, e)
  <2>1. asked \in WalkState
    BY <1>1 DEF WalkState
  <2>2. Takes(asked, m, s, e)
    BY DEF Takes
  <2> QED BY <2>1, <2>2 DEF WalkedTo, AtOrPast
<1>3. CASE below = {} \/ p.end < s
  <2>1. a = asked
    BY <1>3 DEF AfterPrevious
  <2> QED BY <1>2, <2>1
<1>4. CASE ~(below = {} \/ p.end < s)
  <2>1. below \subseteq Region /\ \A r \in below : r.start <= b
    BY <1>1 DEF Below
  <2>2. p \in below
    <3> HIDE DEF below
    <3> QED BY <1>4, <2>1, LastLemma
  <2>3. p \in m /\ p.start < s
    BY <2>2 DEF Below
  <2>4. PICK q : q = p
    OBVIOUS
  <2>5. q \in m /\ q.start < s /\ q.end >= s /\ q.start \in Nat /\ q.end \in Nat /\ q.reserved \in BOOLEAN /\ q.dirty \in BOOLEAN
    <3>1. q \in m /\ q.start < s /\ q.end >= s
      <4>1. ~(q.end < s)
        BY <1>4, <2>4
      <4> HIDE DEF p
      <4>2. q \in m /\ q.start < s
        BY <2>3, <2>4
      <4> QED BY <4>1, <4>2, OwnIs
    <3> QED BY <3>1, OwnIs
  <2>6. a = IF q.end >= e THEN [asked EXCEPT !.done = TRUE]
            ELSE IF q.reserved THEN [asked EXCEPT !.start = q.end]
            ELSE [asked EXCEPT !.map = @ \ {q}, !.start = q.start, !.dirty = q.dirty \/ @]
    BY <1>4, <2>4, Zenon DEF AfterPrevious
  <2>7. CASE q.end >= e
    <3>1. a = [asked EXCEPT !.done = TRUE]
      BY <2>6, <2>7
    <3> QED BY <1>1, <3>1 DEF WalkState, WalkedTo
  <2>8. CASE ~(q.end >= e) /\ q.reserved
    <3>1. a = [asked EXCEPT !.start = q.end]
      BY <2>6, <2>8
    <3>2. a \in WalkState
      BY <1>1, <2>5, <3>1 DEF WalkState
    <3>3. /\ a.map = m /\ a.start = q.end /\ a.end = e /\ a.done = FALSE
      BY <3>1
    <3> HIDE DEF a
    <3>4. Takes(a, m, s, e)
      BY <2>5, <3>3 DEF Takes
    <3>5. WalkedTo({}, a, m, s, e)
      BY <3>3, <3>4 DEF WalkedTo, AtOrPast
    <3> QED BY <3>2, <3>5 DEF a
  <2>9. CASE ~(q.end >= e) /\ ~q.reserved
    <3>1. a = [asked EXCEPT !.map = @ \ {q}, !.start = q.start, !.dirty = q.dirty \/ @]
      BY <2>6, <2>9
    <3>2. a \in WalkState
      BY <1>1, <2>5, <3>1 DEF WalkState
    <3>3. /\ a.map = m \ {q} /\ a.start = q.start /\ a.end = e /\ a.done = FALSE
      BY <3>1
    <3> HIDE DEF a
    <3>4. Own(m \ {q}) /\ \A u \in Nat : OnOffer(m \ {q}, u) => OnOffer(m, u)
      BY DropOwn
    <3>5. \A u \in Nat : In(u, q) => ~OnOffer(m \ {q}, u) /\ OnOffer(m, u)
      <4>1. \A u \in Nat : In(u, q) => ~OnOffer(m \ {q}, u)
        BY <2>5, <2>9, DropOwn
      <4> QED BY <2>5, <2>9, <4>1 DEF OnOffer
    <3>6. \A u \in Nat : q.start <= u /\ u < e => In(u, q) \/ (s <= u /\ u < e)
      BY <2>5 DEF In
    <3>7. Taken(m \ {q}) = Taken(m)
      BY <2>9 DEF Taken
    <3>8. Takes(a, m, s, e)
      BY <3>3, <3>4, <3>5, <3>6, <3>7 DEF Takes
    <3>9. AtOrPast(m, s) \subseteq m \ {q}
      BY <2>5 DEF AtOrPast
    <3>10. WalkedTo({}, a, m, s, e)
      BY <3>3, <3>8, <3>9 DEF WalkedTo
    <3> QED BY <3>2, <3>10 DEF a
  <2> QED BY <2>7, <2>8, <2>9
<1> QED BY <1>3, <1>4

(* newFreeSpaceArea puts on offer what it was told to and nothing else.    *)
LEMMA WalkNewFreeOwn ==
  ASSUME NEW m, Own(m), NEW b \in Nat, \A r \in m : r.start <= b,
         NEW s \in Nat, NEW n \in Nat, 0 < n, NEW d \in BOOLEAN,
         \A u \in Nat : s <= u /\ u < s + n => ~OnOffer(m, u),
         WalkNewFree(m, s, n, d).sound
  PROVE  Grown(WalkNewFree(m, s, n, d).map, m, s, s + n)
<1> DEFINE e == s + n
           S == AtOrPast(m, s)
           base == AfterPrevious(m, s, e, d)
           a == WalkEnd(S, base, d)
           G == {x \in (SUBSET S) \X WalkState : WalkedTo(x[1], x[2], m, s, e)}
<1>1. e \in Nat /\ s < e
  OBVIOUS
<1>2. S \subseteq m /\ S \subseteq Region /\ IsFiniteSet(S) /\ \A r \in S : r.start <= b
  <2>1. S \subseteq m /\ m \subseteq Region
    BY DEF AtOrPast, Own
  <2>2. IsFiniteSet(m)
    BY KeysFinite
  <2> HIDE DEF S
  <2> QED BY <2>1, <2>2, FS_Subset
<1>3. base \in WalkState /\ WalkedTo({}, base, m, s, e)
  <2> HIDE DEF e
  <2> QED BY <1>1, WalkBegins DEF e
<1>4. <<{}, base>> \in G
  BY <1>3
<1>5. ASSUME NEW t \in SUBSET S, NEW x \in WalkState, t # {}, <<t \ {Last(t)}, x>> \in G
      PROVE  <<t, Absorb(x, Last(t), d)>> \in G
  <2>1. PICK r : r = Last(t) /\ r \in t
    <3>1. t \subseteq Region /\ \A q \in t : q.start <= b
      BY <1>2
    <3> QED BY <1>5, <3>1, LastLemma
  <2>2. WalkedTo(t \ {r}, x, m, s, e)
    BY <1>5, <2>1
  <2>3. r \in S /\ r \in m /\ r \in Region
    BY <1>2, <2>1
  <2>4. Absorb(x, r, d) \in WalkState
    BY <2>3, AbsorbType
  <2>5. WalkedTo(t, Absorb(x, r, d), m, s, e)
    <3>0. x = [map |-> x.map, start |-> x.start, end |-> x.end, dirty |-> x.dirty, done |-> x.done, sound |-> x.sound]
          /\ x.done \in BOOLEAN /\ x.sound \in BOOLEAN
      BY DEF WalkState
    <3>1. CASE x.done
      <4>1. Absorb(x, r, d) = x
        BY <3>1 DEF Absorb
      <4> QED BY <2>2, <3>1, <4>1 DEF WalkedTo
    <3>2. CASE ~x.done
      <4>1. ~Absorb(x, r, d).done
        BY <3>0, <3>2 DEF Absorb
      <4>2. Absorb(x, r, d).sound => x.sound
        BY <3>0, <3>2 DEF Absorb
      <4>3. ASSUME Absorb(x, r, d).sound
            PROVE  Takes(Absorb(x, r, d), m, s, e) /\ S \ t \subseteq Absorb(x, r, d).map
        <5>1. Takes(x, m, s, e) /\ S \ (t \ {r}) \subseteq x.map
          BY <2>2, <3>2, <4>2, <4>3 DEF WalkedTo
        <5>2. r \in x.map
          BY <2>3, <5>1
        <5> HIDE DEF S, e
        <5>3. /\ Takes(Absorb(x, r, d), m, s, e)
              /\ \A q \in x.map : q # r => q \in Absorb(x, r, d).map
          BY <1>1, <2>3, <3>2, <4>3, <5>1, <5>2, AbsorbTakes
        <5> QED BY <2>1, <5>1, <5>3
      <4> QED BY <4>1, <4>3 DEF WalkedTo
    <3> QED BY <3>1, <3>2
  <2> HIDE DEF S, e
  <2> QED BY <2>1, <2>4, <2>5
<1>6. a \in WalkState /\ <<S, a>> \in G
  <2> HIDE DEF S, base, G
  <2> QED BY <1>2, <1>3, <1>4, <1>5, WalkInduction
<1>7. WalkedTo(S, a, m, s, e)
  BY <1>6
<1>8. WalkNewFree(m, s, n, d) =
        [map |-> IF ~a.done /\ a.start < a.end THEN Insert(a.map, Entry(a.start, a.end, FALSE, a.dirty)) ELSE a.map,
         sound |-> a.sound]
  BY Zenon DEF WalkNewFree, WalkEnd
<1> HIDE DEF a, S, base, G, e
<1>9. a.sound /\ a.start \in Nat /\ a.end \in Nat /\ a.dirty \in BOOLEAN /\ a.done \in BOOLEAN
  BY <1>6, <1>8 DEF WalkState
<1>10. CASE a.done
  <2>1. WalkNewFree(m, s, n, d).map = m
    BY <1>7, <1>8, <1>10 DEF WalkedTo
  <2> QED BY <2>1 DEF Grown
<1>11. CASE ~a.done
  <2>1. Takes(a, m, s, e)
    BY <1>7, <1>9, <1>11 DEF WalkedTo
  <2>2. CASE ~(a.start < a.end)
    <3>1. WalkNewFree(m, s, n, d).map = a.map
      BY <1>8, <2>2
    <3> QED BY <2>1, <3>1 DEF Takes, Grown, e
  <2>3. CASE a.start < a.end
    <3> DEFINE new == Insert(a.map, Entry(a.start, a.end, FALSE, a.dirty))
    <3>1. WalkNewFree(m, s, n, d).map = new
      BY <1>8, <1>11, <2>3
    <3>2. Grown(new, a.map, a.start, a.end)
      <4>1. Own(a.map) /\ \A u \in Nat : a.start <= u /\ u < a.end => ~OnOffer(a.map, u)
        BY <2>1 DEF Takes
      <4> QED BY <1>9, <2>3, <4>1, InsertOwn
    <3> HIDE DEF new
    <3>3. Grown(new, m, s, e)
      BY <2>1, <3>2 DEF Takes, Grown
    <3> QED BY <3>1, <3>3 DEF e
  <2> QED BY <2>2, <2>3
<1> QED BY <1>9, <1>10, <1>11

------------------------------------------------------------------------------
(* The forms of FreeMap, where no entries overlap. *)
LEMMA CoalesceOwn ==
  ASSUME NEW map, Own(map), DisjointRegions(map), NEW s \in Nat, NEW e \in Nat, s < e, NEW d \in BOOLEAN,
         \A q \in map : q.end <= s \/ e <= q.start
  PROVE  Grown(Coalesce(map, Entry(s, e, FALSE, d)), map, s, e)
<1> DEFINE r == Entry(s, e, FALSE, d)
           js == JoinedStart(map, r)
           je == JoinedEnd(map, r)
           near == Before(map, r) \cup After(map, r)
<1>1. r \in Region /\ r.start = s /\ r.end = e /\ ~r.reserved /\ r.dirty = d
  BY DEF Entry, Region
<1>2. WellFormed(map)
  BY DEF WellFormed, Own
<1>3. \/ Before(map, r) = {} /\ js = s
      \/ \E p \in map : ~p.reserved /\ p.end = s /\ Before(map, r) = {p} /\ js = p.start
  <2> HIDE DEF r, js
  <2> QED BY <1>1, <1>2, JoinedStartLemma DEF js
<1>4. \/ After(map, r) = {} /\ je = e
      \/ \E p \in map : ~p.reserved /\ p.start = e /\ After(map, r) = {p} /\ je = p.end
  <2> HIDE DEF r, je
  <2> QED BY <1>1, <1>2, JoinedEndLemma DEF je
<1>5. js \in Nat /\ js <= s /\ je \in Nat /\ e <= je
  <2> HIDE DEF r, js, je
  <2> QED BY <1>3, <1>4, OwnIs
<1>6. PICK f \in BOOLEAN : Coalesce(map, r) = (map \ near) \cup {Entry(js, je, FALSE, f)}
  <2>1. \A x, y : (x \/ \E q \in y : q.dirty) \in BOOLEAN
    OBVIOUS
  <2>2. Coalesce(map, r) = (map \ near) \cup {Entry(js, je, FALSE, r.dirty \/ \E q \in near : q.dirty)}
    BY Zenon DEF Coalesce
  <2> QED BY <2>2
<1> DEFINE j == Entry(js, je, FALSE, f)
<1>7. j \in Region /\ j.start = js /\ j.end = je /\ ~j.reserved
  <2> HIDE DEF js, je
  <2> QED BY <1>5 DEF Entry, Region
<1>8. ASSUME NEW u \in Nat, js <= u, u < je
      PROVE  ~OnOffer(map \ near, u) /\ (OnOffer(map, u) \/ (s <= u /\ u < e))
  <2>1. CASE u < s
    <3>1. PICK p \in map : ~p.reserved /\ p.end = s /\ Before(map, r) = {p} /\ js = p.start
      <4> HIDE DEF js, r
      <4> QED BY <1>3, <1>8, <2>1
    <3>2. In(u, p) /\ p \in near
      <4> HIDE DEF js, r
      <4> QED BY <1>8, <2>1, <3>1 DEF In
    <3> HIDE DEF near
    <3> QED BY <3>1, <3>2, DropOwn DEF OnOffer
  <2>2. CASE e <= u
    <3>1. PICK p \in map : ~p.reserved /\ p.start = e /\ After(map, r) = {p} /\ je = p.end
      <4> HIDE DEF je, r
      <4> QED BY <1>4, <1>8, <2>2
    <3>2. In(u, p) /\ p \in near
      <4> HIDE DEF je, r
      <4> QED BY <1>8, <2>2, <3>1 DEF In
    <3> HIDE DEF near
    <3> QED BY <3>1, <3>2, DropOwn DEF OnOffer
  <2>3. CASE s <= u /\ u < e
    <3>1. ASSUME NEW q \in map, In(u, q) PROVE FALSE
      <4>1. q.start \in Nat /\ q.end \in Nat
        BY OwnIs
      <4> QED BY <2>3, <3>1, <4>1 DEF In
    <3> QED BY <2>3, <3>1 DEF OnOffer
  <2> QED BY <2>1, <2>2, <2>3
<1>9. ASSUME NEW q \in map \ near, q.start = js PROVE FALSE
  <2>0. q.start \in Nat /\ q.end \in Nat /\ q.start < q.end
    BY OwnIs
  <2>1. CASE js = s
    <3> HIDE DEF js, near
    <3> QED BY <1>9, <2>0, <2>1
  <2>2. CASE \E p \in map : ~p.reserved /\ p.end = s /\ Before(map, r) = {p} /\ js = p.start
    <3>1. PICK p \in map : Before(map, r) = {p} /\ js = p.start
      BY <2>2
    <3>2. q = p
      BY <1>9, <3>1 DEF Own
    <3> QED BY <1>9, <3>1, <3>2
  <2> HIDE DEF js, near, r
  <2> QED BY <1>3, <2>1, <2>2
<1> HIDE DEF near, js, je
<1>10. Own(map \ near) /\ \A u \in Nat : OnOffer(map \ near, u) => OnOffer(map, u)
  BY DropOwn
<1>11. Taken(map \ near) = Taken(map)
  BY DEF Taken, near, Before, After
<1>12. Grown((map \ near) \cup {j}, map \ near, js, je)
  <2>1. \A u \in Nat : In(u, j) => ~OnOffer(map \ near, u)
    BY <1>7, <1>8 DEF In
  <2>2. j.start < j.end
    <3> HIDE DEF j
    <3> QED BY <1>5, <1>7
  <2> HIDE DEF j
  <2> QED BY <1>7, <1>9, <1>10, <2>1, <2>2, PutOwn
<1> HIDE DEF j
<1>13. Grown((map \ near) \cup {j}, map, s, e)
  BY <1>8, <1>10, <1>11, <1>12 DEF Grown
<1> QED BY <1>6, <1>13 DEF j

(* Two regions on offer that touch, as one. *)
LEMMA MergeOwn ==
  ASSUME NEW map, Own(map), NEW p \in map, NEW q \in map, p # q, ~p.reserved, ~q.reserved,
         p.end = q.start, NEW j \in Region, j.start = p.start, j.end = q.end, ~j.reserved
  PROVE  Grown((map \ {p, q}) \cup {j}, map, 0, 0)
<1> DEFINE Z == {p, q}
<1>1. p.start \in Nat /\ p.end \in Nat /\ p.start < p.end /\ q.start \in Nat /\ q.end \in Nat /\ q.start < q.end
  BY OwnIs
<1>2. j \in Region /\ j.start = p.start /\ j.end = q.end /\ ~j.reserved /\ j.start < j.end
  BY <1>1
<1>3. Own(map \ Z) /\ \A u \in Nat : OnOffer(map \ Z, u) => OnOffer(map, u)
  BY DropOwn
<1>4. \A u \in Nat : In(u, j) => In(u, p) \/ In(u, q)
  BY <1>1, <1>2 DEF In
<1>5. \A u \in Nat : In(u, j) => ~OnOffer(map \ Z, u) /\ OnOffer(map, u)
  <2>1. \A u \in Nat : In(u, p) \/ In(u, q) => ~OnOffer(map \ Z, u)
    BY DropOwn
  <2> QED BY <1>4, <2>1 DEF OnOffer
<1>6. \A x \in map \ Z : x.start # j.start
  BY <1>2 DEF Own
<1>7. Grown((map \ Z) \cup {j}, map \ Z, j.start, j.end)
  <2> HIDE DEF Z
  <2> QED BY <1>2, <1>3, <1>5, <1>6, PutOwn
<1>8. Taken(map \ Z) = Taken(map)
  BY DEF Taken
<1>9. \A u \in Nat : j.start <= u /\ u < j.end => OnOffer(map, u)
  BY <1>5 DEF In
<1> HIDE DEF Z
<1>10. Grown((map \ Z) \cup {j}, map, 0, 0)
  BY <1>3, <1>7, <1>8, <1>9 DEF Grown
<1> QED BY <1>2, <1>10 DEF Z

(* A flag of an entry that is written anew. *)
LEMMA FlagOwn ==
  ASSUME NEW map, Own(map), NEW r \in map, NEW d \in BOOLEAN
  PROVE  LET c == [r EXCEPT !.dirty = d]
             new == (map \ {r}) \cup {c}
         IN  /\ Own(new) /\ \A u \in Nat : OnOffer(new, u) => OnOffer(map, u)
             /\ c.start = r.start /\ c.end = r.end /\ c.reserved = r.reserved
             /\ ~r.reserved => Taken(new) = Taken(map)
<1> DEFINE c == [r EXCEPT !.dirty = d]
           new == (map \ {r}) \cup {c}
<1>1. r = Entry(r.start, r.end, r.reserved, r.dirty) /\ r \in Region /\ r.start < r.end
  BY OwnIs
<1>2. c \in Region /\ c.start = r.start /\ c.end = r.end /\ c.reserved = r.reserved
  BY <1>1 DEF Region, Entry
<1> HIDE DEF c
<1>3. Own(new)
  BY <1>1, <1>2 DEF Own, NonEmpty, Apart
<1>4. \A u \in Nat : OnOffer(new, u) => OnOffer(map, u)
  BY <1>2 DEF OnOffer, In
<1>5. ~r.reserved => Taken(new) = Taken(map)
  BY <1>2 DEF Taken
<1> QED BY <1>2, <1>3, <1>4, <1>5 DEF c

LEMMA GrownAgain ==
  ASSUME NEW m, NEW k, NEW l, NEW s, NEW e, Grown(k, m, s, e), Grown(l, k, 0, 0)
  PROVE  Grown(l, m, s, e)
BY DEF Grown

(* The two merges of releaseReservation, as far as its assertions hold. *)
LEMMA MergePreviousOwn ==
  ASSUME NEW m, Own(m), NEW r \in m, ~r.reserved, MergePrevious(m, r).sound
  PROVE  LET j == MergePrevious(m, r)
         IN  Grown(j.map, m, 0, 0) /\ j.at \in j.map /\ ~j.at.reserved
<1> DEFINE below == Below(m, r.start)
           p == Last(below)
           j == MergePrevious(m, r)
<1>1. Grown(m, m, 0, 0)
  BY DEF Grown
<1>2. CASE ~(below # {} /\ ~p.reserved /\ p.end >= r.start)
  <2>1. j = [map |-> m, at |-> r, sound |-> TRUE]
    BY <1>2, Zenon DEF MergePrevious
  <2> QED BY <1>1, <2>1
<1>3. CASE below # {} /\ ~p.reserved /\ p.end >= r.start
  <2>1. r.start \in Nat /\ below \subseteq Region /\ \A q \in below : q.start <= r.start
    <3>1. r.start \in Nat /\ m \subseteq Region
      BY OwnIs DEF Own
    <3> QED BY <3>1 DEF Below, Region
  <2>2. p \in below
    <3> HIDE DEF below
    <3> QED BY <1>3, <2>1, LastLemma
  <2>3. PICK q : q = p
    OBVIOUS
  <2>4. q \in m /\ q.start < r.start /\ ~q.reserved
    BY <1>3, <2>2, <2>3 DEF Below
  <2>5. j = [map |-> (m \ {q, r}) \cup {Entry(q.start, r.end, FALSE, q.dirty)},
             at |-> Entry(q.start, r.end, FALSE, q.dirty), sound |-> q.end = r.start]
    BY <1>3, <2>3, Zenon DEF MergePrevious
  <2>6. q.end = r.start
    <3> HIDE DEF j
    <3>1. j.sound = (q.end = r.start)
      BY <2>5
    <3> QED BY <3>1 DEF j
  <2>7. q # r /\ q.dirty \in BOOLEAN
    BY <2>1, <2>4, OwnIs
  <2> HIDE DEF j
  <2>8. PICK x : x = Entry(q.start, r.end, FALSE, q.dirty)
    OBVIOUS
  <2>9. Grown((m \ {q, r}) \cup {x}, m, 0, 0) /\ ~x.reserved
    <3>1. q.start \in Nat /\ r.end \in Nat
      BY <2>4, OwnIs
    <3>2. x \in Region /\ x.start = q.start /\ x.end = r.end /\ ~x.reserved
      BY <2>7, <2>8, <3>1 DEF Entry, Region
    <3> QED BY <2>4, <2>6, <2>7, <3>2, MergeOwn
  <2>10. j.map = (m \ {q, r}) \cup {x} /\ j.at = x
    BY <2>5, <2>8
  <2>11. Grown(j.map, m, 0, 0) /\ ~x.reserved
    BY <2>9, <2>10
  <2> QED BY <2>10, <2>11 DEF j
<1> QED BY <1>2, <1>3

LEMMA MergeNextOwn ==
  ASSUME NEW m, Own(m), NEW r \in m, ~r.reserved, MergeNext(m, r).sound
  PROVE  LET j == MergeNext(m, r)
         IN  Grown(j.map, m, 0, 0) /\ j.at \in j.map /\ ~j.at.reserved
<1> DEFINE past == AtOrPast(m, r.start + 1)
           p == First(past)
           j == MergeNext(m, r)
<1>1. Grown(m, m, 0, 0)
  BY DEF Grown
<1>2. CASE ~(past # {} /\ ~p.reserved /\ r.end >= p.start)
  <2>1. j = [map |-> m, at |-> r, sound |-> TRUE]
    BY <1>2, Zenon DEF MergeNext
  <2> QED BY <1>1, <2>1
<1>3. CASE past # {} /\ ~p.reserved /\ r.end >= p.start
  <2>1. r.start \in Nat /\ past \subseteq Region
    <3>1. r.start \in Nat /\ m \subseteq Region
      BY OwnIs DEF Own
    <3> QED BY <3>1 DEF AtOrPast
  <2>2. p \in past
    <3> HIDE DEF past
    <3> QED BY <1>3, <2>1, FirstLemma
  <2>3. PICK q : q = p
    OBVIOUS
  <2>4. q \in m /\ q.start >= r.start + 1 /\ ~q.reserved
    BY <1>3, <2>2, <2>3 DEF AtOrPast
  <2>5. j = [map |-> (m \ {q, r}) \cup {Entry(r.start, q.end, FALSE, r.dirty)},
             at |-> Entry(r.start, q.end, FALSE, r.dirty), sound |-> r.end = q.start]
    BY <1>3, <2>3, Zenon DEF MergeNext
  <2>6. r.end = q.start
    <3> HIDE DEF j
    <3>1. j.sound = (r.end = q.start)
      BY <2>5
    <3> QED BY <3>1 DEF j
  <2>7. q # r /\ r.dirty \in BOOLEAN /\ {q, r} = {r, q}
    BY <2>1, <2>4, OwnIs
  <2> HIDE DEF j
  <2>8. PICK x : x = Entry(r.start, q.end, FALSE, r.dirty)
    OBVIOUS
  <2>9. Grown((m \ {r, q}) \cup {x}, m, 0, 0) /\ ~x.reserved
    <3>1. r.start \in Nat /\ q.end \in Nat
      BY <2>4, OwnIs
    <3>2. x \in Region /\ x.start = r.start /\ x.end = q.end /\ ~x.reserved
      BY <2>7, <2>8, <3>1 DEF Entry, Region
    <3> QED BY <2>4, <2>6, <2>7, <3>2, MergeOwn
  <2>10. j.map = (m \ {r, q}) \cup {x} /\ j.at = x
    BY <2>5, <2>7, <2>8
  <2>11. Grown(j.map, m, 0, 0) /\ ~x.reserved
    BY <2>9, <2>10
  <2> QED BY <2>10, <2>11 DEF j
<1> QED BY <1>2, <1>3

(* Releasing a reservation of which a part was used, both ways. *)
LEMMA ReleaseOwn ==
  ASSUME NEW m, Own(m), NEW r \in m, r.reserved, NEW z \in Nat,
         NEW s \in Nat, NEW n \in Nat, r.start <= s,
         ~(n = 0 \/ s >= z) => s < r.end /\ \A u \in Nat : s <= u /\ u < r.end => ~OnOffer(m, u)
  PROVE  LET h == [key |-> r.start, start |-> s, units |-> n]
             w == WalkRelease(m, z, h)
         IN  /\ n = 0 \/ s >= z => w.map = m \ {r} /\ Released(m, z, h) = m \ {r}
             /\ ~(n = 0 \/ s >= z) =>
                  /\ DisjointRegions(m) => Grown(Released(m, z, h), m \ {r}, s, r.end)
                  /\ w.sound => Grown(w.map, m \ {r}, s, r.end)
<1> DEFINE h == [key |-> r.start, start |-> s, units |-> n]
           w == WalkRelease(m, z, h)
           freed == Entry(s, r.end, FALSE, TRUE)
           m1 == (m \ {r}) \cup {freed}
           joined == MergePrevious(m1, freed)
           last == MergeNext(joined.map, joined.at)
<1>1. EntryOf(m, h) = r
  BY DEF EntryOf, Own
<1>2. r.start \in Nat /\ r.end \in Nat
  BY OwnIs
<1>3. CASE n = 0 \/ s >= z
  BY <1>1, <1>3 DEF WalkRelease, Released
<1>4. CASE ~(n = 0 \/ s >= z)
  <2>1. s < r.end /\ \A u \in Nat : s <= u /\ u < r.end => ~OnOffer(m, u)
    BY <1>4
  <2>2. Own(m \ {r}) /\ \A u \in Nat : OnOffer(m \ {r}, u) => OnOffer(m, u)
    BY DropOwn
  <2>3. ASSUME DisjointRegions(m) PROVE Grown(Released(m, z, h), m \ {r}, s, r.end)
    <3>1. Released(m, z, h) = Coalesce(m \ {r}, freed)
      BY <1>1, <1>4 DEF Released
    <3>2. DisjointRegions(m \ {r})
      BY <2>3 DEF DisjointRegions
    <3>3. \A q \in m \ {r} : q.end <= s \/ r.end <= q.start
      <4> SUFFICES ASSUME NEW q \in m \ {r} PROVE q.end <= s \/ r.end <= q.start
        OBVIOUS
      <4>1. Apart(q, r) /\ q.start \in Nat /\ q.end \in Nat
        BY <2>3, OwnIs DEF DisjointRegions
      <4> QED BY <1>2, <2>1, <4>1 DEF Apart
    <3>4. Grown(Coalesce(m \ {r}, freed), m \ {r}, s, r.end)
      BY <1>2, <2>1, <2>2, <3>2, <3>3, CoalesceOwn
    <3> QED BY <3>1, <3>4
  <2>4. ASSUME w.sound PROVE Grown(w.map, m \ {r}, s, r.end)
    <3>1. w = [map |-> (last.map \ {last.at}) \cup {[last.at EXCEPT !.dirty = TRUE]},
               sound |-> /\ \A q \in m : q.start = s => q = r
                         /\ joined.sound /\ last.sound]
      BY <1>1, <1>4, Zenon DEF WalkRelease
    <3>2. (\A q \in m : q.start = s => q = r) /\ joined.sound /\ last.sound
      <4> HIDE DEF joined, last
      <4> QED BY <2>4, <3>1
    <3>3. freed \in Region /\ ~freed.reserved /\ freed.start = s /\ freed.end = r.end
      BY <1>2 DEF Entry, Region
    <3>4. Grown(m1, m \ {r}, s, r.end)
      <4>1. \A u \in Nat : In(u, freed) => ~OnOffer(m \ {r}, u)
        BY <2>1, <2>2, <3>3 DEF In
      <4>2. \A q \in m \ {r} : q.start # freed.start
        BY <3>2, <3>3
      <4>3. freed.start < freed.end
        BY <2>1, <3>3
      <4> HIDE DEF freed
      <4> QED BY <2>2, <3>3, <4>1, <4>2, <4>3, PutOwn
    <3>5. Own(m1)
      BY <3>4 DEF Grown
    <3>6. freed \in m1
      OBVIOUS
    <3> HIDE DEF m1, freed
    <3>7. Grown(joined.map, m1, 0, 0) /\ joined.at \in joined.map /\ ~joined.at.reserved
      BY <3>2, <3>3, <3>5, <3>6, MergePreviousOwn
    <3>8. Own(joined.map)
      BY <3>7 DEF Grown
    <3> HIDE DEF joined
    <3>9. Grown(last.map, joined.map, 0, 0) /\ last.at \in last.map /\ ~last.at.reserved
      BY <3>2, <3>7, <3>8, MergeNextOwn
    <3>10. Own(last.map)
      BY <3>9 DEF Grown
    <3> HIDE DEF last
    <3> DEFINE new == (last.map \ {last.at}) \cup {[last.at EXCEPT !.dirty = TRUE]}
    <3>11. Own(new) /\ (\A u \in Nat : OnOffer(new, u) => OnOffer(last.map, u)) /\ Taken(new) = Taken(last.map)
      BY <3>9, <3>10, FlagOwn
    <3>12. Grown(new, last.map, 0, 0)
      BY <3>11 DEF Grown
    <3> HIDE DEF new
    <3>13. Grown(new, m \ {r}, s, r.end)
      BY <3>4, <3>7, <3>9, <3>12, GrownAgain
    <3>14. w.map = new
      BY <3>1 DEF new
    <3> QED BY <3>13, <3>14
  <2> QED BY <1>4, <2>3, <2>4
<1> QED BY <1>3, <1>4

------------------------------------------------------------------------------
(* What a reservation of [a.start, a.end) makes of the map: it is taken    *)
(* off what was on offer, or lies at the end z of the media.               *)
Allots(new, m, a, z) ==
  /\ Own(new) /\ a.start \in Nat /\ a.end \in Nat /\ a.start < a.end
  /\ a.start = z \/ (a.end <= z /\ Entry(a.start, a.end, TRUE, TRUE) \in new)
  /\ Taken(m) \subseteq Taken(new) /\ \E q \in Taken(new) : q.start = a.start
  /\ \A q \in Taken(new) : q \in Taken(m) \/ q.start = a.start
  /\ \A u \in Nat : OnOffer(new, u) => OnOffer(m, u) /\ ~(a.start <= u /\ u < a.end)
  /\ \A u \in Nat : a.start <= u /\ u < a.end => OnOffer(m, u) \/ z <= u

(* Entries of which none starts at or past z, or on an offered one. *)
Placed(m, z) ==
  /\ \A q \in m : q.start <= z
  /\ \A q \in m : ~q.reserved => q.end <= z
  /\ \A q, p \in m : q.reserved /\ ~p.reserved => ~In(q.start, p)

(* In the middle of a region on offer no other entry starts. *)
LEMMA NoKeyInside ==
  ASSUME NEW m, Own(m), NEW z \in Nat, Placed(m, z), NEW r \in m, ~r.reserved,
         NEW q \in m, q # r
  PROVE  ~In(q.start, r)
<1>1. q.start \in Nat /\ q.end \in Nat /\ q.start < q.end /\ r.start \in Nat /\ r.end \in Nat
  BY OwnIs
<1>2. CASE q.reserved
  BY <1>2 DEF Placed
<1>3. CASE ~q.reserved
  <2>1. Apart(q, r)
    BY <1>3 DEF Own
  <2> QED BY <1>1, <2>1 DEF Apart, In
<1> QED BY <1>2, <1>3

(* The middle of a region is reserved. *)
LEMMA CutOwn ==
  ASSUME NEW m, Own(m), NEW z \in Nat, Placed(m, z), NEW r \in m, ~r.reserved,
         NEW a, a.start \in Nat, a.end \in Nat, r.start <= a.start, a.start < a.end, a.end <= r.end
  PROVE  Allots((m \ {r}) \cup Cut(r, a.start, a.end), m, a, z)
<1> DEFINE s == a.start
           e == a.end
           k == Entry(s, e, TRUE, TRUE)
           C == Cut(r, s, e)
           new == (m \ {r}) \cup C
<1>1. r \in Region /\ r.start \in Nat /\ r.end \in Nat /\ r.start < r.end /\ r.end <= z
  BY OwnIs DEF Placed
<1>2. /\ k \in C
      /\ \A q \in C : /\ q \in Region /\ q.start < q.end /\ r.start <= q.start /\ q.end <= r.end
                      /\ q.reserved => q = k
                      /\ ~q.reserved => \/ q.start = r.start /\ q.end = s
                                        \/ q.start = e /\ q.end = r.end
      /\ \A p, q \in C : p = q \/ Apart(p, q)
  BY <1>1, CutLemma
<1>3. k.start = s /\ k.end = e /\ k.reserved
  BY DEF Entry
<1> HIDE DEF k, C
<1>4. \A q \in C : q.start \in Nat /\ q.end \in Nat /\ q.reserved \in BOOLEAN
  BY <1>2 DEF Region
<1>5. \A q \in C : In(q.start, r)
  BY <1>1, <1>2, <1>4 DEF In
<1>6. \A p \in m \ {r}, q \in C : p.start # q.start
  BY <1>5, NoKeyInside
<1>7. \A p, q \in C : p.start = q.start => p = q
  BY <1>2, <1>4 DEF Apart
<1>8. \A p \in m \ {r}, q \in C : ~p.reserved => Apart(p, q) /\ Apart(q, p)
  <2> SUFFICES ASSUME NEW p \in m \ {r}, NEW q \in C, ~p.reserved PROVE Apart(p, q) /\ Apart(q, p)
    OBVIOUS
  <2>1. Apart(p, r) /\ p.start \in Nat /\ p.end \in Nat
    BY OwnIs DEF Own
  <2>2. r.start <= q.start /\ q.end <= r.end /\ q.start \in Nat /\ q.end \in Nat
    BY <1>2, <1>4
  <2> QED BY <1>1, <2>1, <2>2 DEF Apart
<1>9. Own(new)
  <2>1. new \subseteq Region /\ NonEmpty(new)
    BY <1>2 DEF Own, NonEmpty
  <2>2. \A p, q \in new : p.start = q.start => p = q
    BY <1>6, <1>7 DEF Own
  <2>3. \A p, q \in new : ~p.reserved /\ ~q.reserved => p = q \/ Apart(p, q)
    BY <1>2, <1>8 DEF Own
  <2> QED BY <2>1, <2>2, <2>3 DEF Own
<1>10. Taken(m) \subseteq Taken(new) /\ (\A q \in Taken(new) : q \in Taken(m) \/ q.start = s)
       /\ k \in Taken(new)
  BY <1>2, <1>3 DEF Taken
<1>11. ASSUME NEW u \in Nat, OnOffer(new, u) PROVE OnOffer(m, u) /\ ~(s <= u /\ u < e)
  <2>1. PICK q \in new : ~q.reserved /\ In(u, q)
    BY <1>11 DEF OnOffer
  <2>2. CASE q \in C
    <3>1. In(u, r) /\ ~(s <= u /\ u < e)
      BY <1>1, <1>2, <1>4, <2>1, <2>2 DEF In
    <3> QED BY <3>1 DEF OnOffer
  <2>3. CASE q \in m \ {r}
    <3>1. Apart(q, r) /\ q.start \in Nat /\ q.end \in Nat
      BY <2>1, <2>3, OwnIs DEF Own
    <3>2. ~(s <= u /\ u < e)
      BY <1>1, <2>1, <3>1 DEF Apart, In
    <3> QED BY <2>1, <2>3, <3>2 DEF OnOffer
  <2> QED BY <2>2, <2>3
<1>12. \A u \in Nat : s <= u /\ u < e => OnOffer(m, u)
  BY <1>1 DEF OnOffer, In
<1>13. e <= z
  BY <1>1
<1>14. Entry(s, e, TRUE, TRUE) \in new
  BY <1>2 DEF k
<1> HIDE DEF new
<1>15. Allots(new, m, a, z)
  BY <1>3, <1>9, <1>10, <1>11, <1>12, <1>13, <1>14 DEF Allots
<1> QED BY <1>15 DEF new, C

(* An area past the end of the media is reserved, or one is already. *)
LEMMA EndOwn ==
  ASSUME NEW m, Own(m), NEW z \in Nat, Placed(m, z), NEW a, a.start = z, a.end \in Nat, z < a.end
  PROVE  Allots(Insert(m, Entry(a.start, a.end, TRUE, TRUE)), m, a, z)
<1> DEFINE k == Entry(a.start, a.end, TRUE, TRUE)
           new == Insert(m, k)
<1>1. k \in Region /\ k.start = z /\ k.end = a.end /\ k.reserved
  BY DEF Entry, Region
<1> HIDE DEF k
<1>2. \A q \in m : q.start \in Nat /\ q.end \in Nat /\ q.start < q.end /\ q.start <= z
                   /\ (~q.reserved => q.end <= z)
  BY OwnIs DEF Placed
<1>3. new = m \/ (new = m \cup {k} /\ \A q \in m : q.start # k.start)
  BY DEF Insert
<1>4. Own(new)
  BY <1>1, <1>3 DEF Own, NonEmpty
<1>5. Taken(m) \subseteq Taken(new) /\ (\A q \in Taken(new) : q \in Taken(m) \/ q.start = z)
  BY <1>1, <1>3 DEF Taken
<1>6. \E q \in Taken(new) : q.start = z
  <2>1. \E q \in new : q.start = z
    BY <1>1 DEF Insert
  <2>2. \A q \in new : q.start = z => q.reserved
    BY <1>1, <1>2, <1>3
  <2> QED BY <2>1, <2>2 DEF Taken
<1>7. \A u \in Nat : OnOffer(new, u) => OnOffer(m, u)
  BY <1>1, <1>3 DEF OnOffer
<1>8. \A u \in Nat : OnOffer(m, u) => u < z
  <2> SUFFICES ASSUME NEW u \in Nat, NEW q \in m, ~q.reserved, In(u, q) PROVE u < z
    BY DEF OnOffer
  <2> QED BY <1>2 DEF In
<1> HIDE DEF new
<1>9. \A u \in Nat : OnOffer(new, u) => OnOffer(m, u) /\ ~(a.start <= u /\ u < a.end)
  BY <1>7, <1>8
<1>10. Allots(new, m, a, z)
  BY <1>4, <1>5, <1>6, <1>9 DEF Allots
<1> QED BY <1>10 DEF new, k

(* The entry that the code's search finds is on offer and can serve. *)
LEMMA ServingLemma ==
  ASSUME NEW m, Own(m), NEW z \in Nat, Placed(m, z),
         NEW from \in Nat, NEW minimum \in Nat, Serving(m, from, minimum) # {}
  PROVE  LET r == First(Serving(m, from, minimum))
         IN  /\ r \in m /\ ~r.reserved
             /\ r.start + minimum <= r.end /\ from + minimum <= r.end
<1> DEFINE below == Below(m, from)
           serving == Serving(m, from, minimum)
<1>1. below # {} => Last(below) \in m
  <2>1. below \subseteq Region /\ \A q \in below : q.start <= z
    BY DEF Below, Own, Placed
  <2>2. below # {} => Last(below) \in below
    <3> HIDE DEF below
    <3> QED BY <2>1, LastLemma
  <2> QED BY <2>2 DEF Below
<1>2. SearchFrom(m, from) \subseteq m
  BY <1>1 DEF SearchFrom, AtOrPast
<1>3. serving \subseteq m /\ \A q \in serving : Serves(q, from, minimum)
  BY <1>2 DEF Serving
<1>4. First(serving) \in serving
  <2>1. serving \subseteq Region
    BY <1>3 DEF Own
  <2> HIDE DEF serving
  <2> QED BY <2>1, FirstLemma DEF serving
<1>5. PICK r \in serving : r = First(serving)
  BY <1>4
<1>6. r \in m /\ r.start \in Nat /\ r.end \in Nat /\ Serves(r, from, minimum)
  BY <1>3, OwnIs
<1>7. ~r.reserved /\ r.start + minimum <= r.end /\ from + minimum <= r.end
  BY <1>6 DEF Serves
<1> QED BY <1>5, <1>6, <1>7

(* What serves is cut out of the region. *)
LEMMA ServedOwn ==
  ASSUME NEW m, Own(m), NEW z \in Nat, Placed(m, z), NEW r \in m, ~r.reserved,
         NEW from \in Nat, NEW minimum \in Nat, NEW desired \in Nat,
         1 <= minimum, minimum <= desired,
         r.start + minimum <= r.end, from + minimum <= r.end,
         NEW a, a = [start |-> Higher(r.start, from), end |-> Lower(Higher(r.start, from) + desired, r.end)]
  PROVE  Allots((m \ {r}) \cup Cut(r, a.start, a.end), m, a, z)
<1>1. r.start \in Nat /\ r.end \in Nat /\ r.start < r.end
  BY OwnIs
<1>2. a.start = Higher(r.start, from) /\ a.end = Lower(Higher(r.start, from) + desired, r.end)
  OBVIOUS
<1>3. a.start \in Nat /\ a.end \in Nat /\ r.start <= a.start /\ a.start < a.end /\ a.end <= r.end
  BY <1>1, <1>2 DEF Higher, Lower
<1> QED BY <1>3, CutOwn

(* The inserts of the code's walk make that cut. *)
Inserts(left, r, s, e) ==
  IF e < r.end
  THEN Insert(Insert(left, Entry(s, e, TRUE, TRUE)), Entry(e, r.end, FALSE, TRUE))
  ELSE Insert(left, Entry(s, e, TRUE, TRUE))

LEMMA WalkCut ==
  ASSUME NEW m, Own(m), NEW z \in Nat, Placed(m, z), NEW r \in m, ~r.reserved,
         NEW s \in Nat, NEW e \in Nat, r.start <= s, s < e, e <= r.end,
         NEW left, left = (m \ {r}) \cup LeftOf(r, s)
  PROVE  Inserts(left, r, s, e) = (m \ {r}) \cup Cut(r, s, e)
<1> DEFINE l == Entry(r.start, s, FALSE, TRUE)
           k == Entry(s, e, TRUE, TRUE)
           n == Entry(e, r.end, FALSE, TRUE)
           mine == Insert(left, k)
<1>1. r.start \in Nat /\ r.end \in Nat /\ r.start < r.end
  BY OwnIs
<1>2. l.start = r.start /\ k.start = s /\ n.start = e
  BY DEF Entry
<1>3. /\ Cut(r, s, e) = LeftOf(r, s) \cup {k} \cup RightOf(r, e)
      /\ LeftOf(r, s) = IF r.start < s THEN {l} ELSE {}
      /\ RightOf(r, e) = IF e < r.end THEN {n} ELSE {}
  BY DEF Cut, LeftOf, RightOf
<1> HIDE DEF l, k, n
<1>4. \A q \in m \ {r} : ~(r.start <= q.start /\ q.start < r.end)
  BY NoKeyInside DEF In
<1>5. \A q \in left : q.start # s
  BY <1>1, <1>2, <1>3, <1>4
<1>6. mine = left \cup {k}
  BY <1>2, <1>5 DEF Insert
<1>7. ASSUME e < r.end PROVE Insert(mine, n) = mine \cup {n}
  <2>1. \A q \in mine : q.start # e
    BY <1>1, <1>2, <1>3, <1>4, <1>6, <1>7
  <2> HIDE DEF mine
  <2> QED BY <1>2, <2>1 DEF Insert
<1>8. e < r.end => mine \cup {n} = (m \ {r}) \cup Cut(r, s, e)
  BY <1>3, <1>6
<1>9. ~(e < r.end) => mine = (m \ {r}) \cup Cut(r, s, e)
  BY <1>3, <1>6
<1>10. Inserts(left, r, s, e) = IF e < r.end THEN Insert(mine, n) ELSE mine
  BY Zenon DEF Inserts, l, k, n
<1> HIDE DEF mine
<1> QED BY <1>7, <1>8, <1>9, <1>10

(* reserveFreeSpaceArea, where no entries overlap and where some do. *)
LEMMA ReserveOwn ==
  ASSUME NEW m, Own(m), NEW z \in Nat, Placed(m, z),
         NEW from \in Nat, NEW minimum \in Nat, NEW desired \in Nat,
         1 <= minimum, minimum <= desired
  PROVE  /\ Allots(Reserved(m, z, from, minimum, desired), m,
                   Allocation(m, z, from, minimum, desired), z)
         /\ Allots(WalkReserve(m, z, from, minimum, desired), m,
                   WalkAllocation(m, z, from, minimum, desired), z)
<1> DEFINE end == [start |-> z, end |-> z + desired]
<1>1. Allots(Insert(m, Entry(end.start, end.end, TRUE, TRUE)), m, end, z)
  <2>1. PICK x : x = end
    OBVIOUS
  <2>2. x.start = z /\ x.end = z + desired /\ x.end \in Nat /\ z < x.end
    BY <2>1
  <2>3. Allots(Insert(m, Entry(x.start, x.end, TRUE, TRUE)), m, x, z)
    BY <2>2, EndOwn
  <2> QED BY <2>1, <2>3
<1>2. Allots(Reserved(m, z, from, minimum, desired), m, Allocation(m, z, from, minimum, desired), z)
  <2>1. CASE Usable(m, from, minimum) = {}
    BY <1>1, <2>1 DEF Reserved, Allocation
  <2>2. CASE Usable(m, from, minimum) # {}
    <3> DEFINE r == First(Usable(m, from, minimum))
               a == [start |-> Higher(r.start, from), end |-> Lower(Higher(r.start, from) + desired, r.end)]
    <3>1. r \in Usable(m, from, minimum)
      <4>1. Usable(m, from, minimum) \subseteq Region
        BY DEF Usable, Own
      <4> QED BY <2>2, <4>1, FirstLemma
    <3>2. Allocation(m, z, from, minimum, desired) = a
      BY <2>2 DEF Allocation
    <3>3. Reserved(m, z, from, minimum, desired) = (m \ {r}) \cup Cut(r, a.start, a.end)
      BY <2>2, <3>2 DEF Reserved
    <3>4. PICK q \in m : q = r /\ ~q.reserved /\ q.start + minimum <= q.end /\ from + minimum <= q.end
      <4>1. PICK q : q = r
        OBVIOUS
      <4>2. q \in m /\ ~q.reserved /\ q.end >= q.start + minimum /\ q.end >= from + minimum
        BY <3>1, <4>1 DEF Usable
      <4>3. q.start \in Nat /\ q.end \in Nat
        BY <4>2, OwnIs
      <4> HIDE DEF r
      <4> QED BY <4>1, <4>2, <4>3
    <3>5. PICK x : x = [start |-> Higher(q.start, from), end |-> Lower(Higher(q.start, from) + desired, q.end)]
      OBVIOUS
    <3>6. x = a
      BY <3>4, <3>5
    <3> HIDE DEF r, a
    <3>7. Allots((m \ {q}) \cup Cut(q, x.start, x.end), m, x, z)
      BY <3>4, <3>5, ServedOwn
    <3> QED BY <3>2, <3>3, <3>4, <3>6, <3>7
  <2> QED BY <2>1, <2>2
<1>3. Allots(WalkReserve(m, z, from, minimum, desired), m,
             WalkAllocation(m, z, from, minimum, desired), z)
  <2>1. CASE Serving(m, from, minimum) = {}
    BY <1>1, <2>1 DEF WalkReserve, WalkAllocation
  <2>2. CASE Serving(m, from, minimum) # {}
    <3> DEFINE r == First(Serving(m, from, minimum))
    <3>1. PICK q : q = r
      OBVIOUS
    <3>2. q \in m /\ ~q.reserved /\ q.start + minimum <= q.end /\ from + minimum <= q.end
      BY <2>2, <3>1, ServingLemma
    <3>3. q.start \in Nat /\ q.end \in Nat
      BY <3>2, OwnIs
    <3>4. PICK x : x = [start |-> Higher(q.start, from), end |-> Lower(Higher(q.start, from) + desired, q.end)]
      OBVIOUS
    <3>5. WalkAllocation(m, z, from, minimum, desired)
          = [start |-> IF q.start < from THEN from ELSE q.start,
             end |-> IF (IF q.start < from THEN from ELSE q.start) + desired < q.end
                     THEN (IF q.start < from THEN from ELSE q.start) + desired ELSE q.end]
      BY <2>2, <3>1, Zenon DEF WalkAllocation
    <3>6. (IF q.start < from THEN from ELSE q.start) = Higher(q.start, from)
      BY <3>3 DEF Higher
    <3>7. (IF Higher(q.start, from) + desired < q.end THEN Higher(q.start, from) + desired ELSE q.end)
          = Lower(Higher(q.start, from) + desired, q.end)
      BY <3>3 DEF Higher, Lower
    <3>8. WalkAllocation(m, z, from, minimum, desired) = x
      BY <3>4, <3>5, <3>6, <3>7
    <3>9. /\ x.start \in Nat /\ x.end \in Nat /\ q.start <= x.start /\ x.start < x.end /\ x.end <= q.end
          /\ (q.start < from <=> q.start < x.start)
      <4>1. x.start = Higher(q.start, from) /\ x.end = Lower(Higher(q.start, from) + desired, q.end)
        BY <3>4
      <4> QED BY <3>2, <3>3, <4>1 DEF Higher, Lower
    <3>10. PICK left : left = (m \ {q}) \cup LeftOf(q, x.start)
      OBVIOUS
    <3>11. left = IF q.start < from THEN (m \ {q}) \cup {Entry(q.start, x.start, FALSE, TRUE)} ELSE m \ {q}
      BY <3>9, <3>10 DEF LeftOf
    <3>12. WalkReserve(m, z, from, minimum, desired) = Inserts(left, q, x.start, x.end)
      BY <2>2, <3>1, <3>8, <3>11, Zenon DEF WalkReserve, Inserts
    <3>13. Inserts(left, q, x.start, x.end) = (m \ {q}) \cup Cut(q, x.start, x.end)
      BY <3>2, <3>9, <3>10, WalkCut
    <3>14. WalkReserve(m, z, from, minimum, desired) = (m \ {q}) \cup Cut(q, x.start, x.end)
      BY <3>12, <3>13
    <3>15. Allots((m \ {q}) \cup Cut(q, x.start, x.end), m, x, z)
      BY <3>2, <3>4, ServedOwn
    <3> QED BY <3>8, <3>14, <3>15
  <2> QED BY <2>1, <2>2
<1> QED BY <1>2, <1>3

------------------------------------------------------------------------------
(* The invariant where writes may fail.  What is on offer lies on the      *)
(* media and is no live chunk's.                                           *)
OfferInv ==
  /\ Own(freeMap)
  /\ \A u \in Nat : OnOffer(freeMap, u) => u < scan /\ u \notin used

(* A reserved entry, left behind or held, begins where nothing lives and   *)
(* nothing is on offer.                                                    *)
TakenInv ==
  \A r \in Taken(freeMap) :
    r.start \in Nat /\ r.start <= size /\ r.start \notin used /\ ~OnOffer(freeMap, r.start)

(* The area that is held begins at a reserved entry and has no other in    *)
(* it; where the entry was put there for it, it ends with it.              *)
AreaInv ==
  held # NoHandle =>
    /\ held.key = held.start /\ 1 <= held.units /\ ~flush.active /\ scan = size
    /\ \E r \in Taken(freeMap) : r.start = held.start
    /\ \/ held.start = size
       \/ /\ held.start + held.units <= size
          /\ Entry(held.start, held.start + held.units, TRUE, TRUE) \in freeMap
    /\ \A u \in Nat : held.start <= u /\ u < held.start + held.units =>
         /\ u \notin used /\ ~OnOffer(freeMap, u)
         /\ \A r \in Taken(freeMap) : r.start = u => u = held.start

PlaceInv ==
  /\ HeaderUnits <= scan /\ scan <= size
  /\ used \subseteq 0 .. size - 1 /\ 0 .. HeaderUnits - 1 \subseteq used
  /\ \A f \in fills : f.start < f.end /\ f.end <= size

(* Only the fill chunks of an entry that was left behind can lie where     *)
(* live chunks are: a later reservation may overlap it.                    *)
Overwritten == \E f \in fills : \E u \in used : In(u, f)

LeftInv ==
  /\ Overwritten => \E r \in Taken(freeMap) : r.start < size /\ (held # NoHandle => r.start # held.start)
  /\ scan < size => Taken(freeMap) = {} /\ held = NoHandle

FaultInv == TypeOK /\ OfferInv /\ TakenInv /\ AreaInv /\ PlaceInv /\ LeftInv /\ FlushInv

LEMMA FaultInit == Init => FaultInv
<1> SUFFICES ASSUME Init PROVE FaultInv
  OBVIOUS
<1> USE SizesLemma DEF Init
<1>1. TypeOK
  BY DEF TypeOK, NonEmpty, NoHandle, NoFlush
<1>2. OfferInv /\ TakenInv /\ AreaInv
  BY DEF OfferInv, TakenInv, AreaInv, Own, NonEmpty, OnOffer, Taken
<1>3. PlaceInv /\ LeftInv
  BY DEF PlaceInv, LeftInv, Overwritten, Taken
<1>4. FlushInv
  BY DEF FlushInv, InArea, NoFlush
<1> QED BY <1>1, <1>2, <1>3, <1>4 DEF FaultInv

LEMMA FaultStutter == FaultInv /\ UNCHANGED trackerVars => FaultInv'
<1> SUFFICES ASSUME FaultInv, UNCHANGED trackerVars PROVE FaultInv'
  OBVIOUS
<1> USE DEF trackerVars
<1>1. TypeOK' /\ OfferInv' /\ TakenInv'
  BY DEF FaultInv, TypeOK, OfferInv, TakenInv
<1>2. PlaceInv' /\ LeftInv'
  BY DEF FaultInv, PlaceInv, LeftInv, Overwritten
<1>3. AreaInv' /\ FlushInv'
  BY DEF FaultInv, AreaInv, FlushInv, InArea
<1> QED BY <1>1, <1>2, <1>3 DEF FaultInv

(* What the invariant says of the map as the lemmas on maps want it. *)
LEMMA FaultMap ==
  ASSUME FaultInv
  PROVE  /\ Own(freeMap) /\ size \in Nat /\ scan \in Nat /\ scan <= size
         /\ scan = size => Placed(freeMap, size)
         /\ \A r \in freeMap : r.start <= size
<1>1. Own(freeMap) /\ size \in Nat /\ scan \in Nat /\ scan <= size
  BY DEF FaultInv, TypeOK, OfferInv, PlaceInv
<1>2. ASSUME NEW r \in freeMap, ~r.reserved PROVE r.end <= scan /\ r.start <= size
  <2>1. r.start \in Nat /\ r.end \in Nat /\ r.start < r.end
    BY <1>1, OwnIs
  <2>2. OnOffer(freeMap, r.end - 1)
    BY <1>2, <2>1 DEF OnOffer, In
  <2>3. r.end - 1 < scan
    BY <2>1, <2>2 DEF FaultInv, OfferInv
  <2> QED BY <1>1, <2>1, <2>3
<1>3. ASSUME NEW r \in freeMap, r.reserved
      PROVE  r.start <= size /\ r.start \in Nat /\ ~OnOffer(freeMap, r.start)
  BY <1>3 DEF FaultInv, TakenInv, Taken
<1>4. \A r \in freeMap : r.start <= size
  BY <1>1, <1>2, <1>3, OwnIs
<1>5. ASSUME scan = size PROVE Placed(freeMap, size)
  <2>1. \A q, p \in freeMap : q.reserved /\ ~p.reserved => ~In(q.start, p)
    BY <1>3 DEF OnOffer
  <2> QED BY <1>2, <1>4, <1>5, <2>1 DEF Placed
<1> QED BY <1>1, <1>4, <1>5

(* A chunk becomes free: of the reserved entries none begins in it. *)
LEMMA FaultNewFree ==
  ASSUME FaultInv, NEW s \in Nat, NEW n \in Nat, NewFree(s, n)
  PROVE  FaultInv'
<1>1. /\ held = NoHandle /\ ~flush.active /\ scan = size /\ HeaderUnits <= s /\ 0 < n
      /\ \A u \in s .. (s + n - 1) : u \in used
      /\ used' = used \ (s .. (s + n - 1))
      /\ UNCHANGED <<size, fills, held, flush, scan>>
      /\ NewFreeArea(s, n, TRUE)
  <2>1. /\ Idle /\ s >= HeaderUnits /\ n > 0 /\ Units(s, s + n) \subseteq used /\ NewFreeArea(s, n, TRUE)
        /\ used' = used \ Units(s, s + n) /\ UNCHANGED <<size, fills, held, flush, scan>>
    BY Zenon DEF NewFree
  <2>2. held = NoHandle /\ ~flush.active /\ scan = size /\ Units(s, s + n) = s .. (s + n - 1)
    BY <2>1 DEF Idle, Units
  <2>3. HeaderUnits <= s /\ 0 < n /\ \A u \in Units(s, s + n) : u \in used
    BY <2>1, SizesLemma
  <2> QED BY <2>1, <2>2, <2>3, Zenon
<1>2. Own(freeMap) /\ size \in Nat /\ scan \in Nat /\ \A r \in freeMap : r.start <= size
  BY FaultMap
<1>3. \A u \in Nat : s <= u /\ u < s + n => u \in used /\ ~OnOffer(freeMap, u)
  BY <1>1 DEF FaultInv, OfferInv
<1>4. Grown(freeMap', freeMap, s, s + n)
  <2>1. CASE Disjoint /\ \A r \in freeMap : r.end <= s \/ s + n <= r.start
    <3>1. freeMap' = Coalesce(freeMap, Entry(s, s + n, FALSE, TRUE))
      BY <1>1, <2>1 DEF NewFreeArea, NewFreeSpaceArea
    <3>2. s + n \in Nat /\ s < s + n
      BY <1>1
    <3>3. Grown(Coalesce(freeMap, Entry(s, s + n, FALSE, TRUE)), freeMap, s, s + n)
      BY <1>2, <2>1, <3>2, CoalesceOwn DEF Disjoint
    <3> QED BY <3>1, <3>3
  <2>2. CASE ~(Disjoint /\ \A r \in freeMap : r.end <= s \/ s + n <= r.start)
    <3>1. WalkNewFree(freeMap, s, n, TRUE).sound /\ freeMap' = WalkNewFree(freeMap, s, n, TRUE).map
      BY <1>1, <2>2 DEF NewFreeArea
    <3>2. Grown(WalkNewFree(freeMap, s, n, TRUE).map, freeMap, s, s + n)
      BY <1>1, <1>2, <1>3, <3>1, WalkNewFreeOwn
    <3> QED BY <3>1, <3>2
  <2> QED BY <2>1, <2>2
<1>5. /\ Own(freeMap') /\ Taken(freeMap') = Taken(freeMap)
      /\ \A u \in Nat : OnOffer(freeMap', u) => OnOffer(freeMap, u) \/ (s <= u /\ u < s + n)
  BY <1>4 DEF Grown
<1>6. TypeOK'
  BY <1>1, <1>5 DEF FaultInv, TypeOK, Own
<1>7. OfferInv'
  <2>1. ASSUME NEW u \in Nat, OnOffer(freeMap', u) PROVE u < scan' /\ u \notin used'
    <3>1. CASE s <= u /\ u < s + n
      <4>1. u \in used /\ u \in s .. (s + n - 1)
        BY <1>3, <3>1
      <4> QED BY <1>1, <1>2, <4>1 DEF FaultInv, PlaceInv
    <3>2. CASE OnOffer(freeMap, u)
      BY <1>1, <3>2 DEF FaultInv, OfferInv
    <3> QED BY <1>5, <2>1, <3>1, <3>2
  <2> QED BY <1>5, <2>1 DEF OfferInv
<1>8. TakenInv'
  <2>1. ASSUME NEW r \in Taken(freeMap)
        PROVE  r.start \in Nat /\ r.start <= size' /\ r.start \notin used' /\ ~OnOffer(freeMap', r.start)
    <3>1. r.start \in Nat /\ r.start <= size /\ r.start \notin used /\ ~OnOffer(freeMap, r.start)
      BY DEF FaultInv, TakenInv
    <3>2. ~(s <= r.start /\ r.start < s + n)
      BY <1>3, <3>1
    <3> QED BY <1>1, <1>5, <3>1, <3>2
  <2> QED BY <1>5, <2>1 DEF TakenInv
<1>9. AreaInv' /\ FlushInv'
  BY <1>1 DEF AreaInv, FlushInv, InArea
<1>10. PlaceInv'
  BY <1>1, SizesLemma DEF FaultInv, PlaceInv
<1>11. LeftInv'
  <2>1. Overwritten' => Overwritten
    BY <1>1 DEF Overwritten
  <2> QED BY <1>1, <1>5, <2>1 DEF FaultInv, LeftInv
<1> QED BY <1>6, <1>7, <1>8, <1>9, <1>10, <1>11 DEF FaultInv

(* Reserving takes off what is on offer, or takes the end of the media;    *)
(* nothing that was left behind begins in what is handed out.              *)
LEMMA FaultReserve ==
  ASSUME FaultInv, NEW from \in Nat, NEW minimum \in Nat, NEW desired \in Nat,
         1 <= minimum, minimum <= desired, Reserve(from, minimum, desired)
  PROVE  FaultInv'
<1>1. /\ held = NoHandle /\ ~flush.active /\ scan = size
      /\ UNCHANGED <<size, used, fills, flush, scan>>
  BY DEF Reserve, Idle
<1>2. Own(freeMap) /\ size \in Nat /\ Placed(freeMap, size)
  BY <1>1, FaultMap
<1>3. PICK a : /\ held' = [key |-> a.start, start |-> a.start, units |-> a.end - a.start,
                           from |-> from, minimum |-> minimum]
               /\ Allots(freeMap', freeMap, a, size)
  <2>1. CASE Disjoint
    <3>1. /\ held' = [key |-> Allocation(freeMap, size, from, minimum, desired).start,
                      start |-> Allocation(freeMap, size, from, minimum, desired).start,
                      units |-> Allocation(freeMap, size, from, minimum, desired).end
                                  - Allocation(freeMap, size, from, minimum, desired).start,
                      from |-> from, minimum |-> minimum]
          /\ freeMap' = Reserved(freeMap, size, from, minimum, desired)
      BY <2>1, Zenon DEF Reserve
    <3>2. Allots(Reserved(freeMap, size, from, minimum, desired), freeMap,
                 Allocation(freeMap, size, from, minimum, desired), size)
      BY <1>2, ReserveOwn
    <3>3. PICK a : a = Allocation(freeMap, size, from, minimum, desired)
      OBVIOUS
    <3> QED BY <3>1, <3>2, <3>3
  <2>2. CASE ~Disjoint
    <3>1. /\ held' = [key |-> WalkAllocation(freeMap, size, from, minimum, desired).start,
                      start |-> WalkAllocation(freeMap, size, from, minimum, desired).start,
                      units |-> WalkAllocation(freeMap, size, from, minimum, desired).end
                                  - WalkAllocation(freeMap, size, from, minimum, desired).start,
                      from |-> from, minimum |-> minimum]
          /\ freeMap' = WalkReserve(freeMap, size, from, minimum, desired)
      BY <2>2, Zenon DEF Reserve
    <3>2. Allots(WalkReserve(freeMap, size, from, minimum, desired), freeMap,
                 WalkAllocation(freeMap, size, from, minimum, desired), size)
      BY <1>2, ReserveOwn
    <3>3. PICK a : a = WalkAllocation(freeMap, size, from, minimum, desired)
      OBVIOUS
    <3> QED BY <3>1, <3>2, <3>3
  <2> QED BY <2>1, <2>2
<1>4. a.start \in Nat /\ a.end \in Nat /\ a.start < a.end /\ Own(freeMap')
      /\ Taken(freeMap) \subseteq Taken(freeMap')
  BY <1>3 DEF Allots
<1>5. /\ held'.key = a.start /\ held'.start = a.start /\ held'.units = a.end - a.start
      /\ held' \in [key : Nat, start : Nat, units : Nat, from : Nat, minimum : Nat]
  BY <1>3, <1>4
<1>6. held'.start + held'.units = a.end /\ 1 <= held'.units
  BY <1>4, <1>5
<1>7. \A q \in Taken(freeMap') : q \in Taken(freeMap) \/ q.start = a.start
  BY <1>3 DEF Allots
<1>8. \A u \in Nat : OnOffer(freeMap', u) => OnOffer(freeMap, u) /\ ~(a.start <= u /\ u < a.end)
  BY <1>3 DEF Allots
<1>9. \A u \in Nat : a.start <= u /\ u < a.end => OnOffer(freeMap, u) \/ size <= u
  BY <1>3 DEF Allots
<1>10. \A q \in Taken(freeMap) : /\ q.start \in Nat /\ q.start <= size /\ q.start \notin used
                                 /\ ~OnOffer(freeMap, q.start)
  BY DEF FaultInv, TakenInv
<1>11. \A u \in Nat : a.start <= u /\ u < a.end => u \notin used
  BY <1>2, <1>9 DEF FaultInv, OfferInv, PlaceInv
<1>12. \/ a.start = size
       \/ a.end <= size /\ Entry(a.start, a.end, TRUE, TRUE) \in freeMap'
  BY <1>3 DEF Allots
<1>13. a.start = size \/ a.end <= size
  BY <1>12
<1>14. a.start <= size /\ a.start \notin used /\ ~OnOffer(freeMap', a.start)
  BY <1>2, <1>4, <1>8, <1>11, <1>13
<1>15. TypeOK'
  BY <1>1, <1>4, <1>5 DEF FaultInv, TypeOK, Own
<1>16. OfferInv'
  BY <1>1, <1>4, <1>8 DEF FaultInv, OfferInv
<1>17. TakenInv'
  <2>1. ASSUME NEW q \in Taken(freeMap')
        PROVE  q.start \in Nat /\ q.start <= size' /\ q.start \notin used' /\ ~OnOffer(freeMap', q.start)
    <3>1. CASE q \in Taken(freeMap)
      BY <1>1, <1>8, <1>10, <3>1
    <3>2. CASE q.start = a.start
      BY <1>1, <1>4, <1>14, <3>2
    <3> QED BY <1>7, <3>1, <3>2
  <2> QED BY <2>1 DEF TakenInv
<1>18. AreaInv'
  <2>1. ASSUME NEW u \in Nat, a.start <= u, u < a.end
        PROVE  u \notin used /\ ~OnOffer(freeMap', u) /\ \A q \in Taken(freeMap') : q.start = u => u = a.start
    <3>1. ASSUME NEW q \in Taken(freeMap), q.start = u PROVE u = a.start
      <4>1. size <= u /\ u <= size
        BY <1>9, <1>10, <2>1, <3>1
      <4> QED BY <1>2, <1>4, <1>13, <2>1, <4>1
    <3> QED BY <1>7, <1>8, <1>11, <2>1, <3>1
  <2>2. \E q \in Taken(freeMap') : q.start = a.start
    BY <1>3 DEF Allots
  <2>3. held'.key = held'.start /\ 1 <= held'.units /\ ~flush'.active /\ scan' = size'
    BY <1>1, <1>5, <1>6
  <2>4. \/ held'.start = size'
        \/ /\ held'.start + held'.units <= size'
           /\ Entry(held'.start, held'.start + held'.units, TRUE, TRUE) \in freeMap'
    BY <1>1, <1>5, <1>6, <1>12
  <2>5. \A u \in Nat : held'.start <= u /\ u < held'.start + held'.units =>
          u \notin used' /\ ~OnOffer(freeMap', u) /\ \A q \in Taken(freeMap') : q.start = u => u = held'.start
    BY <1>1, <1>5, <1>6, <2>1
  <2> QED BY <1>5, <2>2, <2>3, <2>4, <2>5 DEF AreaInv
<1>19. PlaceInv' /\ FlushInv'
  BY <1>1 DEF FaultInv, PlaceInv, FlushInv, InArea
<1>20. LeftInv'
  <2>1. ASSUME Overwritten' PROVE \E q \in Taken(freeMap') : q.start < size' /\ q.start # held'.start
    <3>1. Overwritten
      BY <1>1, <2>1 DEF Overwritten
    <3>2. PICK q \in Taken(freeMap) : q.start < size
      BY <3>1 DEF FaultInv, LeftInv
    <3>3. ~(a.start <= q.start /\ q.start < a.end)
      BY <1>2, <1>9, <1>10, <3>2
    <3>4. q.start # a.start
      BY <1>4, <3>3
    <3> QED BY <1>1, <1>4, <1>5, <3>2, <3>4
  <2> QED BY <1>1, <1>2, <2>1 DEF LeftInv
<1> QED BY <1>15, <1>16, <1>17, <1>18, <1>19, <1>20 DEF FaultInv

(* Of the area that is held a chunk comes to life, and what is left of it  *)
(* is given back, or dropped where it lies past the end.                   *)
LEMMA FaultCommit ==
  ASSUME FaultInv, NEW c \in ChunkUnits, Commit(c)
  PROVE  FaultInv'
<1> DEFINE s == held.start
           e == held.start + c
           z == Higher(size, e)
           h == [key |-> held.key, start |-> e, units |-> held.units - c]
<1>1. /\ held # NoHandle /\ s <= size /\ c <= held.units
      /\ size' = z /\ scan' = z /\ used' = used \cup Units(s, e)
      /\ fills' = Unwritten(s, e) /\ ReleaseReservation(z, h)
      /\ held' = NoHandle /\ flush' = flush
  BY Zenon DEF Commit
<1>2. /\ held.key = s /\ ~flush.active /\ scan = size
      /\ \E r \in Taken(freeMap) : r.start = s
      /\ s = size \/ (s + held.units <= size /\ Entry(s, s + held.units, TRUE, TRUE) \in freeMap)
      /\ \A u \in Nat : s <= u /\ u < s + held.units =>
           u \notin used /\ ~OnOffer(freeMap, u) /\ \A r \in Taken(freeMap) : r.start = u => u = s
  BY <1>1 DEF FaultInv, AreaInv
<1>3. s \in Nat /\ held.units \in Nat /\ size \in Nat /\ c \in Nat /\ 1 <= c /\ Own(freeMap)
  BY SizesLemma DEF FaultInv, TypeOK, OfferInv
<1>4. e \in Nat /\ z \in Nat /\ size <= z /\ e <= z /\ (z = size \/ z = e) /\ s < e /\ e <= s + held.units
  BY <1>1, <1>3 DEF Higher
<1>5. PICK r \in freeMap : r.reserved /\ r.start = s
  BY <1>2 DEF Taken
<1>6. r.end \in Nat
  BY <1>3, OwnIs
<1>7. ASSUME s # size PROVE r.end = s + held.units /\ s + held.units <= size
  <2>1. s + held.units <= size /\ Entry(s, s + held.units, TRUE, TRUE) \in freeMap
    BY <1>2, <1>7
  <2>2. Entry(s, s + held.units, TRUE, TRUE).start = s
        /\ Entry(s, s + held.units, TRUE, TRUE).end = s + held.units
    BY DEF Entry
  <2>3. r = Entry(s, s + held.units, TRUE, TRUE)
    BY <1>3, <1>5, <2>1, <2>2 DEF Own
  <2> QED BY <2>1, <2>2, <2>3
<1>8. s = size => e >= z
  BY <1>3, <1>4 DEF Higher
<1> DEFINE n == held.units - c
<1>9. n \in Nat /\ h = [key |-> r.start, start |-> e, units |-> n] /\ r.start <= e
  BY <1>1, <1>2, <1>3, <1>4, <1>5
<1>10. ~(n = 0 \/ e >= z) => e < r.end /\ r.end = s + held.units /\ r.end <= size
                             /\ \A u \in Nat : e <= u /\ u < r.end => ~OnOffer(freeMap, u)
  BY <1>2, <1>3, <1>4, <1>7, <1>8
<1>11. LET g == [key |-> r.start, start |-> e, units |-> n]
           w == WalkRelease(freeMap, z, g)
       IN  /\ n = 0 \/ e >= z => w.map = freeMap \ {r} /\ Released(freeMap, z, g) = freeMap \ {r}
           /\ ~(n = 0 \/ e >= z) =>
                /\ DisjointRegions(freeMap) => Grown(Released(freeMap, z, g), freeMap \ {r}, e, r.end)
                /\ w.sound => Grown(w.map, freeMap \ {r}, e, r.end)
  <2>1. e \in Nat /\ n \in Nat /\ z \in Nat
    BY <1>4, <1>9
  <2>2. ~(n = 0 \/ e >= z) => e < r.end /\ \A u \in Nat : e <= u /\ u < r.end => ~OnOffer(freeMap, u)
    BY <1>10
  <2>3. r.start <= e
    BY <1>9
  <2> HIDE DEF e, n, z, s
  <2> QED BY <1>3, <1>5, <2>1, <2>2, <2>3, ReleaseOwn
<1>12. \/ Disjoint /\ freeMap' = Released(freeMap, z, h)
       \/ WalkRelease(freeMap, z, h).sound /\ freeMap' = WalkRelease(freeMap, z, h).map
  BY <1>1 DEF ReleaseReservation
<1> HIDE DEF s, e, z, h, n
<1>13. Own(freeMap \ {r}) /\ \A u \in Nat : OnOffer(freeMap \ {r}, u) => OnOffer(freeMap, u)
  BY <1>3, DropOwn
<1>14. /\ Own(freeMap') /\ Taken(freeMap') = Taken(freeMap \ {r})
       /\ \A u \in Nat : OnOffer(freeMap', u) =>
            OnOffer(freeMap, u) \/ (e <= u /\ u < s + held.units /\ u < size)
  <2>1. CASE n = 0 \/ e >= z
    <3>1. freeMap' = freeMap \ {r}
      BY <1>9, <1>11, <1>12, <2>1
    <3> QED BY <1>13, <3>1
  <2>2. CASE ~(n = 0 \/ e >= z)
    <3>1. Grown(freeMap', freeMap \ {r}, e, r.end)
      BY <1>9, <1>11, <1>12, <2>2 DEF Disjoint
    <3>2. r.end = s + held.units /\ r.end <= size
      BY <1>10, <2>2
    <3>3. \A u \in Nat : u < r.end => u < s + held.units /\ u < size
      BY <1>3, <1>6, <3>2
    <3> QED BY <1>13, <3>1, <3>3 DEF Grown
  <2> QED BY <2>1, <2>2
<1>15. \A q \in Taken(freeMap') : q \in Taken(freeMap) /\ q.start # s
  BY <1>3, <1>5, <1>14 DEF Taken, Own
<1>16. \A q \in Taken(freeMap) : q.start # s => q \in Taken(freeMap')
  BY <1>5, <1>14 DEF Taken
<1>17. \A u \in Nat : u \in used' <=> u \in used \/ (s <= u /\ u < e)
  BY <1>1, <1>3, <1>4 DEF Units
<1>18. TypeOK'
  <2>1. freeMap' \in SUBSET Region /\ NonEmpty(freeMap')
    BY <1>14 DEF Own
  <2>2. used' \in SUBSET Nat /\ fills' \in SUBSET [start : Nat, end : Nat]
    BY <1>1, <1>3, <1>4 DEF FaultInv, TypeOK, Units, Unwritten
  <2> QED BY <1>1, <1>4, <2>1, <2>2 DEF FaultInv, TypeOK, NoHandle
<1>19. OfferInv'
  <2>1. ASSUME NEW u \in Nat, OnOffer(freeMap', u) PROVE u < scan' /\ u \notin used'
    <3>1. CASE OnOffer(freeMap, u)
      <4>1. u < scan /\ u \notin used
        BY <3>1 DEF FaultInv, OfferInv
      <4>2. ~(s <= u /\ u < e)
        BY <1>2, <1>3, <1>4, <3>1
      <4> QED BY <1>1, <1>2, <1>3, <1>4, <1>17, <4>1, <4>2
    <3>2. CASE e <= u /\ u < s + held.units /\ u < size
      <4>1. u \notin used
        BY <1>2, <1>3, <1>4, <3>2
      <4> QED BY <1>1, <1>3, <1>4, <1>17, <3>2, <4>1
    <3> QED BY <1>14, <2>1, <3>1, <3>2
  <2> QED BY <1>14, <2>1 DEF OfferInv
<1>20. TakenInv'
  <2>1. ASSUME NEW q \in Taken(freeMap')
        PROVE  q.start \in Nat /\ q.start <= size' /\ q.start \notin used' /\ ~OnOffer(freeMap', q.start)
    <3>1. q \in Taken(freeMap) /\ q.start # s
      BY <1>15
    <3>2. q.start \in Nat /\ q.start <= size /\ q.start \notin used /\ ~OnOffer(freeMap, q.start)
      BY <3>1 DEF FaultInv, TakenInv
    <3>3. ~(s <= q.start /\ q.start < s + held.units)
      BY <1>2, <3>1, <3>2
    <3> QED BY <1>1, <1>3, <1>4, <1>14, <1>17, <3>2, <3>3
  <2> QED BY <2>1 DEF TakenInv
<1>21. AreaInv' /\ FlushInv'
  BY <1>1, <1>2 DEF AreaInv, FlushInv, InArea
<1>22. PlaceInv'
  <2>1. used' \subseteq 0 .. size' - 1 /\ 0 .. HeaderUnits - 1 \subseteq used'
    BY <1>1, <1>3, <1>4 DEF FaultInv, PlaceInv, Units
  <2>2. \A f \in fills' : f.start < f.end /\ f.end <= size /\ f.end \in Nat
    BY <1>1 DEF FaultInv, PlaceInv, TypeOK, Unwritten
  <2>3. HeaderUnits <= scan' /\ scan' <= size' /\ \A f \in fills' : f.start < f.end /\ f.end <= size'
    BY <1>1, <1>2, <1>3, <1>4, <2>2, SizesLemma DEF FaultInv, PlaceInv
  <2> QED BY <2>1, <2>3 DEF PlaceInv
<1>23. LeftInv'
  <2>1. ASSUME Overwritten' PROVE \E q \in Taken(freeMap') : q.start < size'
    <3>1. PICK f \in fills', u \in used' : In(u, f)
      BY <2>1 DEF Overwritten
    <3>2. f \in fills /\ (f.end <= s \/ e <= f.start) /\ f.start \in Nat /\ f.end \in Nat /\ u \in Nat
      BY <1>1, <1>18 DEF Unwritten, FaultInv, TypeOK
    <3>3. u \in used
      BY <1>3, <1>4, <1>17, <3>1, <3>2 DEF In
    <3>4. Overwritten
      BY <3>1, <3>2, <3>3 DEF Overwritten
    <3>5. PICK q \in Taken(freeMap) : q.start < size /\ q.start # s
      BY <1>1, <3>4 DEF FaultInv, LeftInv, s
    <3>6. q.start \in Nat
      BY DEF FaultInv, TakenInv
    <3> QED BY <1>1, <1>3, <1>4, <1>16, <3>5, <3>6
  <2> QED BY <1>1, <1>4, <2>1 DEF LeftInv
<1> QED BY <1>18, <1>19, <1>20, <1>21, <1>22, <1>23 DEF FaultInv

(* A save fails: its reservation stays in the map, and is nobody's. *)
LEMMA FaultAbandon ==
  ASSUME FaultInv, NEW n \in Nat, Abandon(n)
  PROVE  FaultInv'
<1> DEFINE e == held.start + n
<1>1. /\ held # NoHandle /\ n <= held.units /\ scan' = size' /\ held' = NoHandle
      /\ size' = IF n = 0 THEN size ELSE Higher(size, e)
      /\ fills' = IF n = 0 THEN fills ELSE Unwritten(held.start, e)
      /\ UNCHANGED <<freeMap, used, flush>>
  BY Zenon DEF Abandon
<1>2. ~flush.active /\ scan = size /\ held.start \in Nat /\ size \in Nat /\ e \in Nat
  BY <1>1 DEF FaultInv, AreaInv, TypeOK
<1>3. size' \in Nat /\ size <= size'
  BY <1>1, <1>2 DEF Higher
<1>4. fills' \subseteq fills
  BY <1>1 DEF Unwritten
<1> HIDE DEF e
<1>5. TypeOK'
  BY <1>1, <1>3, <1>4 DEF FaultInv, TypeOK, NoHandle
<1>6. OfferInv'
  BY <1>1, <1>2, <1>3 DEF FaultInv, OfferInv
<1>7. TakenInv'
  BY <1>1, <1>2, <1>3 DEF FaultInv, TakenInv
<1>8. AreaInv' /\ FlushInv'
  BY <1>1, <1>2 DEF AreaInv, FlushInv, InArea
<1>9. PlaceInv'
  <2>1. \A f \in fills' : f.start < f.end /\ f.end <= size'
    <3>1. \A f \in fills' : f.start < f.end /\ f.end <= size /\ f.end \in Nat
      BY <1>4 DEF FaultInv, PlaceInv, TypeOK
    <3> QED BY <1>2, <1>3, <3>1
  <2>2. used' \subseteq 0 .. size' - 1 /\ 0 .. HeaderUnits - 1 \subseteq used'
    BY <1>1, <1>2, <1>3 DEF FaultInv, PlaceInv
  <2> QED BY <1>1, <1>2, <1>3, <2>1, <2>2, SizesLemma DEF FaultInv, PlaceInv
<1>10. LeftInv'
  <2>1. Overwritten' => Overwritten
    BY <1>1, <1>4 DEF Overwritten
  <2>2. ASSUME Overwritten' PROVE \E q \in Taken(freeMap') : q.start < size'
    <3>1. PICK q \in Taken(freeMap) : q.start < size /\ q.start \in Nat
      BY <2>1, <2>2 DEF FaultInv, LeftInv, TakenInv
    <3> QED BY <1>1, <1>2, <1>3, <3>1
  <2> QED BY <1>1, <1>3, <2>2 DEF LeftInv
<1> QED BY <1>5, <1>6, <1>7, <1>8, <1>9, <1>10 DEF FaultInv

(* While a flush writes an area nothing is held, and the area is an        *)
(* entry's.                                                                *)
LEMMA FaultArea ==
  ASSUME FaultInv, flush.active
  PROVE  /\ held = NoHandle /\ scan = size /\ size \in Nat
         /\ flush.start \in Nat /\ flush.end \in Nat
BY DEF FaultInv, TypeOK, FlushInv, AreaInv

(* The next dirty entry, a reserved one too, is marked as written. *)
LEMMA FaultFlushEntry ==
  ASSUME FaultInv, FlushEntry
  PROVE  FaultInv'
<1>1. /\ flush.active /\ Ahead # {}
      /\ freeMap' = Flushed(freeMap, First(Ahead))
      /\ flush' = [next |-> First(Ahead).start + 1, start |-> First(Ahead).start,
                   end |-> First(Ahead).end, active |-> TRUE]
      /\ UNCHANGED <<size, used, fills, held, scan>>
  BY DEF FlushEntry
<1>2. held = NoHandle /\ scan = size /\ Own(freeMap)
  BY <1>1, FaultArea, FaultMap
<1>3. First(Ahead) \in freeMap
  <2>1. Ahead \subseteq Region /\ Ahead \subseteq freeMap
    BY <1>2 DEF Ahead, Own
  <2>2. First(Ahead) \in Ahead
    BY <1>1, <2>1, FirstLemma
  <2> QED BY <2>1, <2>2
<1>4. PICK r \in freeMap : r = First(Ahead)
  BY <1>3
<1> DEFINE d == [r EXCEPT !.dirty = FALSE]
<1>5. freeMap' = (freeMap \ {r}) \cup {d}
  BY <1>1, <1>4 DEF Flushed
<1>6. /\ Own(freeMap') /\ \A u \in Nat : OnOffer(freeMap', u) => OnOffer(freeMap, u)
      /\ d.start = r.start /\ d.end = r.end /\ d.reserved = r.reserved
  BY <1>2, <1>5, FlagOwn
<1> HIDE DEF d
<1>7. r.start \in Nat /\ r.end \in Nat
  BY <1>2, OwnIs
<1>8. \A q \in Taken(freeMap') : \E p \in Taken(freeMap) : p.start = q.start
  BY <1>5, <1>6 DEF Taken
<1>9. \A p \in Taken(freeMap) : \E q \in Taken(freeMap') : q.start = p.start
  BY <1>5, <1>6 DEF Taken
<1>10. flush' = [next |-> r.start + 1, start |-> r.start, end |-> r.end, active |-> TRUE]
  BY <1>1, <1>4
<1>11. TypeOK'
  <2>1. flush' \in [next : Nat, start : Nat, end : Nat, active : BOOLEAN]
    BY <1>7, <1>10
  <2> QED BY <1>1, <1>6, <2>1 DEF FaultInv, TypeOK, Own
<1>12. OfferInv'
  BY <1>1, <1>6 DEF FaultInv, OfferInv
<1>13. TakenInv'
  <2>1. ASSUME NEW q \in Taken(freeMap')
        PROVE  q.start \in Nat /\ q.start <= size' /\ q.start \notin used' /\ ~OnOffer(freeMap', q.start)
    <3>1. PICK p \in Taken(freeMap) : p.start = q.start
      BY <1>8
    <3>2. p.start \in Nat /\ p.start <= size /\ p.start \notin used /\ ~OnOffer(freeMap, p.start)
      BY DEF FaultInv, TakenInv
    <3> QED BY <1>1, <1>6, <3>1, <3>2
  <2> QED BY <2>1 DEF TakenInv
<1>14. AreaInv' /\ PlaceInv'
  BY <1>1, <1>2 DEF FaultInv, AreaInv, PlaceInv
<1>15. LeftInv'
  <2>1. ASSUME Overwritten' PROVE \E q \in Taken(freeMap') : q.start < size'
    <3>1. Overwritten
      BY <1>1, <2>1 DEF Overwritten
    <3>2. PICK p \in Taken(freeMap) : p.start < size
      BY <3>1 DEF FaultInv, LeftInv
    <3>3. PICK q \in Taken(freeMap') : q.start = p.start
      BY <1>9
    <3> QED BY <1>1, <3>2, <3>3
  <2>2. size \in Nat
    BY FaultMap
  <2> QED BY <1>1, <1>2, <2>1, <2>2 DEF LeftInv
<1>16. FlushInv'
  <2>1. flush'.start = d.start /\ flush'.end = d.end /\ d \in freeMap'
    BY <1>5, <1>6, <1>10
  <2>2. d.start <= flush'.start /\ flush'.end <= d.end
    BY <1>6, <1>7, <2>1
  <2> QED BY <1>1, <1>2, <2>1, <2>2 DEF FlushInv
<1> QED BY <1>11, <1>12, <1>13, <1>14, <1>15, <1>16 DEF FaultInv

(* A fill chunk is written into an entry: where that is on offer no chunk  *)
(* lives, where it is reserved one was left behind.                        *)
LEMMA FaultFlushChunk ==
  ASSUME FaultInv, FlushChunk
  PROVE  FaultInv'
<1> DEFINE s == flush.start
           e == s + Largest(flush.end - s)
           g == [start |-> s, end |-> e]
<1>1. /\ InArea /\ fills' = Unwritten(s, e) \cup {g}
      /\ size' = Higher(size, e) /\ scan' = Higher(size, e)
      /\ flush' = [flush EXCEPT !.start = e]
      /\ UNCHANGED <<freeMap, used, held>>
  BY Zenon DEF FlushChunk
<1>2. /\ flush.active /\ s < flush.end /\ held = NoHandle /\ scan = size /\ size \in Nat
      /\ s \in Nat /\ flush.end \in Nat
  BY <1>1, FaultArea DEF InArea
<1>3. PICK r \in freeMap : r.start <= s /\ flush.end <= r.end
  BY <1>1 DEF FaultInv, FlushInv
<1>4. e \in Nat /\ s < e /\ e <= flush.end
  <2>1. flush.end - s \in Nat /\ 1 <= flush.end - s
    BY <1>2
  <2>2. /\ Largest(flush.end - s) \in Nat /\ 1 <= Largest(flush.end - s)
        /\ Largest(flush.end - s) <= flush.end - s
    BY <2>1, LargestLemma
  <2> QED BY <1>2, <2>2
<1>5. g.start = s /\ g.end = e /\ g \in [start : Nat, end : Nat]
  BY <1>2, <1>4
<1>6. flush'.start = e /\ flush'.end = flush.end /\ flush'.active
      /\ flush' \in [next : Nat, start : Nat, end : Nat, active : BOOLEAN]
  BY <1>1, <1>2, <1>4 DEF FaultInv, TypeOK
<1> HIDE DEF s, e, g
<1>7. size' \in Nat /\ size <= size' /\ e <= size' /\ scan' = size'
  BY <1>1, <1>2, <1>4 DEF Higher
<1>8. Own(freeMap) /\ r.start \in Nat /\ r.end \in Nat
  BY FaultMap, OwnIs
<1>9. TypeOK'
  <2>1. fills' \in SUBSET [start : Nat, end : Nat]
    BY <1>1, <1>5 DEF FaultInv, TypeOK, Unwritten
  <2> QED BY <1>1, <1>6, <1>7, <2>1 DEF FaultInv, TypeOK
<1>10. OfferInv'
  BY <1>1, <1>2, <1>7 DEF FaultInv, OfferInv
<1>11. TakenInv'
  BY <1>1, <1>2, <1>7 DEF FaultInv, TakenInv
<1>12. AreaInv'
  BY <1>1, <1>2 DEF AreaInv
<1>13. PlaceInv'
  <2>1. used' \subseteq 0 .. size' - 1 /\ 0 .. HeaderUnits - 1 \subseteq used'
    BY <1>1, <1>2, <1>7 DEF FaultInv, PlaceInv
  <2>2. HeaderUnits <= scan' /\ scan' <= size'
    BY <1>2, <1>7, SizesLemma DEF FaultInv, PlaceInv
  <2>3. ASSUME NEW f \in fills' PROVE f.start < f.end /\ f.end <= size'
    <3>1. CASE f \in fills
      <4>1. f.start < f.end /\ f.end <= size /\ f.end \in Nat
        BY <3>1 DEF FaultInv, PlaceInv, TypeOK
      <4> QED BY <1>2, <1>7, <4>1
    <3>2. CASE f = g
      BY <1>4, <1>5, <1>7, <3>2
    <3> QED BY <1>1, <3>1, <3>2 DEF Unwritten
  <2> QED BY <2>1, <2>2, <2>3 DEF PlaceInv
<1>14. LeftInv'
  <2>1. ASSUME Overwritten' PROVE \E q \in Taken(freeMap) : q.start < size'
    <3>1. PICK f \in fills', u \in used : In(u, f)
      BY <1>1, <2>1 DEF Overwritten
    <3>2. u \in Nat
      BY DEF FaultInv, TypeOK
    <3>3. CASE f \in fills
      <4>1. PICK q \in Taken(freeMap) : q.start < size
        BY <3>1, <3>3 DEF Overwritten, FaultInv, LeftInv
      <4>2. q.start \in Nat
        BY DEF FaultInv, TakenInv
      <4> QED BY <1>2, <1>7, <4>1, <4>2
    <3>4. CASE f = g
      <4>1. In(u, r)
        BY <1>2, <1>3, <1>4, <1>5, <1>8, <3>1, <3>2, <3>4 DEF In
      <4>2. r.reserved
        BY <3>2, <4>1 DEF OnOffer, FaultInv, OfferInv
      <4>3. r.start < size'
        BY <1>2, <1>3, <1>4, <1>7, <1>8
      <4> QED BY <4>2, <4>3 DEF Taken
    <3> QED BY <1>1, <3>1, <3>3, <3>4 DEF Unwritten
  <2> QED BY <1>1, <1>2, <1>7, <2>1 DEF LeftInv
<1>15. FlushInv'
  <2>1. r \in freeMap' /\ r.start <= flush'.start /\ flush'.end <= r.end
    BY <1>1, <1>2, <1>3, <1>4, <1>6, <1>8
  <2> QED BY <1>7, <2>1 DEF FlushInv
<1> QED BY <1>9, <1>10, <1>11, <1>12, <1>13, <1>14, <1>15 DEF FaultInv

(* A flush begins, and ends or stops with nothing written. *)
LEMMA FaultFlushBorder ==
  ASSUME FaultInv, FlushBegin \/ FlushEnd \/ FlushFails(0)
  PROVE  FaultInv'
<1>1. UNCHANGED <<freeMap, size, used, fills, held, scan>>
  BY DEF FlushBegin, FlushEnd, FlushFails, AreaRefused
<1>2. held = NoHandle /\ scan = size
  BY FaultArea DEF FlushBegin, Idle, FlushEnd, FlushFails, InArea
<1>3. flush' = [NoFlush EXCEPT !.active = TRUE] \/ flush' = NoFlush
  BY DEF FlushBegin, FlushEnd, FlushFails, AreaRefused
<1>4. flush' \in [next : Nat, start : Nat, end : Nat, active : BOOLEAN] /\ ~InArea'
  <2>1. \E b \in BOOLEAN : flush' = [next |-> 0, start |-> 0, end |-> 0, active |-> b]
    BY <1>3 DEF NoFlush
  <2> QED BY <2>1 DEF InArea
<1>5. TypeOK'
  BY <1>1, <1>4 DEF FaultInv, TypeOK
<1>6. OfferInv' /\ TakenInv' /\ PlaceInv'
  BY <1>1 DEF FaultInv, OfferInv, TakenInv, PlaceInv
<1>7. AreaInv' /\ FlushInv'
  BY <1>1, <1>2, <1>4 DEF AreaInv, FlushInv
<1>8. LeftInv'
  BY <1>1 DEF FaultInv, LeftInv, Overwritten
<1> QED BY <1>5, <1>6, <1>7, <1>8 DEF FaultInv

(* The save of a fill chunk fails half way: where its header shows it as a *)
(* chunk of the media, it lies in the entry as a whole one would.          *)
LEMMA FaultFlushTorn ==
  ASSUME FaultInv, NEW n \in Nat \ {0}, FlushFails(n)
  PROVE  FaultInv'
<1> DEFINE s == flush.start
           e == s + Largest(flush.end - s)
           g == [start |-> s, end |-> e]
<1>1. /\ InArea /\ fills' = Unwritten(s, e) \cup {f \in {g} : e <= size'}
      /\ s + n <= e /\ size' = Higher(size, s + n) /\ scan' = size'
      /\ flush' = NoFlush
      /\ UNCHANGED <<freeMap, used, held>>
  BY DEF FlushFails, FillTorn
<1>2. /\ flush.active /\ s < flush.end /\ held = NoHandle /\ scan = size /\ size \in Nat
      /\ s \in Nat /\ flush.end \in Nat
  BY <1>1, FaultArea DEF InArea
<1>3. PICK r \in freeMap : r.start <= s /\ flush.end <= r.end
  BY <1>1 DEF FaultInv, FlushInv
<1>4. e \in Nat /\ s < e /\ e <= flush.end
  <2>1. flush.end - s \in Nat /\ 1 <= flush.end - s
    BY <1>2
  <2>2. /\ Largest(flush.end - s) \in Nat /\ 1 <= Largest(flush.end - s)
        /\ Largest(flush.end - s) <= flush.end - s
    BY <2>1, LargestLemma
  <2> QED BY <1>2, <2>2
<1>5. g.start = s /\ g.end = e /\ g \in [start : Nat, end : Nat]
  BY <1>2, <1>4
<1>6. ~InArea' /\ flush' \in [next : Nat, start : Nat, end : Nat, active : BOOLEAN]
  BY <1>1 DEF NoFlush, InArea
<1> HIDE DEF s, e, g
<1>7. size' \in Nat /\ size <= size' /\ s < size' /\ scan' = size'
  BY <1>1, <1>2, <1>4 DEF Higher
<1>8. Own(freeMap) /\ r.start \in Nat /\ r.end \in Nat
  BY FaultMap, OwnIs
<1>9. TypeOK'
  <2>1. fills' \in SUBSET [start : Nat, end : Nat]
    BY <1>1, <1>5 DEF FaultInv, TypeOK, Unwritten
  <2> QED BY <1>1, <1>6, <1>7, <2>1 DEF FaultInv, TypeOK
<1>10. OfferInv'
  BY <1>1, <1>2, <1>7 DEF FaultInv, OfferInv
<1>11. TakenInv'
  BY <1>1, <1>2, <1>7 DEF FaultInv, TakenInv
<1>12. AreaInv' /\ FlushInv'
  BY <1>1, <1>2, <1>6, <1>7 DEF AreaInv, FlushInv
<1>13. PlaceInv'
  <2>1. used' \subseteq 0 .. size' - 1 /\ 0 .. HeaderUnits - 1 \subseteq used'
    BY <1>1, <1>2, <1>7 DEF FaultInv, PlaceInv
  <2>2. HeaderUnits <= scan' /\ scan' <= size'
    BY <1>2, <1>7, SizesLemma DEF FaultInv, PlaceInv
  <2>3. ASSUME NEW f \in fills' PROVE f.start < f.end /\ f.end <= size'
    <3>1. CASE f \in fills
      <4>1. f.start < f.end /\ f.end <= size /\ f.end \in Nat
        BY <3>1 DEF FaultInv, PlaceInv, TypeOK
      <4> QED BY <1>2, <1>7, <4>1
    <3>2. CASE f = g /\ e <= size'
      BY <1>4, <1>5, <3>2
    <3> QED BY <1>1, <3>1, <3>2 DEF Unwritten
  <2> QED BY <2>1, <2>2, <2>3 DEF PlaceInv
<1>14. LeftInv'
  <2>1. ASSUME Overwritten' PROVE \E q \in Taken(freeMap) : q.start < size'
    <3>1. PICK f \in fills', u \in used : In(u, f)
      BY <1>1, <2>1 DEF Overwritten
    <3>2. u \in Nat
      BY DEF FaultInv, TypeOK
    <3>3. CASE f \in fills
      <4>1. PICK q \in Taken(freeMap) : q.start < size
        BY <3>1, <3>3 DEF Overwritten, FaultInv, LeftInv
      <4>2. q.start \in Nat
        BY DEF FaultInv, TakenInv
      <4> QED BY <1>2, <1>7, <4>1, <4>2
    <3>4. CASE f = g
      <4>1. In(u, r)
        BY <1>2, <1>3, <1>4, <1>5, <1>8, <3>1, <3>2, <3>4 DEF In
      <4>2. r.reserved
        BY <3>2, <4>1 DEF OnOffer, FaultInv, OfferInv
      <4>3. r.start < size'
        BY <1>2, <1>3, <1>4, <1>7, <1>8
      <4> QED BY <4>2, <4>3 DEF Taken
    <3> QED BY <1>1, <3>1, <3>3, <3>4 DEF Unwritten
  <2> QED BY <1>1, <1>2, <1>7, <2>1 DEF LeftInv
<1> QED BY <1>9, <1>10, <1>11, <1>12, <1>13, <1>14 DEF FaultInv

(* A program that opens the container anew forgets the map. *)
LEMMA FaultReopen ==
  ASSUME FaultInv, Reopen
  PROVE  FaultInv'
<1>1. /\ held = NoHandle /\ ~flush.active /\ \A r \in freeMap : ~r.reserved
      /\ freeMap' = {} /\ scan' = HeaderUnits /\ HeaderUnits < size
      /\ UNCHANGED <<size, used, fills, held, flush>>
  BY DEF Reopen, Idle
<1>2. TypeOK'
  BY <1>1, SizesLemma DEF FaultInv, TypeOK, NonEmpty
<1>3. OfferInv' /\ TakenInv'
  <2>1. Own({}) /\ Taken({}) = {} /\ \A u : ~OnOffer({}, u)
    BY DEF Own, NonEmpty, OnOffer, Taken
  <2>2. Own(freeMap') /\ Taken(freeMap') = {} /\ \A u \in Nat : ~OnOffer(freeMap', u)
    BY <1>1, <2>1
  <2> QED BY <2>2 DEF OfferInv, TakenInv
<1>4. AreaInv' /\ FlushInv'
  BY <1>1 DEF AreaInv, FlushInv, InArea
<1>5. PlaceInv'
  <2>1. HeaderUnits <= scan' /\ scan' <= size'
    BY <1>1, FaultMap, SizesLemma
  <2> QED BY <1>1, <2>1 DEF FaultInv, PlaceInv
<1>6. LeftInv'
  <2>1. ~Overwritten /\ Taken(freeMap') = {}
    BY <1>1 DEF FaultInv, LeftInv, Taken
  <2>2. ~Overwritten'
    BY <1>1, <2>1 DEF Overwritten
  <2> QED BY <1>1, <2>1, <2>2 DEF LeftInv
<1> QED BY <1>2, <1>3, <1>4, <1>5, <1>6 DEF FaultInv

(* The scan comes to a fill chunk: nothing lives in it, for nothing was    *)
(* left behind.                                                            *)
LEMMA FaultScanFill ==
  ASSUME FaultInv, ScanFill
  PROVE  FaultInv'
<1>1. PICK f \in fills : /\ f.start = scan /\ scan < size /\ scan' = f.end
                         /\ NewFreeArea(f.start, f.end - f.start, FALSE)
                         /\ UNCHANGED <<size, used, fills, held, flush>>
  BY DEF ScanFill
<1>2. /\ Own(freeMap) /\ size \in Nat /\ scan \in Nat /\ f.start \in Nat /\ f.end \in Nat
      /\ f.start < f.end /\ f.end <= size
  BY FaultMap DEF FaultInv, TypeOK, PlaceInv
<1>3. held = NoHandle /\ Taken(freeMap) = {} /\ ~flush.active /\ ~Overwritten
  BY <1>1, <1>2 DEF FaultInv, LeftInv, FlushInv
<1>4. \A r \in freeMap : ~r.reserved
  BY <1>3 DEF Taken
<1>5. DisjointRegions(freeMap)
  BY <1>2, <1>4 DEF Own, DisjointRegions
<1>6. \A r \in freeMap : r.end <= f.start
  <2> SUFFICES ASSUME NEW r \in freeMap PROVE r.end <= f.start
    OBVIOUS
  <2>1. r.start \in Nat /\ r.end \in Nat /\ r.start < r.end
    BY <1>2, OwnIs
  <2>2. OnOffer(freeMap, r.end - 1)
    BY <1>4, <2>1 DEF OnOffer, In
  <2>3. r.end - 1 < scan
    BY <2>1, <2>2 DEF FaultInv, OfferInv
  <2> QED BY <1>1, <1>2, <2>1, <2>3
<1>7. Grown(freeMap', freeMap, f.start, f.end)
  <2>1. f.start + (f.end - f.start) = f.end
    BY <1>2
  <2>2. freeMap' = Coalesce(freeMap, Entry(f.start, f.end, FALSE, FALSE))
    BY <1>1, <1>5, <1>6, <2>1 DEF NewFreeArea, NewFreeSpaceArea, Disjoint
  <2>3. Grown(Coalesce(freeMap, Entry(f.start, f.end, FALSE, FALSE)), freeMap, f.start, f.end)
    BY <1>2, <1>5, <1>6, CoalesceOwn
  <2> QED BY <2>2, <2>3
<1>8. /\ Own(freeMap') /\ Taken(freeMap') = {}
      /\ \A u \in Nat : OnOffer(freeMap', u) => OnOffer(freeMap, u) \/ (f.start <= u /\ u < f.end)
  BY <1>3, <1>7 DEF Grown
<1>9. \A u \in Nat : f.start <= u /\ u < f.end => u \notin used
  BY <1>3 DEF Overwritten, In
<1>10. TypeOK'
  BY <1>1, <1>2, <1>8 DEF FaultInv, TypeOK, Own
<1>11. OfferInv'
  <2>1. ASSUME NEW u \in Nat, OnOffer(freeMap', u) PROVE u < scan' /\ u \notin used'
    <3>1. CASE OnOffer(freeMap, u)
      <4>1. u < scan /\ u \notin used
        BY <3>1 DEF FaultInv, OfferInv
      <4> QED BY <1>1, <1>2, <4>1
    <3>2. CASE f.start <= u /\ u < f.end
      BY <1>1, <1>9, <3>2
    <3> QED BY <1>8, <2>1, <3>1, <3>2
  <2> QED BY <1>8, <2>1 DEF OfferInv
<1>12. TakenInv' /\ AreaInv' /\ FlushInv'
  BY <1>1, <1>3, <1>8 DEF TakenInv, AreaInv, FlushInv, InArea
<1>13. PlaceInv'
  <2>1. HeaderUnits <= scan' /\ scan' <= size'
    BY <1>1, <1>2, SizesLemma DEF FaultInv, PlaceInv
  <2> QED BY <1>1, <2>1 DEF FaultInv, PlaceInv
<1>14. LeftInv'
  <2>1. ~Overwritten'
    BY <1>1, <1>3 DEF Overwritten
  <2> QED BY <1>1, <1>3, <1>8, <2>1 DEF LeftInv
<1> QED BY <1>10, <1>11, <1>12, <1>13, <1>14 DEF FaultInv

(* The scan passes a unit of a live chunk. *)
LEMMA FaultScanLive ==
  ASSUME FaultInv, ScanLive
  PROVE  FaultInv'
<1>1. scan < size /\ scan \in used /\ scan' = scan + 1 /\ UNCHANGED <<freeMap, size, used, fills, held, flush>>
  BY DEF ScanLive
<1>2. scan \in Nat /\ size \in Nat
  BY FaultMap
<1>3. held = NoHandle /\ Taken(freeMap) = {} /\ ~flush.active
  BY <1>1, <1>2 DEF FaultInv, LeftInv, FlushInv
<1>4. TypeOK'
  BY <1>1, <1>2 DEF FaultInv, TypeOK
<1>5. OfferInv'
  BY <1>1, <1>2 DEF FaultInv, OfferInv
<1>6. TakenInv' /\ AreaInv' /\ FlushInv'
  BY <1>1, <1>3 DEF TakenInv, AreaInv, FlushInv, InArea
<1>7. PlaceInv'
  BY <1>1, <1>2, SizesLemma DEF FaultInv, PlaceInv
<1>8. LeftInv'
  <2>1. Overwritten' <=> Overwritten
    BY <1>1 DEF Overwritten
  <2> QED BY <1>1, <1>3, <2>1 DEF FaultInv, LeftInv
<1> QED BY <1>4, <1>5, <1>6, <1>7, <1>8 DEF FaultInv

(* Every step on media that cannot be cut. *)
LEMMA FaultNext ==
  ASSUME FaultInv, ~media.truncates, Next
  PROVE  FaultInv'
<1>1. size \in Nat
  BY FaultMap
<1>2. CASE \E s, n \in 0 .. size : NewFree(s, n)
  BY <1>1, <1>2, FaultNewFree
<1>3. CASE Reserve(0, StartUnits, StartUnits)
  BY <1>3, SizesLemma, FaultReserve
<1>4. CASE \E from \in 0 .. size : Reserve(from, 1, MaxUnits)
  BY <1>1, <1>4, SizesLemma, FaultReserve
<1>5. CASE \E c \in ChunkUnits : Commit(c)
  BY <1>5, FaultCommit
<1>6. CASE \E n \in 0 .. MaxUnits : Abandon(n)
  BY <1>6, SizesLemma, FaultAbandon
<1>7. CASE FlushBegin \/ FlushEnd \/ \E n \in 0 .. MaxUnits : FlushFails(n)
  <2>1. ASSUME NEW n \in 0 .. MaxUnits, FlushFails(n) PROVE FaultInv'
    <3>1. n = 0 \/ n \in Nat \ {0}
      BY SizesLemma
    <3> QED BY <2>1, <3>1, FaultFlushBorder, FaultFlushTorn
  <2> QED BY <1>7, <2>1, FaultFlushBorder
<1>8. CASE FlushEntry
  BY <1>8, FaultFlushEntry
<1>9. CASE FlushChunk
  BY <1>9, FaultFlushChunk
<1>10. ~FlushTruncate
  BY DEF FlushTruncate, Truncates
<1>11. CASE Reopen
  BY <1>11, FaultReopen
<1>12. CASE ScanFill
  BY <1>12, FaultScanFill
<1>13. CASE ScanLive
  BY <1>13, FaultScanLive
<1> QED BY <1>2, <1>3, <1>4, <1>5, <1>6, <1>7, <1>8, <1>9, <1>10, <1>11, <1>12, <1>13
        DEF Next, FlushStep, ScanStep

(* On media that cannot be cut, whichever writes fail and whatever         *)
(* reservations the error paths leave behind, what the tracker has on      *)
(* offer is no live chunk's.                                               *)
THEOREM OffersUnused == Spec => []OfferedIsUnused
<1> DEFINE Kept == media.truncates \/ FaultInv
<1>1. Init => Kept
  BY FaultInit
<1>2. Kept /\ [Next]_trackerVars => Kept'
  <2>1. [Next]_trackerVars => media' = media
    BY KindStays
  <2>2. FaultInv /\ UNCHANGED trackerVars => FaultInv'
    BY FaultStutter
  <2> QED BY <2>1, <2>2, FaultNext
<1>3. Kept => OfferedIsUnused
  <2>1. ASSUME FaultInv, NEW r \in freeMap, ~r.reserved, NEW u \in used, In(u, r) PROVE FALSE
    <3>1. u \in Nat
      BY <2>1 DEF FaultInv, TypeOK
    <3>2. OnOffer(freeMap, u)
      BY <2>1 DEF OnOffer
    <3> QED BY <2>1, <3>1, <3>2 DEF FaultInv, OfferInv
  <2> QED BY <2>1 DEF OfferedIsUnused
<1> HIDE DEF Kept
<1> QED BY <1>1, <1>2, <1>3, PTL DEF Spec

------------------------------------------------------------------------------
(* Where no entries overlap the code's walks give the forms of FreeMap.    *)
LEMMA WellOwn ==
  ASSUME NEW map, WellFormed(map)
  PROVE  Own(map)
<1>1. \A r \in map : r.start \in Nat /\ r.end \in Nat /\ r.start < r.end
  BY DEF WellFormed, NonEmpty, Region
<1>2. \A r, q \in map : r.start = q.start => r = q
  BY <1>1 DEF WellFormed, DisjointRegions, Apart
<1> QED BY <1>2 DEF WellFormed, DisjointRegions, Own

(* The walk before it meets an entry that touches the new region's end,    *)
(* and after one that is reserved has made it put the region in.           *)
OpenAt(t, a, m, r) ==
  /\ ~a.done /\ a.sound
  /\ a.map = m \ (Before(m, r) \cup (After(m, r) \cap t))
  /\ a.start = JoinedStart(m, r)
  /\ a.end = IF After(m, r) \cap t = {} THEN r.end ELSE JoinedEnd(m, r)
  /\ a.dirty <=> (r.dirty \/ \E q \in Before(m, r) \cup (After(m, r) \cap t) : q.dirty)
ClosedAt(t, a, m, r) ==
  /\ ~a.done /\ a.sound /\ a.map = Coalesce(m, r)
  /\ a.end = JoinedEnd(m, r) /\ a.start > a.end
  /\ \E x \in t : x.start = JoinedEnd(m, r)

(* What JoinedStart and JoinedEnd are, in numbers. *)
LEMMA JoinedIs ==
  ASSUME NEW m, WellFormed(m), NEW r \in Region, r.start < r.end
  PROVE  /\ JoinedStart(m, r) \in Nat /\ JoinedEnd(m, r) \in Nat
         /\ JoinedStart(m, r) <= r.start /\ r.end <= JoinedEnd(m, r)
         /\ Before(m, r) = {} => JoinedStart(m, r) = r.start
         /\ After(m, r) = {} => JoinedEnd(m, r) = r.end
         /\ \A w \in After(m, r) : After(m, r) = {w} /\ JoinedEnd(m, r) = w.end
         /\ \A w \in Before(m, r) : Before(m, r) = {w} /\ JoinedStart(m, r) = w.start
<1>1. \A q \in m : q.start \in Nat /\ q.end \in Nat /\ q.start < q.end
  BY DEF WellFormed, NonEmpty, Region
<1>2. r.start \in Nat /\ r.end \in Nat
  BY DEF Region
<1>3. \/ Before(m, r) = {} /\ JoinedStart(m, r) = r.start
      \/ \E p \in m : ~p.reserved /\ p.end = r.start /\ Before(m, r) = {p} /\ JoinedStart(m, r) = p.start
  BY JoinedStartLemma
<1>4. \/ After(m, r) = {} /\ JoinedEnd(m, r) = r.end
      \/ \E p \in m : ~p.reserved /\ p.start = r.end /\ After(m, r) = {p} /\ JoinedEnd(m, r) = p.end
  BY JoinedEndLemma
<1>5. /\ JoinedStart(m, r) \in Nat /\ JoinedStart(m, r) <= r.start
      /\ Before(m, r) = {} => JoinedStart(m, r) = r.start
      /\ \A w \in Before(m, r) : Before(m, r) = {w} /\ JoinedStart(m, r) = w.start
  BY <1>1, <1>2, <1>3
<1>6. /\ JoinedEnd(m, r) \in Nat /\ r.end <= JoinedEnd(m, r)
      /\ After(m, r) = {} => JoinedEnd(m, r) = r.end
      /\ \A w \in After(m, r) : After(m, r) = {w} /\ JoinedEnd(m, r) = w.end
  BY <1>1, <1>2, <1>4
<1> QED BY <1>5, <1>6

(* No entry that stays has the key of the joined region. *)
LEMMA JoinedKey ==
  ASSUME NEW m, WellFormed(m), NEW r \in Region, r.start < r.end, \A q \in m : Apart(q, r)
  PROVE  \A q \in m \ Before(m, r) : q.start # JoinedStart(m, r)
<1>1. \A q \in m : q.start \in Nat /\ q.end \in Nat /\ q.start < q.end
  BY DEF WellFormed, NonEmpty, Region
<1>2. r.start \in Nat /\ r.end \in Nat
  BY DEF Region
<1>3. CASE Before(m, r) = {}
  <2>1. \A q \in m : q.start # r.start
    BY <1>1, <1>2 DEF Apart
  <2> QED BY <1>3, <2>1, JoinedIs
<1>4. CASE Before(m, r) # {}
  <2>1. PICK p : p \in Before(m, r)
    BY <1>4
  <2>2. p \in m /\ Before(m, r) = {p} /\ JoinedStart(m, r) = p.start
    BY <2>1, JoinedIs DEF Before
  <2>3. Own(m)
    BY WellOwn
  <2> QED BY <2>2, <2>3 DEF Own
<1> QED BY <1>3, <1>4

(* The joined region as the walk puts it in. *)
LEMMA PutJoined ==
  ASSUME NEW m, WellFormed(m), NEW r \in Region, r.start < r.end, \A q \in m : Apart(q, r),
         NEW dirty \in BOOLEAN,
         dirty <=> (r.dirty \/ \E q \in Before(m, r) \cup After(m, r) : q.dirty)
  PROVE  Insert(m \ (Before(m, r) \cup After(m, r)),
                Entry(JoinedStart(m, r), JoinedEnd(m, r), FALSE, dirty)) = Coalesce(m, r)
<1> DEFINE near == Before(m, r) \cup After(m, r)
           n == Entry(JoinedStart(m, r), JoinedEnd(m, r), FALSE, dirty)
<1>1. n.start = JoinedStart(m, r)
  BY DEF Entry
<1>2. dirty = (r.dirty \/ \E q \in near : q.dirty)
  <2>1. r.dirty \in BOOLEAN
    BY DEF Region
  <2> QED BY <2>1
<1>3. Coalesce(m, r) = (m \ near) \cup {n}
  BY <1>2 DEF Coalesce
<1> HIDE DEF n
<1>4. \A q \in m \ near : q.start # n.start
  BY <1>1, JoinedKey
<1> QED BY <1>3, <1>4 DEF Insert, n

(* What ends where a region starts is the last entry before it. *)
LEMMA LastBefore ==
  ASSUME NEW m, WellFormed(m), NEW r \in Region, \A q \in m : Apart(q, r), NEW w \in Before(m, r)
  PROVE  Below(m, r.start) # {} /\ w = Last(Below(m, r.start))
<1> DEFINE below == Below(m, r.start)
           p == Last(below)
<1>1. \A q \in m : q \in Region /\ q.start \in Nat /\ q.end \in Nat /\ q.start < q.end
  BY DEF WellFormed, NonEmpty, Region
<1>2. r.start \in Nat
  BY DEF Region
<1>3. w \in m /\ w.end = r.start
  BY DEF Before
<1>4. w \in below
  BY <1>1, <1>3 DEF Below
<1>5. p \in m /\ p.start < r.start /\ w.start <= p.start
  <2>1. below \subseteq Region /\ \A q \in below : q.start <= r.start /\ q.start < r.start /\ q \in m
    BY <1>1, <1>2 DEF Below
  <2> HIDE DEF below
  <2> QED BY <1>2, <1>4, <2>1, LastLemma
<1>6. w = p \/ Apart(w, p)
  BY <1>3, <1>5 DEF WellFormed, DisjointRegions
<1> HIDE DEF p, below
<1>7. ~Apart(w, p)
  BY <1>1, <1>2, <1>3, <1>5 DEF Apart
<1> QED BY <1>4, <1>6, <1>7 DEF p, below

(* Where the walk begins: with what ends at the region's start taken out. *)
LEMMA AgreeBegins ==
  ASSUME NEW m, WellFormed(m), NEW b \in Nat, \A q \in m : q.start <= b,
         NEW r \in Region, ~r.reserved, r.start < r.end, \A q \in m : Apart(q, r)
  PROVE  OpenAt({}, AfterPrevious(m, r.start, r.end, r.dirty), m, r)
<1> DEFINE below == Below(m, r.start)
           p == Last(below)
           asked == [map |-> m, start |-> r.start, end |-> r.end, dirty |-> r.dirty, done |-> FALSE, sound |-> TRUE]
           a == AfterPrevious(m, r.start, r.end, r.dirty)
<1>1. \A q \in m : q.start \in Nat /\ q.end \in Nat /\ q.start < q.end
  BY DEF WellFormed, NonEmpty, Region
<1>2. r.start \in Nat /\ r.end \in Nat /\ r.dirty \in BOOLEAN
  BY DEF Region
<1>3. below # {} => p \in below /\ \A q \in below : q.start <= p.start
  <2>1. below \subseteq Region /\ \A q \in below : q.start <= b
    BY DEF Below, WellFormed
  <2> HIDE DEF below
  <2> QED BY <2>1, LastLemma
<1>4. \A q \in below : q \in m /\ q.start < r.start
  BY DEF Below
<1>5. \A q \in Before(m, r) : below # {} /\ q = p /\ ~q.reserved /\ q.end = r.start
  BY LastBefore DEF Before
<1>6. JoinedStart(m, r) = IF Before(m, r) = {} THEN r.start ELSE p.start
  <2>1. Before(m, r) # {} => p \in Before(m, r)
    BY <1>5
  <2> HIDE DEF p, below
  <2> QED BY <2>1, JoinedIs
<1>7. CASE below = {} \/ p.end < r.start
  <2>1. a = asked
    BY <1>7 DEF AfterPrevious
  <2>2. Before(m, r) = {}
    <3>1. SUFFICES ASSUME Before(m, r) # {} PROVE FALSE
      OBVIOUS
    <3>2. below # {} /\ p.end = r.start
      BY <1>5, <3>1
    <3> HIDE DEF p, below
    <3> QED BY <1>2, <1>7, <3>2
  <2>3. JoinedStart(m, r) = r.start
    BY <1>6, <2>2
  <2> QED BY <2>1, <2>2, <2>3 DEF OpenAt
<1>8. CASE ~(below = {} \/ p.end < r.start)
  <2>1. p \in m /\ p.start < r.start
    BY <1>3, <1>4, <1>8
  <2>2. p.end = r.start
    <3>1. Apart(p, r) /\ p.start \in Nat /\ p.end \in Nat /\ p.start < p.end
      BY <1>1, <2>1
    <3> HIDE DEF p, below
    <3> QED BY <1>2, <1>8, <2>1, <3>1 DEF Apart
  <2>3. ~(p.end >= r.end)
    BY <1>2, <2>2
  <2>4. CASE p.reserved
    <3>1. a = [asked EXCEPT !.start = p.end]
      BY <1>8, <2>3, <2>4 DEF AfterPrevious
    <3>2. Before(m, r) = {}
      BY <1>5, <2>4
    <3>3. JoinedStart(m, r) = r.start
      BY <1>6, <3>2
    <3> HIDE DEF p, below
    <3> QED BY <2>2, <3>1, <3>2, <3>3 DEF OpenAt
  <2>5. CASE ~p.reserved
    <3>1. a = [asked EXCEPT !.map = @ \ {p}, !.start = p.start, !.dirty = p.dirty \/ @]
      BY <1>8, <2>3, <2>5 DEF AfterPrevious
    <3>2. p \in Before(m, r)
      BY <2>1, <2>2, <2>5 DEF Before
    <3>3. Before(m, r) = {p}
      BY <1>5, <3>2
    <3>4. JoinedStart(m, r) = p.start
      BY <1>6, <3>2
    <3> HIDE DEF p, below
    <3>5. /\ a.map = m \ {p} /\ a.start = p.start /\ a.end = r.end
          /\ a.dirty = (p.dirty \/ r.dirty) /\ a.done = FALSE /\ a.sound = TRUE
      BY <3>1
    <3> HIDE DEF a
    <3>6. Before(m, r) \cup (After(m, r) \cap {}) = {p} /\ After(m, r) \cap {} = {}
      BY <3>3
    <3>7. /\ a.map = m \ (Before(m, r) \cup (After(m, r) \cap {}))
          /\ a.start = JoinedStart(m, r)
          /\ a.end = IF After(m, r) \cap {} = {} THEN r.end ELSE JoinedEnd(m, r)
      BY <3>4, <3>5, <3>6
    <3>8. a.dirty <=> (r.dirty \/ \E q \in Before(m, r) \cup (After(m, r) \cap {}) : q.dirty)
      BY <3>5, <3>6, Zenon
    <3> QED BY <3>5, <3>7, <3>8, Zenon DEF OpenAt, a
  <2> QED BY <2>4, <2>5
<1> QED BY <1>7, <1>8

(* The three cases of the loop's body. *)
Absorbed(n, a, r) ==
  /\ r.start > a.end => n = a
  /\ ~(r.start > a.end) /\ r.reserved =>
       /\ n.map = Insert(a.map, Entry(a.start, r.start, FALSE, a.dirty))
       /\ n.start = r.end /\ n.end = a.end /\ ~n.done
       /\ n.sound = (a.sound /\ r.start > a.start)
  /\ ~(r.start > a.end) /\ ~r.reserved =>
       /\ n.map = a.map \ {r} /\ n.start = a.start /\ n.end = Higher(a.end, r.end)
       /\ n.dirty = (a.dirty \/ r.dirty) /\ ~n.done
       /\ n.sound = (a.sound /\ r.start > a.start)

LEMMA AbsorbForms ==
  ASSUME NEW a \in WalkState, NEW r \in Region, NEW d \in BOOLEAN, ~a.done,
         NEW n, n = Absorb(a, r, d)
  PROVE  Absorbed(n, a, r)
<1>2. r.start > a.end => n = a
  BY DEF Absorb
<1>3. a = [map |-> a.map, start |-> a.start, end |-> a.end, dirty |-> a.dirty, done |-> a.done, sound |-> a.sound]
  BY DEF WalkState
<1>4. ASSUME ~(r.start > a.end), r.reserved
      PROVE  /\ n.map = Insert(a.map, Entry(a.start, r.start, FALSE, a.dirty))
             /\ n.start = r.end /\ n.end = a.end /\ ~n.done
             /\ n.sound = (a.sound /\ r.start > a.start)
  <2>1. PICK x : x = Insert(a.map, Entry(a.start, r.start, FALSE, a.dirty))
    OBVIOUS
  <2>2. n = [a EXCEPT !.map = x, !.start = r.end, !.dirty = d, !.sound = @ /\ r.start > a.start]
    BY <1>4, <2>1, Zenon DEF Absorb
  <2> QED BY <1>3, <2>1, <2>2
<1>5. ASSUME ~(r.start > a.end), ~r.reserved
      PROVE  /\ n.map = a.map \ {r} /\ n.start = a.start /\ n.end = Higher(a.end, r.end)
             /\ n.dirty = (a.dirty \/ r.dirty) /\ ~n.done
             /\ n.sound = (a.sound /\ r.start > a.start)
  <2>1. n = [a EXCEPT !.map = @ \ {r}, !.end = Higher(@, r.end), !.dirty = @ \/ r.dirty,
                      !.sound = @ /\ r.start > a.start]
    BY <1>5, Zenon DEF Absorb
  <2> QED BY <1>3, <2>1
<1> QED BY <1>2, <1>4, <1>5, Zenon DEF Absorbed

(* Each entry that the walk meets: it is past all that is touched, or it   *)
(* is the neighbour behind, or a reserved one that ends the region.        *)
LEMMA AgreeStep ==
  ASSUME NEW m, WellFormed(m), CoalescedRegions(m),
         NEW r \in Region, r.start < r.end, \A q \in m : Apart(q, r),
         NEW a \in WalkState, NEW t, t \subseteq m, NEW q \in m, q \notin t, r.start <= q.start,
         \A x \in t : x.start <= q.start,
         OpenAt(t, a, m, r) \/ ClosedAt(t, a, m, r),
         NEW n, n = Absorb(a, q, r.dirty)
  PROVE  OpenAt(t \cup {q}, n, m, r) \/ ClosedAt(t \cup {q}, n, m, r)
<1> DEFINE s == JoinedStart(m, r)
           e == JoinedEnd(m, r)
           past == After(m, r) \cap t
           met == After(m, r) \cap (t \cup {q})
<1>1. \A x \in m : x \in Region /\ x.start \in Nat /\ x.end \in Nat /\ x.start < x.end
  BY DEF WellFormed, NonEmpty, Region
<1>2. r.start \in Nat /\ r.end \in Nat /\ r.dirty \in BOOLEAN
  BY DEF Region
<1>3. /\ s \in Nat /\ e \in Nat /\ s <= r.start /\ r.end <= e
      /\ After(m, r) = {} => e = r.end
      /\ \A w \in After(m, r) : After(m, r) = {w} /\ e = w.end
  BY JoinedIs
<1>4. r.end <= q.start
  BY <1>1, <1>2 DEF Apart
<1>5. \A x \in m : x.start = q.start => x = q
  BY WellOwn DEF Own
<1>6. ~a.done /\ a.sound
  BY DEF OpenAt, ClosedAt
<1>7. a.end \in Nat /\ a.start \in Nat /\ a.dirty \in BOOLEAN
  BY DEF WalkState
<1>8. Absorbed(n, a, q)
  BY <1>1, <1>2, <1>6, AbsorbForms
<1> HIDE DEF s, e
<1>9. CASE ClosedAt(t, a, m, r)
  <2>1. /\ a.end = e /\ a.start > a.end
        /\ \E x \in t : x.start = e
    BY <1>9 DEF ClosedAt, e
  <2>2. PICK x \in t : x.start = e
    BY <2>1
  <2>3. q.start > e
    BY <1>1, <1>3, <1>5, <2>2
  <2>4. n = a
    BY <1>8, <2>1, <2>3 DEF Absorbed
  <2> QED BY <1>9, <2>4 DEF ClosedAt
<1>10. CASE OpenAt(t, a, m, r) /\ q.start > a.end
  <2>1. n = a
    BY <1>8, <1>10 DEF Absorbed
  <2>2. q \notin After(m, r)
    <3>1. a.end >= r.end
      BY <1>2, <1>3, <1>10 DEF OpenAt, e
    <3> QED BY <1>1, <1>2, <1>7, <1>10, <3>1 DEF After
  <2>3. met = past
    BY <2>2
  <2> QED BY <1>10, <2>1, <2>3, Zenon DEF OpenAt
<1>11. CASE OpenAt(t, a, m, r) /\ ~(q.start > a.end)
  <2>1. /\ a.map = m \ (Before(m, r) \cup past) /\ a.start = s
        /\ a.end = IF past = {} THEN r.end ELSE e
        /\ a.dirty <=> (r.dirty \/ \E x \in Before(m, r) \cup past : x.dirty)
    BY <1>11, Zenon DEF OpenAt, s, e
  <2>2. a.end = q.start
    <3>1. CASE past = {}
      BY <1>1, <1>2, <1>4, <1>7, <1>11, <2>1, <3>1
    <3>2. CASE past # {}
      <4>1. PICK w \in past : TRUE
        BY <3>2
      <4>2. w \in m /\ w \in t /\ e = w.end /\ w # q /\ w.start <= q.start
        BY <1>3, <4>1
      <4>3. Apart(w, q)
        BY <4>2 DEF WellFormed, DisjointRegions
      <4> QED BY <1>1, <1>7, <1>11, <2>1, <3>2, <4>2, <4>3 DEF Apart
    <3> QED BY <3>1, <3>2
  <2>3. q.start > a.start
    BY <1>1, <1>2, <1>3, <1>4, <2>1
  <2>4. CASE q.reserved
    <3>1. q.start = e /\ past = After(m, r)
      <4>1. CASE After(m, r) = {}
        BY <1>3, <2>1, <2>2, <4>1
      <4>2. CASE After(m, r) # {}
        <5>1. PICK w \in After(m, r) : TRUE
          BY <4>2
        <5>2. w \in m /\ ~w.reserved /\ w.start = r.end /\ After(m, r) = {w} /\ e = w.end
          BY <1>3, <5>1 DEF After
        <5>3. past # {}
          BY <1>5, <2>1, <2>2, <2>4, <5>2
        <5> QED BY <2>1, <2>2, <5>2, <5>3
      <4> QED BY <4>1, <4>2
    <3>2. /\ n.map = Insert(a.map, Entry(s, e, FALSE, a.dirty))
          /\ n.start = q.end /\ n.end = e /\ ~n.done /\ n.sound
      BY <1>6, <1>8, <1>11, <2>1, <2>2, <2>3, <2>4, <3>1 DEF Absorbed
    <3>3. a.dirty <=> (r.dirty \/ \E x \in Before(m, r) \cup After(m, r) : x.dirty)
      BY <2>1, <3>1, Zenon
    <3>4. Insert(m \ (Before(m, r) \cup After(m, r)), Entry(s, e, FALSE, a.dirty)) = Coalesce(m, r)
      BY <1>7, <3>3, PutJoined DEF s, e
    <3>5. n.map = Coalesce(m, r)
      BY <2>1, <3>1, <3>2, <3>4, Zenon
    <3>6. n.start > n.end
      BY <1>1, <1>3, <3>1, <3>2
    <3> QED BY <3>1, <3>2, <3>5, <3>6 DEF ClosedAt, e
  <2>5. CASE ~q.reserved
    <3>1. past = {}
      <4>1. SUFFICES ASSUME NEW w \in past PROVE FALSE
        OBVIOUS
      <4>2. w \in m /\ ~w.reserved /\ w.end = q.start
        BY <1>3, <2>1, <2>2 DEF After
      <4> QED BY <2>5, <4>2 DEF CoalescedRegions
    <3>2. q.start = r.end
      BY <2>1, <2>2, <3>1
    <3>3. q \in After(m, r)
      BY <2>5, <3>2 DEF After
    <3>4. After(m, r) = {q} /\ e = q.end
      BY <1>3, <3>3
    <3>5. met = {q}
      BY <3>4
    <3>6. /\ n.map = a.map \ {q} /\ n.start = s /\ n.end = Higher(q.start, q.end)
          /\ n.dirty = (a.dirty \/ q.dirty) /\ ~n.done /\ n.sound
      BY <1>6, <1>8, <1>11, <2>1, <2>2, <2>3, <2>5 DEF Absorbed
    <3>7. n.end = e
      BY <1>1, <3>4, <3>6 DEF Higher
    <3>8. n.map = m \ (Before(m, r) \cup met)
      BY <2>1, <3>1, <3>5, <3>6
    <3>9. n.dirty = (r.dirty \/ \E x \in Before(m, r) \cup met : x.dirty)
      <4>1. Before(m, r) \cup met = Before(m, r) \cup past \cup {q}
        BY <3>1, <3>5
      <4> QED BY <2>1, <3>6, <4>1, Zenon
    <3>10. n.end = IF met = {} THEN r.end ELSE e
      BY <3>5, <3>7
    <3> QED BY <3>6, <3>8, <3>9, <3>10, Zenon DEF OpenAt, s, e
  <2> QED BY <2>4, <2>5
<1> QED BY <1>9, <1>10, <1>11

(* newFreeSpaceArea: the walk joins the region with what touches it. *)
LEMMA NewFreeAgreement ==
  ASSUME NEW m, WellFormed(m), CoalescedRegions(m), NEW b \in Nat, \A q \in m : q.start <= b,
         NEW s \in Nat, NEW n \in Nat, 0 < n, NEW d \in BOOLEAN,
         \A q \in m : Apart(q, Entry(s, s + n, FALSE, FALSE))
  PROVE  WalkNewFree(m, s, n, d) = [map |-> NewFreeSpaceArea(m, s, n, d), sound |-> TRUE]
<1>0. PICK r : r = Entry(s, s + n, FALSE, d)
  OBVIOUS
<1>1. r \in Region /\ ~r.reserved /\ r.start = s /\ r.end = s + n /\ r.dirty = d /\ r.start < r.end
  BY <1>0 DEF Entry, Region
<1>2. \A q \in m : Apart(q, r)
  BY <1>1 DEF Apart, Entry
<1> DEFINE S == AtOrPast(m, s)
           base == AfterPrevious(m, s, s + n, d)
           a == WalkEnd(S, base, d)
           G == {x \in (SUBSET S) \X WalkState : OpenAt(x[1], x[2], m, r) \/ ClosedAt(x[1], x[2], m, r)}
<1>3. Own(m)
  BY WellOwn
<1>4. S \subseteq m /\ S \subseteq Region /\ IsFiniteSet(S) /\ \A q \in S : s <= q.start /\ q.start <= b
  <2>1. S \subseteq m /\ m \subseteq Region /\ \A q \in S : s <= q.start
    BY <1>3 DEF AtOrPast, Own, Region
  <2>2. IsFiniteSet(m)
    BY <1>3, KeysFinite
  <2> HIDE DEF S
  <2> QED BY <2>1, <2>2, FS_Subset
<1>5. base \in WalkState /\ OpenAt({}, base, m, r)
  <2>1. \A u \in Nat : s <= u /\ u < s + n => ~OnOffer(m, u)
    <3>1. SUFFICES ASSUME NEW u \in Nat, s <= u, u < s + n, NEW q \in m, In(u, q) PROVE FALSE
      BY DEF OnOffer
    <3>2. q.start \in Nat /\ q.end \in Nat /\ Apart(q, r)
      BY <1>2, <1>3, OwnIs
    <3> QED BY <1>1, <3>1, <3>2 DEF Apart, In
  <2>2. s + n \in Nat /\ s < s + n
    OBVIOUS
  <2>3. base \in WalkState
    BY <1>3, <2>1, <2>2, WalkBegins
  <2>4. OpenAt({}, AfterPrevious(m, r.start, r.end, r.dirty), m, r)
    BY <1>1, <1>2, AgreeBegins
  <2> QED BY <1>1, <2>3, <2>4
<1>6. <<{}, base>> \in G
  BY <1>5
<1>7. ASSUME NEW t \in SUBSET S, NEW x \in WalkState, t # {}, <<t \ {Last(t)}, x>> \in G
      PROVE  <<t, Absorb(x, Last(t), d)>> \in G
  <2>1. PICK q : q = Last(t) /\ q \in t /\ \A y \in t : y.start <= q.start
    <3>1. t \subseteq Region /\ \A y \in t : y.start <= b
      BY <1>4
    <3> QED BY <1>7, <3>1, LastLemma
  <2>2. OpenAt(t \ {q}, x, m, r) \/ ClosedAt(t \ {q}, x, m, r)
    BY <1>7, <2>1
  <2>3. q \in S /\ q \in m /\ q \in Region /\ s <= q.start /\ t \ {q} \subseteq m
    BY <1>4, <2>1
  <2>4. Absorb(x, q, d) \in WalkState
    BY <2>3, AbsorbType
  <2>5. t = (t \ {q}) \cup {q}
    BY <2>1
  <2>6. OpenAt((t \ {q}) \cup {q}, Absorb(x, q, d), m, r) \/ ClosedAt((t \ {q}) \cup {q}, Absorb(x, q, d), m, r)
    <3> HIDE DEF S, base, G
    <3>1. \A y \in t \ {q} : y.start <= q.start
      BY <2>1
    <3> QED BY <1>1, <1>2, <2>2, <2>3, <3>1, AgreeStep
  <2> HIDE DEF S
  <2> QED BY <2>1, <2>4, <2>5, <2>6
<1>8. a \in WalkState /\ <<S, a>> \in G
  <2> HIDE DEF S, base, G
  <2> QED BY <1>4, <1>5, <1>6, <1>7, WalkInduction
<1>9. OpenAt(S, a, m, r) \/ ClosedAt(S, a, m, r)
  BY <1>8
<1>10. WalkNewFree(m, s, n, d) =
         [map |-> IF ~a.done /\ a.start < a.end THEN Insert(a.map, Entry(a.start, a.end, FALSE, a.dirty)) ELSE a.map,
          sound |-> a.sound]
  BY Zenon DEF WalkNewFree, WalkEnd
<1>11. After(m, r) \subseteq S
  BY <1>1, <1>3, OwnIs DEF After, AtOrPast
<1> HIDE DEF a, S, base, G
<1>12. a.sound = TRUE /\ ~a.done /\ a.start \in Nat /\ a.end \in Nat /\ a.dirty \in BOOLEAN
  BY <1>8, <1>9 DEF WalkState, OpenAt, ClosedAt
<1>13. Coalesce(m, r) = NewFreeSpaceArea(m, s, n, d)
  BY <1>0 DEF NewFreeSpaceArea
<1>14. CASE OpenAt(S, a, m, r)
  <2>1. After(m, r) \cap S = After(m, r)
    BY <1>11
  <2>2. /\ a.map = m \ (Before(m, r) \cup After(m, r)) /\ a.start = JoinedStart(m, r)
        /\ a.end = IF After(m, r) = {} THEN r.end ELSE JoinedEnd(m, r)
        /\ a.dirty <=> (r.dirty \/ \E q \in Before(m, r) \cup After(m, r) : q.dirty)
    BY <1>14, <2>1, Zenon DEF OpenAt
  <2>3. /\ JoinedStart(m, r) \in Nat /\ JoinedEnd(m, r) \in Nat
        /\ JoinedStart(m, r) <= r.start /\ r.end <= JoinedEnd(m, r)
        /\ After(m, r) = {} => JoinedEnd(m, r) = r.end
    BY <1>1, JoinedIs
  <2>4. a.end = JoinedEnd(m, r) /\ a.start < a.end
    BY <1>1, <2>2, <2>3
  <2>5. Insert(a.map, Entry(a.start, a.end, FALSE, a.dirty)) = Coalesce(m, r)
    BY <1>1, <1>2, <1>12, <2>2, <2>4, PutJoined
  <2> QED BY <1>10, <1>12, <1>13, <2>4, <2>5
<1>15. CASE ClosedAt(S, a, m, r)
  <2>1. a.map = Coalesce(m, r) /\ ~(a.start < a.end)
    BY <1>12, <1>15 DEF ClosedAt
  <2> QED BY <1>10, <1>12, <1>13, <2>1
<1> QED BY <1>9, <1>14, <1>15

(* reserveFreeSpaceArea: the search finds what is usable, and no less. *)
LEMMA ServingIsUsable ==
  ASSUME NEW m, WellFormed(m), NEW z \in Nat, Placed(m, z),
         NEW from \in Nat, NEW minimum \in Nat, 1 <= minimum
  PROVE  Serving(m, from, minimum) = Usable(m, from, minimum)
<1> DEFINE below == Below(m, from)
           rest == AtOrPast(m, from)
<1>1. \A q \in m : q \in Region /\ q.start \in Nat /\ q.end \in Nat /\ q.start < q.end
  BY DEF WellFormed, NonEmpty, Region
<1>2. below # {} => Last(below) \in below /\ \A q \in below : q.start <= Last(below).start
  <2>1. below \subseteq Region /\ \A q \in below : q.start <= z
    BY <1>1 DEF Below, Placed
  <2> HIDE DEF below
  <2> QED BY <2>1, LastLemma
<1>3. \A q \in below : q \in m /\ q.start < from
  BY DEF Below
<1>4. \A q \in rest : q \in m /\ q.start >= from
  BY DEF AtOrPast
<1>5. SearchFrom(m, from) = IF below # {} /\ (rest = {} \/ First(rest).start > from)
                            THEN {Last(below)} \cup rest ELSE rest
  BY Zenon DEF SearchFrom
<1>6. rest # {} => First(rest) \in rest
  <2>1. rest \subseteq Region
    BY <1>1, <1>4
  <2> HIDE DEF rest
  <2> QED BY <2>1, FirstLemma
<1>7. \A q \in m : q \in below \/ q \in rest
  BY <1>1 DEF Below, AtOrPast
<1> HIDE DEF below, rest
<1>8. SearchFrom(m, from) \subseteq m
  BY <1>2, <1>3, <1>4, <1>5
<1>9. \A q \in m : Serves(q, from, minimum) <=> q \in Usable(m, from, minimum)
  BY <1>1 DEF Serves, Usable
<1>10. ASSUME NEW q \in Usable(m, from, minimum) PROVE q \in SearchFrom(m, from)
  <2>1. q \in m /\ q.end >= from + minimum
    BY DEF Usable
  <2>2. CASE q \in rest
    BY <1>5, <2>2
  <2>3. CASE q \in below
    <3>1. Last(below) \in m /\ q.start <= Last(below).start /\ Last(below).start < from
      BY <1>2, <1>3, <2>3
    <3>2. q = Last(below) \/ Apart(q, Last(below))
      BY <2>1, <3>1 DEF WellFormed, DisjointRegions
    <3>3. q = Last(below)
      BY <1>1, <2>1, <3>1, <3>2 DEF Apart
    <3>4. ASSUME rest # {} PROVE First(rest).start > from
      <4>1. PICK w \in m : w = First(rest) /\ w.start >= from
        BY <1>4, <1>6, <3>4
      <4>2. q.start < from
        BY <1>3, <2>3
      <4>3. q = w \/ Apart(q, w)
        BY <2>1 DEF WellFormed, DisjointRegions
      <4>4. w.start > from
        BY <1>1, <2>1, <4>1, <4>2, <4>3 DEF Apart
      <4> QED BY <4>1, <4>4
    <3> QED BY <1>5, <2>3, <3>3, <3>4
  <2> QED BY <1>7, <2>1, <2>2, <2>3
<1>11. Serving(m, from, minimum) = {q \in SearchFrom(m, from) : Serves(q, from, minimum)}
  BY DEF Serving
<1>12. Usable(m, from, minimum) \subseteq m
  BY DEF Usable
<1> QED BY <1>8, <1>9, <1>10, <1>11, <1>12

LEMMA ReserveAgreement ==
  ASSUME NEW m, WellFormed(m), NEW z \in Nat, Placed(m, z),
         NEW from \in Nat, NEW minimum \in Nat, NEW desired \in Nat,
         1 <= minimum, minimum <= desired
  PROVE  /\ WalkReserve(m, z, from, minimum, desired) = Reserved(m, z, from, minimum, desired)
         /\ WalkAllocation(m, z, from, minimum, desired) = Allocation(m, z, from, minimum, desired)
<1>1. Serving(m, from, minimum) = Usable(m, from, minimum)
  BY ServingIsUsable
<1>2. Own(m)
  BY WellOwn
<1>3. CASE Usable(m, from, minimum) = {}
  BY <1>1, <1>3 DEF WalkReserve, WalkAllocation, Reserved, Allocation
<1>4. CASE Usable(m, from, minimum) # {}
  <2>1. PICK q : q = First(Usable(m, from, minimum))
    OBVIOUS
  <2>2. q \in m /\ ~q.reserved /\ q.start + minimum <= q.end /\ from + minimum <= q.end
    BY <1>1, <1>2, <1>4, <2>1, ServingLemma
  <2>3. q.start \in Nat /\ q.end \in Nat
    BY <1>2, <2>2, OwnIs
  <2>4. PICK x : x = [start |-> Higher(q.start, from), end |-> Lower(Higher(q.start, from) + desired, q.end)]
    OBVIOUS
  <2>5. WalkAllocation(m, z, from, minimum, desired)
        = [start |-> IF q.start < from THEN from ELSE q.start,
           end |-> IF (IF q.start < from THEN from ELSE q.start) + desired < q.end
                   THEN (IF q.start < from THEN from ELSE q.start) + desired ELSE q.end]
    BY <1>1, <1>4, <2>1, Zenon DEF WalkAllocation
  <2>6. (IF q.start < from THEN from ELSE q.start) = Higher(q.start, from)
    BY <2>3 DEF Higher
  <2>7. (IF Higher(q.start, from) + desired < q.end THEN Higher(q.start, from) + desired ELSE q.end)
        = Lower(Higher(q.start, from) + desired, q.end)
    BY <2>3 DEF Higher, Lower
  <2>8. WalkAllocation(m, z, from, minimum, desired) = x
    BY <2>4, <2>5, <2>6, <2>7
  <2>9. Allocation(m, z, from, minimum, desired) = x
    BY <1>4, <2>1, <2>4, Zenon DEF Allocation
  <2>10. /\ x.start \in Nat /\ x.end \in Nat /\ q.start <= x.start /\ x.start < x.end /\ x.end <= q.end
         /\ (q.start < from <=> q.start < x.start)
    <3>1. x.start = Higher(q.start, from) /\ x.end = Lower(Higher(q.start, from) + desired, q.end)
      BY <2>4
    <3> QED BY <2>2, <2>3, <3>1 DEF Higher, Lower
  <2>11. PICK left : left = (m \ {q}) \cup LeftOf(q, x.start)
    OBVIOUS
  <2>12. left = IF q.start < from THEN (m \ {q}) \cup {Entry(q.start, x.start, FALSE, TRUE)} ELSE m \ {q}
    BY <2>10, <2>11 DEF LeftOf
  <2>13. WalkReserve(m, z, from, minimum, desired) = Inserts(left, q, x.start, x.end)
    BY <1>1, <1>4, <2>1, <2>8, <2>12, Zenon DEF WalkReserve, Inserts
  <2>14. Inserts(left, q, x.start, x.end) = (m \ {q}) \cup Cut(q, x.start, x.end)
    BY <1>2, <2>2, <2>10, <2>11, WalkCut
  <2>15. Reserved(m, z, from, minimum, desired) = (m \ {q}) \cup Cut(q, x.start, x.end)
    BY <1>4, <2>1, <2>9, Zenon DEF Reserved
  <2> QED BY <2>8, <2>9, <2>13, <2>14, <2>15
<1> QED BY <1>3, <1>4

(* releaseReservation: the first merge joins what ends at the region's     *)
(* start, the second what starts at its end.                               *)
FirstMerge(j, m, r) ==
  /\ j.sound /\ j.at \in Region /\ ~j.at.reserved
  /\ j.at.start = JoinedStart(m, r) /\ j.at.end = r.end
  /\ j.map = (m \ Before(m, r)) \cup {j.at}
BothMerges(l, m, r) ==
  /\ l.sound /\ l.at \in Region /\ ~l.at.reserved
  /\ l.at.start = JoinedStart(m, r) /\ l.at.end = JoinedEnd(m, r)
  /\ l.map = (m \ (Before(m, r) \cup After(m, r))) \cup {l.at}

LEMMA MergePreviousIs ==
  ASSUME NEW m, WellFormed(m), NEW r \in Region, ~r.reserved, r.start < r.end,
         \A q \in m : Apart(q, r)
  PROVE  FirstMerge(MergePrevious(m \cup {r}, r), m, r)
<1> DEFINE j == MergePrevious(m \cup {r}, r)
           below == Below(m, r.start)
           p == Last(below)
<1>1. \A q \in m : q \in Region /\ q.start \in Nat /\ q.end \in Nat /\ q.start < q.end /\ q.dirty \in BOOLEAN
  BY DEF WellFormed, NonEmpty, Region
<1>2. r.start \in Nat /\ r.end \in Nat
  BY DEF Region
<1>3. Below(m \cup {r}, r.start) = below
  BY <1>2 DEF Below
<1>4. below # {} => p \in m /\ p.start < r.start
  <2>1. below \subseteq Region /\ \A q \in below : q.start <= r.start /\ q.start < r.start /\ q \in m
    BY <1>1, <1>2 DEF Below
  <2> HIDE DEF below
  <2> QED BY <1>2, <2>1, LastLemma
<1>5. \A w \in Before(m, r) : below # {} /\ w = p
  BY <1>2, LastBefore
<1>6. r \notin m
  BY <1>2 DEF Apart
<1>7. j = IF below # {} /\ ~p.reserved /\ p.end >= r.start
          THEN [map |-> ((m \cup {r}) \ {p, r}) \cup {Entry(p.start, r.end, FALSE, p.dirty)},
                at |-> Entry(p.start, r.end, FALSE, p.dirty), sound |-> p.end = r.start]
          ELSE [map |-> m \cup {r}, at |-> r, sound |-> TRUE]
  BY <1>3, Zenon DEF MergePrevious
<1> HIDE DEF j, below, p
<1>8. CASE below # {} /\ ~p.reserved /\ p.end >= r.start
  <2>1. p.end = r.start
    BY <1>1, <1>2, <1>4, <1>8 DEF Apart
  <2>2. p \in Before(m, r)
    BY <1>4, <1>8, <2>1 DEF Before
  <2>3. Before(m, r) = {p} /\ JoinedStart(m, r) = p.start
    BY <2>2, JoinedIs
  <2>4. PICK x : x = Entry(p.start, r.end, FALSE, p.dirty)
    OBVIOUS
  <2>5. x \in Region /\ ~x.reserved /\ x.start = p.start /\ x.end = r.end
    BY <1>1, <1>2, <1>4, <1>8, <2>4 DEF Entry, Region
  <2>6. PICK ok : ok = (p.end = r.start)
    OBVIOUS
  <2>7. ok
    BY <2>1, <2>6
  <2> DEFINE new == ((m \cup {r}) \ {p, r}) \cup {x}
  <2>8. j = [map |-> new, at |-> x, sound |-> ok]
    BY <1>7, <1>8, <2>4, <2>6, Zenon
  <2> HIDE DEF new
  <2>9. j.map = new /\ j.at = x /\ j.sound
    <3>1. j.map = new /\ j.at = x /\ j.sound = ok
      BY <2>8
    <3> QED BY <2>7, <3>1, Zenon
  <2>10. new = (m \ {p}) \cup {x}
    BY <1>6 DEF new
  <2>11. x.start = JoinedStart(m, r) /\ new = (m \ Before(m, r)) \cup {x}
    BY <2>3, <2>5, <2>10
  <2>12. FirstMerge(j, m, r)
    BY <2>5, <2>9, <2>11 DEF FirstMerge
  <2> QED BY <2>12 DEF j
<1>9. CASE ~(below # {} /\ ~p.reserved /\ p.end >= r.start)
  <2>0. PICK new : new = m \cup {r}
    OBVIOUS
  <2>1. j.map = new /\ j.at = r /\ j.sound
    <3>1. j = [map |-> new, at |-> r, sound |-> TRUE]
      BY <1>7, <1>9, <2>0, Zenon
    <3> QED BY <3>1
  <2>2. Before(m, r) = {}
    <3>1. SUFFICES ASSUME NEW w \in Before(m, r) PROVE FALSE
      OBVIOUS
    <3>2. w = p /\ below # {} /\ ~w.reserved /\ w.end = r.start
      BY <1>5 DEF Before
    <3> QED BY <1>2, <1>9, <3>2
  <2>3. JoinedStart(m, r) = r.start
    BY <2>2, JoinedIs
  <2>4. new = (m \ Before(m, r)) \cup {r}
    BY <2>0, <2>2
  <2>5. FirstMerge(j, m, r)
    BY <2>1, <2>3, <2>4 DEF FirstMerge
  <2> QED BY <2>5 DEF j
<1> QED BY <1>8, <1>9

LEMMA MergeNextIs ==
  ASSUME NEW m, WellFormed(m), NEW r \in Region, r.start < r.end, \A q \in m : Apart(q, r),
         NEW x \in Region, ~x.reserved, x.start = JoinedStart(m, r), x.end = r.end
  PROVE  BothMerges(MergeNext((m \ Before(m, r)) \cup {x}, x), m, r)
<1> DEFINE l == MergeNext((m \ Before(m, r)) \cup {x}, x)
           left == m \ Before(m, r)
           past == {q \in m : q.start >= r.end}
           p == First(past)
<1>1. \A q \in m : q \in Region /\ q.start \in Nat /\ q.end \in Nat /\ q.start < q.end /\ q.dirty \in BOOLEAN
  BY DEF WellFormed, NonEmpty, Region
<1>2. r.start \in Nat /\ r.end \in Nat /\ x.start \in Nat /\ x.end \in Nat /\ x.dirty \in BOOLEAN
  BY DEF Region
<1>3. /\ x.start <= r.start
      /\ \A w \in After(m, r) : After(m, r) = {w} /\ JoinedEnd(m, r) = w.end
      /\ After(m, r) = {} => JoinedEnd(m, r) = r.end
      /\ \A w \in Before(m, r) : x.start = w.start
      /\ Before(m, r) = {} => x.start = r.start
  BY JoinedIs
<1>4. x \notin left
  BY JoinedKey
<1>5. AtOrPast(left \cup {x}, x.start + 1) = past
  <2>1. ASSUME NEW q \in left, q.start >= x.start + 1 PROVE q.start >= r.end
    <3>1. Apart(q, r) /\ q \in m
      BY <2>1
    <3>2. CASE Before(m, r) = {}
      BY <1>1, <1>2, <1>3, <2>1, <3>1, <3>2 DEF Apart
    <3>3. CASE Before(m, r) # {}
      <4>1. PICK w \in Before(m, r) : x.start = w.start
        BY <1>3, <3>3
      <4>2. w \in m /\ w # q /\ w.end = r.start
        BY <2>1 DEF Before
      <4>3. Apart(q, w)
        BY <3>1, <4>2 DEF WellFormed, DisjointRegions
      <4> QED BY <1>1, <1>2, <2>1, <3>1, <4>1, <4>2, <4>3 DEF Apart
    <3> QED BY <3>2, <3>3
  <2>2. ASSUME NEW q \in past PROVE q \in left /\ q.start >= x.start + 1
    <3>1. q \notin Before(m, r)
      BY <1>1, <1>2 DEF Before
    <3> QED BY <1>1, <1>2, <1>3, <3>1
  <2>3. ~(x.start >= x.start + 1)
    BY <1>2
  <2>4. left \subseteq m
    OBVIOUS
  <2> HIDE DEF left
  <2> QED BY <2>1, <2>2, <2>3, <2>4 DEF AtOrPast
<1>6. past # {} => p \in past /\ \A q \in past : p.start <= q.start
  <2>1. past \subseteq Region
    BY <1>1
  <2> HIDE DEF past
  <2> QED BY <2>1, FirstLemma
<1>7. l = IF past # {} /\ ~p.reserved /\ x.end >= p.start
          THEN [map |-> ((left \cup {x}) \ {p, x}) \cup {Entry(x.start, p.end, FALSE, x.dirty)},
                at |-> Entry(x.start, p.end, FALSE, x.dirty), sound |-> x.end = p.start]
          ELSE [map |-> left \cup {x}, at |-> x, sound |-> TRUE]
  <2> HIDE DEF past, left
  <2> QED BY <1>5, Zenon DEF MergeNext, left, l
<1>8. \A q \in past : q \in m /\ q.start >= r.end
  OBVIOUS
<1>9. \A w \in After(m, r) : w \in past /\ ~w.reserved /\ w.start = r.end
  BY <1>2 DEF After
<1> HIDE DEF l, left, past, p
<1>10. CASE past # {} /\ ~p.reserved /\ x.end >= p.start
  <2>1. p \in m /\ p.start = r.end
    BY <1>1, <1>2, <1>6, <1>8, <1>10
  <2>2. p \in After(m, r)
    BY <1>10, <2>1 DEF After
  <2>3. After(m, r) = {p} /\ JoinedEnd(m, r) = p.end
    BY <1>3, <2>2
  <2>4. PICK y : y = Entry(x.start, p.end, FALSE, x.dirty)
    OBVIOUS
  <2>5. y \in Region /\ ~y.reserved /\ y.start = x.start /\ y.end = p.end
    BY <1>1, <1>2, <2>1, <2>4 DEF Entry, Region
  <2>6. PICK ok : ok = (x.end = p.start)
    OBVIOUS
  <2>7. ok
    BY <2>1, <2>6
  <2> DEFINE new == ((left \cup {x}) \ {p, x}) \cup {y}
  <2>8. l = [map |-> new, at |-> y, sound |-> ok]
    BY <1>7, <1>10, <2>4, <2>6, Zenon
  <2> HIDE DEF new
  <2>9. l.map = new /\ l.at = y /\ l.sound
    <3>1. l.map = new /\ l.at = y /\ l.sound = ok
      BY <2>8
    <3> QED BY <2>7, <3>1, Zenon
  <2>10. new = (m \ (Before(m, r) \cup {p})) \cup {y}
    BY <1>4 DEF left, new
  <2>11. /\ y.start = JoinedStart(m, r) /\ y.end = JoinedEnd(m, r)
         /\ new = (m \ (Before(m, r) \cup After(m, r))) \cup {y}
    BY <2>3, <2>5, <2>10
  <2>12. BothMerges(l, m, r)
    BY <2>5, <2>9, <2>11 DEF BothMerges
  <2> QED BY <2>12 DEF l, left
<1>11. CASE ~(past # {} /\ ~p.reserved /\ x.end >= p.start)
  <2>0. PICK new : new = left \cup {x}
    OBVIOUS
  <2>1. l.map = new /\ l.at = x /\ l.sound
    <3>1. l = [map |-> new, at |-> x, sound |-> TRUE]
      BY <1>7, <1>11, <2>0, Zenon
    <3> QED BY <3>1
  <2>2. After(m, r) = {}
    <3>1. SUFFICES ASSUME NEW w \in After(m, r) PROVE FALSE
      OBVIOUS
    <3>2. w \in past /\ w \in m /\ ~w.reserved /\ w.start = r.end /\ past # {}
      BY <1>8, <1>9
    <3>3. p \in m /\ p.start = w.start
      BY <1>1, <1>2, <1>6, <1>8, <3>2
    <3>4. p = w
      BY <3>2, <3>3, WellOwn DEF Own
    <3> QED BY <1>2, <1>11, <3>2, <3>4
  <2>3. JoinedEnd(m, r) = r.end
    BY <1>3, <2>2
  <2>4. left = m \ (Before(m, r) \cup After(m, r))
    BY <2>2 DEF left
  <2>5. /\ x.end = JoinedEnd(m, r)
        /\ new = (m \ (Before(m, r) \cup After(m, r))) \cup {x}
    BY <2>0, <2>3, <2>4
  <2>6. BothMerges(l, m, r)
    BY <2>1, <2>5 DEF BothMerges
  <2> QED BY <2>6 DEF l, left
<1> QED BY <1>10, <1>11

LEMMA ReleaseAgreement ==
  ASSUME NEW m, WellFormed(m), NEW z \in Nat, NEW r \in m, r.reserved, NEW s \in r.start .. r.end,
         NEW h, h = [key |-> r.start, start |-> s, units |-> r.end - s]
  PROVE  WalkRelease(m, z, h) = [map |-> Released(m, z, h), sound |-> TRUE]
<1>1. \A q \in m : q \in Region /\ q.start \in Nat /\ q.end \in Nat /\ q.start < q.end
  BY DEF WellFormed, NonEmpty, Region
<1>2. s \in Nat /\ r.start <= s /\ s <= r.end
  BY <1>1
<1>3. h.key = r.start /\ h.start = s /\ (h.units = 0 <=> s = r.end)
  <2>1. h.units = r.end - s /\ h.key = r.start /\ h.start = s
    OBVIOUS
  <2> QED BY <1>1, <1>2, <2>1
<1>4. EntryOf(m, h) = r
  BY <1>3, WellOwn DEF EntryOf, Own
<1>5. CASE h.units = 0 \/ h.start >= z
  BY <1>4, <1>5 DEF WalkRelease, Released
<1>6. CASE ~(h.units = 0 \/ h.start >= z)
  <2> DEFINE rest == m \ {r}
  <2>1. s < r.end
    BY <1>1, <1>2, <1>3, <1>6
  <2>2. PICK f : f = Entry(s, r.end, FALSE, TRUE)
    OBVIOUS
  <2>3. f \in Region /\ ~f.reserved /\ f.start = s /\ f.end = r.end /\ f.dirty /\ f.start < f.end
    BY <1>1, <1>2, <2>1, <2>2 DEF Entry, Region
  <2>4. WellFormed(rest)
    BY DEF WellFormed, NonEmpty, DisjointRegions
  <2>5. ASSUME NEW q \in rest PROVE Apart(q, f)
    <3>1. Apart(q, r)
      BY DEF WellFormed, DisjointRegions
    <3> QED BY <1>1, <1>2, <2>1, <2>3, <3>1 DEF Apart
  <2>6. \A q \in m : q.start = s => q = r
    <3>1. SUFFICES ASSUME NEW q \in m, q.start = s, q # r PROVE FALSE
      OBVIOUS
    <3>2. Apart(q, f)
      BY <2>5, <3>1
    <3> QED BY <1>1, <2>1, <2>3, <3>1, <3>2 DEF Apart
  <2> DEFINE joined == MergePrevious(rest \cup {f}, f)
             last == MergeNext(joined.map, joined.at)
             near == Before(rest, f) \cup After(rest, f)
  <2>7. WalkRelease(m, z, h) =
          [map |-> (last.map \ {last.at}) \cup {[last.at EXCEPT !.dirty = TRUE]},
           sound |-> (\A q \in m : q.start = s => q = r) /\ joined.sound /\ last.sound]
    BY <1>3, <1>4, <1>6, <2>2, Zenon DEF WalkRelease
  <2>8. Released(m, z, h) = Coalesce(rest, f)
    BY <1>3, <1>4, <1>6, <2>2, Zenon DEF Released
  <2> HIDE DEF rest
  <2>9. FirstMerge(joined, rest, f)
    BY <2>3, <2>4, <2>5, MergePreviousIs
  <2> HIDE DEF joined
  <2>10. BothMerges(MergeNext((rest \ Before(rest, f)) \cup {joined.at}, joined.at), rest, f)
    <3>1. /\ joined.at \in Region /\ ~joined.at.reserved
          /\ joined.at.start = JoinedStart(rest, f) /\ joined.at.end = f.end
      BY <2>9 DEF FirstMerge
    <3> QED BY <2>3, <2>4, <2>5, <3>1, MergeNextIs
  <2>11. BothMerges(last, rest, f)
    BY <2>9, <2>10, Zenon DEF FirstMerge
  <2> HIDE DEF last
  <2>12. PICK x \in Region : x = last.at /\ x.start = JoinedStart(rest, f) /\ x.end = JoinedEnd(rest, f) /\ ~x.reserved
    BY <2>11 DEF BothMerges
  <2>13. last.map \ {x} = rest \ near
    <3>1. \A q \in rest \ Before(rest, f) : q.start # JoinedStart(rest, f)
      BY <2>3, <2>4, <2>5, JoinedKey
    <3>2. x \notin rest \ near
      BY <2>12, <3>1
    <3>3. last.map = (rest \ near) \cup {x}
      BY <2>11, <2>12, Zenon DEF BothMerges
    <3> QED BY <3>2, <3>3
  <2>14. [x EXCEPT !.dirty = TRUE] = Entry(JoinedStart(rest, f), JoinedEnd(rest, f), FALSE, TRUE)
    <3>1. x.reserved \in BOOLEAN
      BY DEF Region
    <3>2. x.reserved = FALSE
      BY <2>12, <3>1, Zenon
    <3>3. PICK t : t = TRUE
      OBVIOUS
    <3>4. [x EXCEPT !.dirty = TRUE] = Entry(x.start, x.end, x.reserved, TRUE)
      <4>1. [x EXCEPT !.dirty = t] = Entry(x.start, x.end, x.reserved, t)
        BY DEF Entry, Region
      <4> QED BY <3>3, <4>1, Zenon
    <3>5. Entry(x.start, x.end, x.reserved, TRUE) = Entry(x.start, x.end, FALSE, TRUE)
      BY <3>2, Zenon
    <3> QED BY <2>12, <3>4, <3>5
  <2>15. Coalesce(rest, f) = (rest \ near) \cup {Entry(JoinedStart(rest, f), JoinedEnd(rest, f), FALSE, TRUE)}
    <3>1. (f.dirty \/ \E q \in near : q.dirty) = TRUE
      BY <2>3
    <3>2. Coalesce(rest, f) = (rest \ near) \cup
            {Entry(JoinedStart(rest, f), JoinedEnd(rest, f), FALSE, f.dirty \/ \E q \in near : q.dirty)}
      BY Zenon DEF Coalesce
    <3> QED BY <3>1, <3>2, Zenon
  <2>16. ((\A q \in m : q.start = s => q = r) /\ joined.sound /\ last.sound) = TRUE
    BY <2>6, <2>9, <2>11 DEF FirstMerge, BothMerges
  <2> QED BY <2>7, <2>8, <2>12, <2>13, <2>14, <2>15, <2>16, Zenon
<1> QED BY <1>5, <1>6

(* The code's walks over the ordered map and the forms of FreeMap, which   *)
(* the other modules use, agree in every map that a tracker of a container *)
(* which works reaches, whatever the call, and no assertion fails.         *)
THEOREM WalksAlwaysAgree ==
  ASSUME MediaKinds = {Working}
  PROVE  Spec => []WalksAgree
<1>1. TrackerInv => WalksAgree
  <2> SUFFICES ASSUME TrackerInv PROVE WalksAgree
    OBVIOUS
  <2>1. WellFormed(freeMap) /\ CoalescedRegions(freeMap) /\ size \in Nat /\ MaxSize \in Nat
    BY TrackerAssumption DEF TrackerInv, RegionsInv, TypeOK
  <2>2. \A q \in freeMap : q \in Region /\ q.start \in Nat /\ q.end \in Nat /\ q.start < q.end
    BY <2>1 DEF WellFormed, NonEmpty, Region
  <2>3. Placed(freeMap, size)
    <3>1. \A q \in freeMap : ~q.reserved => q.end <= size
      BY <2>1, <2>2 DEF TrackerInv, RegionsInv, MediaInv, TypeOK
    <3>2. \A q \in freeMap : q.reserved => q.start <= size
      <4>1. SUFFICES ASSUME NEW q \in freeMap, q.reserved PROVE q.start <= size
        OBVIOUS
      <4>2. q = Mine /\ held.key = held.start /\ (held.start + held.units <= size \/ held.start = size)
        BY <4>1 DEF TrackerInv, HeldInv
      <4>3. held.key \in Nat /\ held.start \in Nat /\ held.units \in Nat
        BY DEF TrackerInv, TypeOK
      <4>4. Mine.start = held.key
        BY DEF Mine, Entry
      <4> QED BY <2>1, <4>2, <4>3, <4>4
    <3>3. \A q, p \in freeMap : q.reserved /\ ~p.reserved => ~In(q.start, p)
      <4>1. SUFFICES ASSUME NEW q \in freeMap, NEW p \in freeMap, q.reserved, ~p.reserved, In(q.start, p)
                     PROVE  FALSE
        OBVIOUS
      <4>2. Apart(q, p)
        BY <2>1, <4>1 DEF WellFormed, DisjointRegions
      <4> QED BY <2>2, <4>1, <4>2 DEF Apart, In
    <3>4. \A q \in freeMap : q.start <= size
      BY <2>1, <2>2, <3>1, <3>2
    <3> QED BY <3>1, <3>3, <3>4 DEF Placed
  <2>4. NewFreeAgrees(freeMap, MaxSize)
    <3>1. SUFFICES ASSUME NEW s \in 0 .. MaxSize, NEW n \in 1 .. MaxSize, NEW d \in BOOLEAN,
                          \A q \in freeMap : Apart(q, Entry(s, s + n, FALSE, FALSE))
                   PROVE  WalkNewFree(freeMap, s, n, d) =
                            [map |-> NewFreeSpaceArea(freeMap, s, n, d), sound |-> TRUE]
      BY Zenon DEF NewFreeAgrees
    <3>2. s \in Nat /\ n \in Nat /\ 0 < n /\ \A q \in freeMap : q.start <= size
      BY <2>1, <2>3 DEF Placed
    <3> QED BY <2>1, <3>1, <3>2, NewFreeAgreement
  <2>5. ReserveAgrees(freeMap, size, MaxSize)
    <3>1. SUFFICES ASSUME NEW from \in 0 .. MaxSize, NEW lo \in 1 .. MaxSize, NEW hi \in 1 .. MaxSize, lo <= hi
                   PROVE  /\ WalkReserve(freeMap, size, from, lo, hi) = Reserved(freeMap, size, from, lo, hi)
                          /\ WalkAllocation(freeMap, size, from, lo, hi) = Allocation(freeMap, size, from, lo, hi)
      BY Zenon DEF ReserveAgrees
    <3>2. from \in Nat /\ lo \in Nat /\ hi \in Nat /\ 1 <= lo
      BY <2>1
    <3> QED BY <2>1, <2>3, <3>1, <3>2, ReserveAgreement
  <2>6. ReleaseAgrees(freeMap, size)
    <3>1. SUFFICES ASSUME NEW r \in freeMap, r.reserved, NEW s \in r.start .. r.end,
                          NEW h, h = [key |-> r.start, start |-> s, units |-> r.end - s]
                   PROVE  WalkRelease(freeMap, size, h) = [map |-> Released(freeMap, size, h), sound |-> TRUE]
      BY Zenon DEF ReleaseAgrees
    <3> QED BY <2>1, <3>1, ReleaseAgreement
  <2> QED BY <2>4, <2>5, <2>6 DEF WalksAgree
<1>2. Spec => []TrackerInv
  BY TrackerInvariant
<1> QED BY <1>1, <1>2, PTL
==============================================================================
