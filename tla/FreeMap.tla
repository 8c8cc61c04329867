------------------------------- MODULE FreeMap -------------------------------
(***************************************************************************)
(* The map of free regions that FreeSpaceTracker keeps, and the operations *)
(* on it.  The std::map from starting index to FreeSpaceData is the set of *)
(* its entries; "dirty" is fileUpdateNeeded, the media does not show the   *)
(* region as free.                                                         *)
(*                                                                         *)
(* The operations are given for maps whose entries do not overlap: there   *)
(* the neighbours the code walks to are the regions that touch the new     *)
(* one, and the first usable entry is the usable entry with the lowest     *)
(* start.  FreeMapWalk has the code's own walk; the two are compared.      *)
(***************************************************************************)
EXTENDS Integers

Region == [start : Nat, end : Nat, reserved : BOOLEAN, dirty : BOOLEAN]

Entry(s, e, res, dty) == [start |-> s, end |-> e, reserved |-> res, dirty |-> dty]

In(u, r)    == r.start <= u /\ u < r.end
Apart(r, q) == r.end <= q.start \/ q.end <= r.start

NonEmpty(map)         == \A r \in map : r.start < r.end
DisjointRegions(map)  == \A r, q \in map : r = q \/ Apart(r, q)
CoalescedRegions(map) == \A r, q \in map : (~r.reserved /\ ~q.reserved) => r.end # q.start
WellFormed(map)       == map \subseteq Region /\ NonEmpty(map) /\ DisjointRegions(map)

Lower(a, b)  == IF a <= b THEN a ELSE b
Higher(a, b) == IF a <= b THEN b ELSE a

(* std::map::insert: an entry that has the key already is kept. *)
Insert(map, r) == IF \E q \in map : q.start = r.start THEN map ELSE map \cup {r}

------------------------------------------------------------------------------
(* The available region that ends where r starts, that starts where r ends. *)
Before(map, r) == {q \in map : ~q.reserved /\ q.end = r.start}
After(map, r)  == {q \in map : ~q.reserved /\ q.start = r.end}

JoinedStart(map, r) == IF Before(map, r) = {} THEN r.start ELSE (CHOOSE q \in Before(map, r) : TRUE).start
JoinedEnd(map, r)   == IF After(map, r) = {} THEN r.end ELSE (CHOOSE q \in After(map, r) : TRUE).end

(* Mutated form: never looks at the following region. *)
CoalesceBeforeOnly(map, r) ==
  (map \ Before(map, r))
  \cup {Entry(JoinedStart(map, r), r.end, FALSE,
              r.dirty \/ \E q \in Before(map, r) : q.dirty)}

(* r joined with the available regions that touch it; the media is behind  *)
(* for the whole region when it is for a part.                             *)
Coalesce(map, r) ==
  LET near == Before(map, r) \cup After(map, r)
  IN  (map \ near)
      \cup {Entry(JoinedStart(map, r), JoinedEnd(map, r), FALSE,
                  r.dirty \/ \E q \in near : q.dirty)}

NewFreeSpaceArea(map, start, units, dirty) ==
  Coalesce(map, Entry(start, start + units, FALSE, dirty))

------------------------------------------------------------------------------
(* Mutated form: forgets that a region may lie below the requested index. *)
UsableAnywhere(map, from, minimum) ==
  {r \in map : ~r.reserved /\ r.end >= r.start + minimum}

(* The regions that can serve a request at or after "from". *)
Usable(map, from, minimum) ==
  {r \in map : ~r.reserved /\ r.end >= r.start + minimum /\ r.end >= from + minimum}

First(regions) == CHOOSE r \in regions : \A q \in regions : r.start <= q.start

(* What reserveFreeSpaceArea hands out, as [start, end): part of the first *)
(* usable region, or new space at the end of the container.                *)
Allocation(map, size, from, minimum, desired) ==
  IF Usable(map, from, minimum) # {}
  THEN LET r == First(Usable(map, from, minimum))
           s == Higher(r.start, from)
       IN  [start |-> s, end |-> Lower(s + desired, r.end)]
  ELSE [start |-> size, end |-> size + desired]

(* The parts of region r left of index s, and from index e on. *)
LeftOf(r, s) == IF r.start < s THEN {Entry(r.start, s, FALSE, TRUE)} ELSE {}

(* Mutated form: splits off the right part with the flag it had. *)
RightOfUnchanged(r, e) == IF e < r.end THEN {Entry(e, r.end, FALSE, r.dirty)} ELSE {}

RightOf(r, e) == IF e < r.end THEN {Entry(e, r.end, FALSE, TRUE)} ELSE {}

(* Mutated form: the rest of the split region to the right is forgotten. *)
CutNoRight(r, s, e) == LeftOf(r, s) \cup {Entry(s, e, TRUE, TRUE)}

(* Mutated form: the region to the left keeps its end. *)
CutNoShrink(r, s, e) == (IF r.start < s THEN {r} ELSE {}) \cup {Entry(s, e, TRUE, TRUE)} \cup RightOf(r, e)

(* A region whose middle is reserved; every part is dirty because the      *)
(* media still has one run of fill chunks there.                           *)
Cut(r, s, e) == LeftOf(r, s) \cup {Entry(s, e, TRUE, TRUE)} \cup RightOf(r, e)

(* The map after a request was served. *)
Reserved(map, size, from, minimum, desired) ==
  LET a == Allocation(map, size, from, minimum, desired)
      r == First(Usable(map, from, minimum))
  IN  IF Usable(map, from, minimum) # {}
      THEN (map \ {r}) \cup Cut(r, a.start, a.end)
      ELSE Insert(map, Entry(a.start, a.end, TRUE, TRUE))

------------------------------------------------------------------------------
(* A reservation h is its entry's key and the area left of it: [key,       *)
(* start, units].                                                          *)
EntryOf(map, h) == CHOOSE q \in map : q.start = h.key

(* Mutated form: an area that was used up keeps its entry. *)
ReleasedKeepsUsedUp(map, size, h) ==
  LET r == EntryOf(map, h)
  IN  IF h.units = 0
      THEN map
      ELSE IF h.start >= size THEN map \ {r}
           ELSE Coalesce(map \ {r}, Entry(h.start, r.end, FALSE, TRUE))

(* Mutated form: the area that was used is released with the rest. *)
ReleasedFromKey(map, size, h) ==
  LET r == EntryOf(map, h)
  IN  IF h.units = 0 \/ h.start >= size
      THEN map \ {r}
      ELSE Coalesce(map \ {r}, Entry(h.key, r.end, FALSE, TRUE))

(* Mutated form: the emptiness of the area is not looked at. *)
ReleasedEmptyToo(map, size, h) ==
  LET r == EntryOf(map, h)
  IN  IF h.start >= size
      THEN map \ {r}
      ELSE Coalesce(map \ {r}, Entry(h.start, r.end, FALSE, TRUE))

(* releaseReservation: an area that was used up, or that lies at or past   *)
(* the end of the container, is dropped; otherwise the rest becomes        *)
(* available again and joins its neighbours.                               *)
Released(map, size, h) ==
  LET r == EntryOf(map, h)
  IN  IF h.units = 0 \/ h.start >= size
      THEN map \ {r}
      ELSE Coalesce(map \ {r}, Entry(h.start, r.end, FALSE, TRUE))

(* flushFreeSpace clears the flag of an entry before it writes the entry. *)
Flushed(map, r) == (map \ {r}) \cup {[r EXCEPT !.dirty = FALSE]}
==============================================================================
