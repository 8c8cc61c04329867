------------------------------ MODULE FreeMapWalk ------------------------------
(***************************************************************************)
(* The code's own walk over the std::map, entry by entry in the order of   *)
(* the keys, as the three operations of FreeSpaceTracker do it.  Where     *)
(* entries overlap, which error paths can bring about, the forms of        *)
(* FreeMap do not apply and this is what happens to the map; "sound" says  *)
(* whether the assertions on the way hold, for the program ends where one  *)
(* does not.                                                               *)
(***************************************************************************)
EXTENDS FreeMap, Folds

(* map.lower_bound(k) splits the entries; --it is the last one before it. *)
Below(m, k)    == {r \in m : r.start < k}
AtOrPast(m, k) == {r \in m : r.start >= k}
Last(m) == CHOOSE r \in m : \A q \in m : q.start <= r.start

(* newFreeSpaceArea, first half: what the previous entry makes of the new  *)
(* area [start, end).                                                      *)
AfterPrevious(m, start, end, dirty) ==
  LET below == Below(m, start)
      p == Last(below)
      asked == [map |-> m, start |-> start, end |-> end, dirty |-> dirty, done |-> FALSE, sound |-> TRUE]
  IN  IF below = {} \/ p.end < start
      THEN asked
      ELSE IF p.end >= end
      THEN [asked EXCEPT !.done = TRUE]
      ELSE IF p.reserved
      THEN [asked EXCEPT !.start = p.end]
      ELSE [asked EXCEPT !.map = @ \ {p}, !.start = p.start, !.dirty = p.dirty \/ @]

(* Mutated form: an entry that starts exactly at the end is left alone. *)
AbsorbNotTouching(a, r, dirty) ==
  IF a.done \/ r.start >= a.end
  THEN a
  ELSE IF r.reserved
  THEN [a EXCEPT !.map = Insert(@, Entry(a.start, r.start, FALSE, a.dirty)),
                 !.start = r.end, !.dirty = dirty, !.sound = @ /\ r.start > a.start]
  ELSE [a EXCEPT !.map = @ \ {r}, !.end = Higher(@, r.end), !.dirty = @ \/ r.dirty,
                 !.sound = @ /\ r.start > a.start]

(* The loop's body for one following entry; the fold takes the last of the *)
(* entries outermost, so that the first comes first.                       *)
Absorb(a, r, dirty) ==
  IF a.done \/ r.start > a.end
  THEN a
  ELSE IF r.reserved
  THEN [a EXCEPT !.map = Insert(@, Entry(a.start, r.start, FALSE, a.dirty)),
                 !.start = r.end, !.dirty = dirty, !.sound = @ /\ r.start > a.start]
  ELSE [a EXCEPT !.map = @ \ {r}, !.end = Higher(@, r.end), !.dirty = @ \/ r.dirty,
                 !.sound = @ /\ r.start > a.start]

WalkNewFree(m, start, units, dirty) ==
  LET a == MapThenFoldSet(LAMBDA r, acc : Absorb(acc, r, dirty),
                          AfterPrevious(m, start, start + units, dirty),
                          LAMBDA r : r, Last, AtOrPast(m, start))
  IN  [map   |-> IF ~a.done /\ a.start < a.end
                 THEN Insert(a.map, Entry(a.start, a.end, FALSE, a.dirty))
                 ELSE a.map,
       sound |-> a.sound]

------------------------------------------------------------------------------
(* reserveFreeSpaceArea: the search begins at the entry that may contain   *)
(* "from" and stops at the first that serves.                              *)
SearchFrom(m, from) ==
  LET below == Below(m, from)
      rest  == AtOrPast(m, from)
  IN  IF below # {} /\ (rest = {} \/ First(rest).start > from)
      THEN {Last(below)} \cup rest
      ELSE rest

Serves(r, from, minimum) ==
  ~(r.reserved \/ r.end - r.start < minimum \/ r.end < from + minimum)

Serving(m, from, minimum) == {r \in SearchFrom(m, from) : Serves(r, from, minimum)}

WalkAllocation(m, size, from, minimum, desired) ==
  LET serving == Serving(m, from, minimum)
      r == First(serving)
      s == IF r.start < from THEN from ELSE r.start
  IN  IF serving # {}
      THEN [start |-> s, end |-> IF s + desired < r.end THEN s + desired ELSE r.end]
      ELSE [start |-> size, end |-> size + desired]

WalkReserve(m, size, from, minimum, desired) ==
  LET a == WalkAllocation(m, size, from, minimum, desired)
      r == First(Serving(m, from, minimum))
      left == IF r.start < from THEN (m \ {r}) \cup {Entry(r.start, a.start, FALSE, TRUE)} ELSE m \ {r}
      mine == Insert(left, Entry(a.start, a.end, TRUE, TRUE))
  IN  IF Serving(m, from, minimum) # {}
      THEN IF a.end < r.end THEN Insert(mine, Entry(a.end, r.end, FALSE, TRUE)) ELSE mine
      ELSE Insert(m, Entry(a.start, a.end, TRUE, TRUE))

------------------------------------------------------------------------------
(* releaseReservation: the entry is replaced when its start moved, then    *)
(* merged with the entry before it and with the one after it.              *)
MergePrevious(m, r) ==
  LET below == Below(m, r.start)
      p == Last(below)
      joined == Entry(p.start, r.end, FALSE, p.dirty)
  IN  IF below # {} /\ ~p.reserved /\ p.end >= r.start
      THEN [map |-> (m \ {p, r}) \cup {joined}, at |-> joined, sound |-> p.end = r.start]
      ELSE [map |-> m, at |-> r, sound |-> TRUE]

MergeNext(m, r) ==
  LET past == AtOrPast(m, r.start + 1)
      q == First(past)
      joined == Entry(r.start, q.end, FALSE, r.dirty)
  IN  IF past # {} /\ ~q.reserved /\ r.end >= q.start
      THEN [map |-> (m \ {q, r}) \cup {joined}, at |-> joined, sound |-> r.end = q.start]
      ELSE [map |-> m, at |-> r, sound |-> TRUE]

WalkRelease(m, size, h) ==
  LET r == EntryOf(m, h)
      freed == Entry(h.start, r.end, FALSE, TRUE)
      joined == MergePrevious((m \ {r}) \cup {freed}, freed)
      last == MergeNext(joined.map, joined.at)
  IN  IF h.units = 0 \/ h.start >= size
      THEN [map |-> m \ {r}, sound |-> TRUE]
      ELSE [map   |-> (last.map \ {last.at}) \cup {[last.at EXCEPT !.dirty = TRUE]},
            sound |-> /\ \A q \in m : q.start = h.start => q = r
                      /\ joined.sound /\ last.sound]
==============================================================================
