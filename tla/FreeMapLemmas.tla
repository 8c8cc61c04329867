----------------------------- MODULE FreeMapLemmas -----------------------------
(***************************************************************************)
(* What the operations of the free map preserve, for every map: regions    *)
(* stay apart and coalesced, and cover exactly the units they should.      *)
(***************************************************************************)
EXTENDS FreeMap, DataLemmas

Covers(map, u) == \E q \in map : In(u, q)

(* At most one available region ends where r starts, and the joined region *)
(* begins with it.                                                         *)
LEMMA JoinedStartLemma ==
  ASSUME NEW map, WellFormed(map), NEW r \in Region
  PROVE  \/ Before(map, r) = {} /\ JoinedStart(map, r) = r.start
         \/ \E p \in map : /\ ~p.reserved /\ p.end = r.start
                           /\ Before(map, r) = {p} /\ JoinedStart(map, r) = p.start
<1>1. CASE Before(map, r) = {}
  BY <1>1 DEF JoinedStart
<1>2. CASE Before(map, r) # {}
  <2> DEFINE p == CHOOSE q \in Before(map, r) : TRUE
  <2>1. p \in Before(map, r)
    BY <1>2
  <2>2. p \in map /\ ~p.reserved /\ p.end = r.start
    BY <2>1 DEF Before
  <2>3. \A q \in Before(map, r) : q = p
    BY <2>2 DEF Before, WellFormed, DisjointRegions, NonEmpty, Apart, Region
  <2>4. Before(map, r) = {p}
    BY <2>1, <2>3
  <2>5. JoinedStart(map, r) = p.start
    BY <1>2 DEF JoinedStart
  <2> HIDE DEF p
  <2> QED BY <2>2, <2>4, <2>5
<1> QED BY <1>1, <1>2

(* The same for the region that starts where r ends. *)
LEMMA JoinedEndLemma ==
  ASSUME NEW map, WellFormed(map), NEW r \in Region
  PROVE  \/ After(map, r) = {} /\ JoinedEnd(map, r) = r.end
         \/ \E p \in map : /\ ~p.reserved /\ p.start = r.end
                           /\ After(map, r) = {p} /\ JoinedEnd(map, r) = p.end
<1>1. CASE After(map, r) = {}
  BY <1>1 DEF JoinedEnd
<1>2. CASE After(map, r) # {}
  <2> DEFINE p == CHOOSE q \in After(map, r) : TRUE
  <2>1. p \in After(map, r)
    BY <1>2
  <2>2. p \in map /\ ~p.reserved /\ p.start = r.end
    BY <2>1 DEF After
  <2>3. \A q \in After(map, r) : q = p
    BY <2>2 DEF After, WellFormed, DisjointRegions, NonEmpty, Apart, Region
  <2>4. After(map, r) = {p}
    BY <2>1, <2>3
  <2>5. JoinedEnd(map, r) = p.end
    BY <1>2 DEF JoinedEnd
  <2> HIDE DEF p
  <2> QED BY <2>2, <2>4, <2>5
<1> QED BY <1>1, <1>2

(* Coalesce adds exactly the units of a region that is apart from all      *)
(* others, and keeps the map well formed and coalesced; reserved entries   *)
(* are not touched.                                                        *)
LEMMA CoalesceLemma ==
  ASSUME NEW map, WellFormed(map), CoalescedRegions(map),
         NEW r \in Region, r.start < r.end, \A q \in map : Apart(q, r)
  PROVE  /\ WellFormed(Coalesce(map, r))
         /\ CoalescedRegions(Coalesce(map, r))
         /\ \A u \in Nat : Covers(Coalesce(map, r), u) <=> In(u, r) \/ Covers(map, u)
         /\ \A q : q.reserved => (q \in Coalesce(map, r) <=> q \in map)
         /\ \A b \in Nat : (r.end <= b /\ \A q \in map : ~q.reserved => q.end <= b)
                             => \A q \in Coalesce(map, r) : ~q.reserved => q.end <= b
<1> DEFINE s == JoinedStart(map, r)
           e == JoinedEnd(map, r)
           near == Before(map, r) \cup After(map, r)
           n == Entry(s, e, FALSE, r.dirty \/ \E q \in near : q.dirty)
<1>1. /\ s \in Nat /\ s <= r.start
      /\ \/ Before(map, r) = {} /\ s = r.start
         \/ \E p \in map : ~p.reserved /\ p.end = r.start /\ Before(map, r) = {p} /\ s = p.start
  BY JoinedStartLemma DEF WellFormed, NonEmpty, Region
<1>2. /\ e \in Nat /\ r.end <= e
      /\ \/ After(map, r) = {} /\ e = r.end
         \/ \E p \in map : ~p.reserved /\ p.start = r.end /\ After(map, r) = {p} /\ e = p.end
  BY JoinedEndLemma DEF WellFormed, NonEmpty, Region
<1>3. Coalesce(map, r) = (map \ near) \cup {n}
  BY DEF Coalesce
<1>4. /\ n \in Region /\ ~n.reserved /\ n.start = s /\ n.end = e /\ n.start < n.end
  <2>1. r.dirty \in BOOLEAN /\ (\E q \in near : q.dirty) \in BOOLEAN
    BY DEF Region
  <2> QED BY <1>1, <1>2, <2>1 DEF Entry, Region
<1> HIDE DEF n, s, e
<1>5. \A q \in map \ near : Apart(q, n)
  BY <1>1, <1>2, <1>4 DEF WellFormed, DisjointRegions, NonEmpty, Apart, Region
<1>6. WellFormed(Coalesce(map, r))
  BY <1>3, <1>4, <1>5 DEF WellFormed, DisjointRegions, NonEmpty, Apart, Region
<1>7. \A q \in map \ near : ~q.reserved => q.end # s /\ q.start # e
  BY <1>1, <1>2 DEF WellFormed, CoalescedRegions, Before, After, Region
<1>8. CoalescedRegions(Coalesce(map, r))
  BY <1>3, <1>4, <1>7 DEF WellFormed, CoalescedRegions, NonEmpty, Region
<1>9. ASSUME NEW u \in Nat
      PROVE  Covers(Coalesce(map, r), u) <=> In(u, r) \/ Covers(map, u)
  <2>1. In(u, n) <=> In(u, r) \/ \E q \in near : In(u, q)
    BY <1>1, <1>2, <1>4 DEF In, WellFormed, NonEmpty, Region
  <2>2. near \subseteq map
    BY DEF Before, After
  <2> QED BY <1>3, <2>1, <2>2 DEF Covers
<1>10. \A q : q.reserved => (q \in Coalesce(map, r) <=> q \in map)
  BY <1>3, <1>4 DEF Before, After
<1>11. ASSUME NEW b \in Nat, r.end <= b, \A q \in map : ~q.reserved => q.end <= b
       PROVE  \A q \in Coalesce(map, r) : ~q.reserved => q.end <= b
  BY <1>2, <1>3, <1>4, <1>11
<1> QED BY <1>6, <1>8, <1>9, <1>10, <1>11

(* What Coalesce puts in the map besides what was there: a region that is  *)
(* dirty when a part of it is, and whose units lie in the new region or in *)
(* a region of before that the joined one contains.                        *)
LEMMA JoinedLemma ==
  ASSUME NEW map, WellFormed(map), NEW r \in Region, r.start < r.end,
         NEW q \in Coalesce(map, r), q \notin map
  PROVE  /\ q.start <= r.start /\ r.end <= q.end /\ (r.dirty => q.dirty)
         /\ \A u \in q.start .. (q.end - 1) :
              \/ In(u, r)
              \/ \E p \in map : /\ In(u, p) /\ (p.dirty => q.dirty)
                               /\ q.start <= p.start /\ p.end <= q.end
<1> DEFINE s == JoinedStart(map, r)
           e == JoinedEnd(map, r)
           near == Before(map, r) \cup After(map, r)
           n == Entry(s, e, FALSE, r.dirty \/ \E p \in near : p.dirty)
<1>1. /\ s \in Nat /\ s <= r.start
      /\ \/ s = r.start
         \/ \E p \in near : p.end = r.start /\ s = p.start
  BY JoinedStartLemma DEF WellFormed, NonEmpty, Region
<1>2. /\ e \in Nat /\ r.end <= e
      /\ \/ e = r.end
         \/ \E p \in near : p.start = r.end /\ e = p.end
  BY JoinedEndLemma DEF WellFormed, NonEmpty, Region
<1>3. q = n
  BY DEF Coalesce
<1>4. q.start = s /\ q.end = e /\ (r.dirty => q.dirty) /\ \A p \in near : p.dirty => q.dirty
  BY <1>3 DEF Entry
<1>5. \A p \in near : p \in map /\ p.start \in Nat /\ p.end \in Nat /\ p.start < p.end
  BY DEF Before, After, WellFormed, NonEmpty, Region
<1>6. r.start \in Nat /\ r.end \in Nat
  BY DEF Region
<1> HIDE DEF n, s, e, near
<1>7. ASSUME NEW u \in q.start .. (q.end - 1), ~In(u, r)
      PROVE  \E p \in map : /\ In(u, p) /\ (p.dirty => q.dirty)
                           /\ q.start <= p.start /\ p.end <= q.end
  <2>1. u \in Nat /\ s <= u /\ u < e
    BY <1>1, <1>2, <1>4
  <2>2. CASE u < r.start
    <3>1. PICK p \in near : p.end = r.start /\ s = p.start
      BY <1>1, <1>6, <2>1, <2>2
    <3> QED BY <1>1, <1>2, <1>4, <1>5, <1>6, <2>1, <2>2, <3>1 DEF In
  <2>3. CASE ~(u < r.start)
    <3>1. r.end <= u
      BY <1>6, <1>7, <2>1, <2>3 DEF In
    <3>2. PICK p \in near : p.start = r.end /\ e = p.end
      BY <1>2, <1>6, <2>1, <3>1
    <3> QED BY <1>1, <1>2, <1>4, <1>5, <1>6, <2>1, <3>1, <3>2 DEF In
  <2> QED BY <2>2, <2>3
<1> QED BY <1>1, <1>2, <1>4, <1>7

(* First is a region of the set, and none starts before it. *)
LEMMA FirstLemma ==
  ASSUME NEW regions, regions \subseteq Region, regions # {}
  PROVE  First(regions) \in regions /\ \A q \in regions : First(regions).start <= q.start
<1> DEFINE T == {q.start : q \in regions}
<1>1. T \subseteq Nat /\ T # {}
  BY DEF Region
<1>2. \E x \in T : \A y \in T : x <= y
  BY <1>1, LeastOf
<1>3. \E r \in regions : \A q \in regions : r.start <= q.start
  BY <1>2
<1> QED BY <1>3 DEF First

(* An entry has the fields it was made of. *)
LEMMA EntryLemma ==
  ASSUME NEW s \in Nat, NEW e \in Nat, NEW res \in BOOLEAN, NEW dty \in BOOLEAN
  PROVE  LET n == Entry(s, e, res, dty)
         IN  n \in Region /\ n.start = s /\ n.end = e /\ n.reserved = res /\ n.dirty = dty
BY DEF Entry, Region

(* Cutting a region gives parts inside it that are apart, cover it, and of *)
(* which only the middle is reserved.                                      *)
LEMMA CutLemma ==
  ASSUME NEW r \in Region, NEW s \in Nat, NEW e \in Nat,
         r.start <= s, s < e, e <= r.end
  PROVE  /\ Entry(s, e, TRUE, TRUE) \in Cut(r, s, e)
         /\ \A q \in Cut(r, s, e) :
              /\ q \in Region /\ q.start < q.end /\ r.start <= q.start /\ q.end <= r.end
              /\ q.reserved => q = Entry(s, e, TRUE, TRUE)
              /\ ~q.reserved => \/ q.start = r.start /\ q.end = s
                                \/ q.start = e /\ q.end = r.end
         /\ \A p, q \in Cut(r, s, e) : p = q \/ Apart(p, q)
         /\ \A u \in Nat : (\E q \in Cut(r, s, e) : In(u, q)) <=> In(u, r)
<1> DEFINE l == Entry(r.start, s, FALSE, TRUE)
           m == Entry(s, e, TRUE, TRUE)
           n == Entry(e, r.end, FALSE, TRUE)
<1>1. r.start \in Nat /\ r.end \in Nat
  BY DEF Region
<1>2. l \in Region /\ l.start = r.start /\ l.end = s /\ ~l.reserved
  BY <1>1 DEF Entry, Region
<1>3. m \in Region /\ m.start = s /\ m.end = e /\ m.reserved
  BY EntryLemma
<1>4. n \in Region /\ n.start = e /\ n.end = r.end /\ ~n.reserved
  BY <1>1 DEF Entry, Region
<1>5. \A q : q \in Cut(r, s, e) <=> \/ q = l /\ r.start < s
                                    \/ q = m
                                    \/ q = n /\ e < r.end
  BY DEF Cut, LeftOf, RightOf
<1> HIDE DEF l, m, n
<1>6. ASSUME NEW q \in Cut(r, s, e)
      PROVE  /\ q \in Region /\ q.start < q.end /\ r.start <= q.start /\ q.end <= r.end
             /\ q.reserved => q = m
             /\ ~q.reserved => \/ q.start = r.start /\ q.end = s
                               \/ q.start = e /\ q.end = r.end
  BY <1>1, <1>2, <1>3, <1>4, <1>5
<1>7. \A p, q \in Cut(r, s, e) : p = q \/ Apart(p, q)
  BY <1>1, <1>2, <1>3, <1>4, <1>5 DEF Apart
<1>8. ASSUME NEW u \in Nat
      PROVE  (\E q \in Cut(r, s, e) : In(u, q)) <=> In(u, r)
  <2>1. ASSUME NEW q \in Cut(r, s, e), In(u, q)
        PROVE  In(u, r)
    <3>1. q.start \in Nat /\ q.end \in Nat
      BY <1>6 DEF Region
    <3> QED BY <1>1, <1>6, <2>1, <3>1 DEF In
  <2>2. ASSUME In(u, r)
        PROVE  \E q \in Cut(r, s, e) : In(u, q)
    <3>1. CASE u < s
      BY <1>1, <1>2, <1>5, <2>2, <3>1 DEF In
    <3>2. CASE e <= u
      BY <1>1, <1>4, <1>5, <2>2, <3>2 DEF In
    <3>3. CASE s <= u /\ u < e
      BY <1>3, <1>5, <3>3 DEF In
    <3> QED BY <3>1, <3>2, <3>3
  <2> QED BY <2>1, <2>2
<1> QED BY <1>5, <1>6, <1>7, <1>8 DEF m

(* A request is served at or after the requested index, with the requested *)
(* room and without a gap to the end of the media; the region it was taken *)
(* from is cut into parts that together are what it was.                   *)
LEMMA ReserveLemma ==
  ASSUME NEW map, WellFormed(map), CoalescedRegions(map),
         NEW size \in Nat, NEW from \in Nat, NEW minimum \in Nat, NEW desired \in Nat,
         1 <= minimum, minimum <= desired, from <= size,
         \A q \in map : ~q.reserved /\ q.end <= size
  PROVE  LET a == Allocation(map, size, from, minimum, desired)
             new == Reserved(map, size, from, minimum, desired)
         IN  /\ a.start \in Nat /\ a.end \in Nat
             /\ from <= a.start /\ a.start + minimum <= a.end
             /\ a.end <= size \/ a.start = size
             /\ Entry(a.start, a.end, TRUE, TRUE) \in new
             /\ \A q \in new : q.reserved => q = Entry(a.start, a.end, TRUE, TRUE)
             /\ \A q \in new : ~q.reserved => q.end <= size
             /\ WellFormed(new) /\ CoalescedRegions(new)
             /\ \A u \in Nat : Covers(new, u) => Covers(map, u) \/ size <= u
             /\ \A u \in Nat : Covers(map, u) => Covers(new, u)
<1> DEFINE a == Allocation(map, size, from, minimum, desired)
           new == Reserved(map, size, from, minimum, desired)
           usable == Usable(map, from, minimum)
           r == First(usable)
           mine == Entry(a.start, a.end, TRUE, TRUE)
<1>1. CASE usable = {}
  <2>1. a = [start |-> size, end |-> size + desired]
    BY <1>1 DEF Allocation
  <2>2. /\ a.start = size /\ a.end = size + desired
        /\ mine \in Region /\ mine.reserved /\ mine.start = size /\ mine.end = size + desired
    BY <2>1 DEF Entry, Region
  <2>3. \A q \in map : q.start # size /\ Apart(q, mine)
    <3> HIDE DEF a, mine
    <3>1. \A q \in map : q.start \in Nat /\ q.end \in Nat /\ q.start < q.end /\ q.end <= size
      BY DEF WellFormed, NonEmpty, Region
    <3> QED BY <2>2, <3>1 DEF Apart
  <2>4. new = map \cup {mine}
    BY <1>1, <2>2, <2>3 DEF Reserved, Insert
  <2> HIDE DEF a, new, mine
  <2>5. WellFormed(new)
    BY <2>2, <2>3, <2>4 DEF WellFormed, NonEmpty, DisjointRegions, Apart, Region
  <2>6. CoalescedRegions(new)
    BY <2>2, <2>4 DEF CoalescedRegions
  <2>7. \A u \in Nat : (Covers(new, u) => Covers(map, u) \/ size <= u) /\ (Covers(map, u) => Covers(new, u))
    BY <2>2, <2>4 DEF Covers, In
  <2>8. from <= a.start /\ a.start + minimum <= a.end /\ a.start \in Nat /\ a.end \in Nat
    BY <2>2
  <2> QED BY <2>2, <2>4, <2>5, <2>6, <2>7, <2>8 DEF mine, a, new
<1>2. CASE usable # {}
  <2>1. usable \subseteq Region
    BY DEF Usable, WellFormed
  <2>2. r \in usable
    BY <1>2, <2>1, FirstLemma
  <2>3. /\ r \in map /\ r \in Region /\ ~r.reserved /\ r.end >= r.start + minimum
        /\ r.end >= from + minimum /\ r.end <= size
    BY <2>2 DEF Usable, WellFormed
  <2>4. a = [start |-> Higher(r.start, from), end |-> Lower(Higher(r.start, from) + desired, r.end)]
    BY <1>2 DEF Allocation
  <2>5. new = (map \ {r}) \cup Cut(r, a.start, a.end)
    BY <1>2 DEF Reserved
  <2> HIDE DEF r, usable
  <2>6. /\ a.start \in Nat /\ a.end \in Nat /\ from <= a.start /\ a.start + minimum <= a.end
        /\ r.start <= a.start /\ a.end <= r.end /\ a.start < a.end
    BY <2>3, <2>4 DEF Higher, Lower, Region
  <2> HIDE DEF a, new
  <2> DEFINE parts == Cut(r, a.start, a.end)
  <2>7. /\ mine \in parts
        /\ \A q \in parts :
              /\ q \in Region /\ q.start < q.end /\ r.start <= q.start /\ q.end <= r.end
              /\ q.reserved => q = mine
              /\ ~q.reserved => \/ q.start = r.start /\ q.end = a.start
                                \/ q.start = a.end /\ q.end = r.end
        /\ \A p, q \in parts : p = q \/ Apart(p, q)
        /\ \A u \in Nat : (\E q \in parts : In(u, q)) <=> In(u, r)
    BY <2>3, <2>6, CutLemma
  <2> HIDE DEF parts, mine
  <2>8. \A p \in map \ {r} : Apart(p, r) /\ p \in Region /\ p.start < p.end
    BY <2>3 DEF WellFormed, DisjointRegions, NonEmpty
  <2>9. ASSUME NEW p \in map \ {r}, NEW q \in parts
        PROVE  Apart(p, q) /\ Apart(q, p)
    <3>1. /\ p.start \in Nat /\ p.end \in Nat /\ q.start \in Nat /\ q.end \in Nat
          /\ r.start \in Nat /\ r.end \in Nat
      BY <2>3, <2>7, <2>8 DEF Region
    <3> QED BY <2>7, <2>8, <3>1 DEF Apart
  <2>10. new = (map \ {r}) \cup parts
    BY <2>5 DEF parts
  <2>11. WellFormed(new)
    BY <2>7, <2>8, <2>9, <2>10 DEF WellFormed, DisjointRegions, NonEmpty
  <2>12. CoalescedRegions(new)
    <3>1. \A p, q \in parts : ~p.reserved /\ ~q.reserved => p.end # q.start
      BY <2>3, <2>6, <2>7 DEF Region
    <3>2. ASSUME NEW p \in map \ {r}, NEW q \in parts, ~q.reserved
          PROVE  p.end # q.start /\ q.end # p.start
      <4>1. p.end # r.start /\ r.end # p.start
        BY <2>3 DEF CoalescedRegions
      <4>2. p.start \in Nat /\ p.end \in Nat /\ r.start \in Nat /\ r.end \in Nat /\ p.start < p.end
        BY <2>3, <2>8 DEF Region
      <4> QED BY <2>6, <2>7, <2>8, <3>2, <4>1, <4>2 DEF Apart
    <3> QED BY <2>10, <3>1, <3>2 DEF CoalescedRegions
  <2>13. \A u \in Nat : Covers(new, u) <=> Covers(map, u)
    BY <2>3, <2>7, <2>10 DEF Covers
  <2>14. \A q \in new : (q.reserved => q = mine) /\ (~q.reserved => q.end <= size)
    BY <2>3, <2>6, <2>7, <2>10 DEF Region
  <2>15. a.end <= size /\ mine \in new
    BY <2>3, <2>6, <2>7, <2>10 DEF Region
  <2> QED BY <2>6, <2>11, <2>12, <2>13, <2>14, <2>15 DEF a, new, mine
<1> QED BY <1>1, <1>2

(* Serving a request leaves no region that is not as it was, or dirty.     *)
LEMMA ReservedIsDirty ==
  ASSUME NEW map, NEW size, NEW from, NEW minimum, NEW desired,
         NEW q \in Reserved(map, size, from, minimum, desired)
  PROVE  q \in map \/ q.dirty
<1> DEFINE a == Allocation(map, size, from, minimum, desired)
           r == First(Usable(map, from, minimum))
<1>1. \/ q \in (map \ {r}) \cup Cut(r, a.start, a.end)
      \/ q \in Insert(map, Entry(a.start, a.end, TRUE, TRUE))
  BY DEF Reserved
<1> HIDE DEF a, r
<1> QED BY <1>1 DEF Cut, LeftOf, RightOf, Insert, Entry

(* Releasing one leaves, besides regions that are as they were and other   *)
(* than the reserved entry, only dirty ones.                               *)
LEMMA ReleasedIsDirty ==
  ASSUME NEW map, NEW size, NEW h, NEW q \in Released(map, size, h)
  PROVE  (q \in map /\ q # EntryOf(map, h)) \/ q.dirty
<1> DEFINE r == EntryOf(map, h)
           rest == Entry(h.start, r.end, FALSE, TRUE)
<1>1. \/ q \in map \ {r}
      \/ q \in Coalesce(map \ {r}, rest)
  BY DEF Released
<1>2. rest.dirty = TRUE
  BY DEF Entry
<1> HIDE DEF r, rest
<1>3. ASSUME q \in Coalesce(map \ {r}, rest), q \notin map \ {r}
      PROVE  q.dirty
  <2> DEFINE others == map \ {r}
             near == Before(others, rest) \cup After(others, rest)
             flag == rest.dirty \/ \E p \in near : p.dirty
  <2>1. flag = TRUE
    BY <1>2
  <2>2. q = Entry(JoinedStart(others, rest), JoinedEnd(others, rest), FALSE, flag)
    BY <1>3 DEF Coalesce
  <2> HIDE DEF flag
  <2> QED BY <2>1, <2>2 DEF Entry
<1> QED BY <1>1, <1>3 DEF r

(* Releasing what is left of a reservation after a chunk was saved at its  *)
(* front gives back exactly the rest, unless it lies past the end.         *)
LEMMA ReleaseLemma ==
  ASSUME NEW map, WellFormed(map), CoalescedRegions(map),
         NEW size \in Nat, NEW r \in map, r.reserved, NEW s \in Nat, NEW n \in Nat,
         r.start <= s, s + n = r.end, r.end <= size \/ size <= s,
         \A q \in map : ~q.reserved => q.end <= size
  PROVE  LET new == Released(map, size, [key |-> r.start, start |-> s, units |-> n])
         IN  /\ WellFormed(new) /\ CoalescedRegions(new)
             /\ \A q : q.reserved => (q \in new <=> q \in map \ {r})
             /\ \A q \in new : ~q.reserved => q.end <= size
             /\ \A u \in 0 .. size - 1 :
                  Covers(new, u) <=> Covers(map \ {r}, u) \/ (s <= u /\ u < r.end)
             /\ \A u \in Nat : Covers(new, u) => Covers(map \ {r}, u) \/ (s <= u /\ u < r.end)
<1> DEFINE h == [key |-> r.start, start |-> s, units |-> n]
           new == Released(map, size, h)
           others == map \ {r}
           rest == Entry(s, r.end, FALSE, TRUE)
<1>1. r \in Region /\ r.start \in Nat /\ r.end \in Nat /\ r.start < r.end
  BY DEF WellFormed, NonEmpty, Region
<1>2. EntryOf(map, h) = r
  <2>1. \A q \in map : q.start = r.start => q = r
    BY DEF WellFormed, NonEmpty, DisjointRegions, Apart, Region
  <2>2. h.key = r.start
    OBVIOUS
  <2> QED BY <2>1, <2>2 DEF EntryOf
<1>3. new = IF n = 0 \/ s >= size THEN others ELSE Coalesce(others, rest)
  <2>1. h.units = n /\ h.start = s
    OBVIOUS
  <2> HIDE DEF h
  <2> QED BY <1>2, <2>1 DEF Released
<1>4. WellFormed(others) /\ CoalescedRegions(others) /\ others \subseteq map
  BY DEF WellFormed, NonEmpty, DisjointRegions, CoalescedRegions
<1>5. \A q \in others : q.start \in Nat /\ q.end \in Nat /\ Apart(q, r)
  BY DEF WellFormed, DisjointRegions, Region
<1> HIDE DEF others, new
<1>6. rest \in Region /\ rest.start = s /\ rest.end = r.end /\ ~rest.reserved
  BY <1>1, SMT DEF Entry, Region
<1> HIDE DEF rest
<1>7. CASE n = 0 \/ s >= size
  <2>1. new = others
    BY <1>3, <1>7
  <2>2. \A u \in 0 .. size - 1 : ~(s <= u /\ u < r.end)
    BY <1>1, <1>7
  <2>3. \A q \in others : ~q.reserved => q.end <= size
    BY <1>4
  <2> QED BY <1>4, <2>1, <2>2, <2>3, Zenon DEF others, new
<1>8. CASE ~(n = 0 \/ s >= size)
  <2>1. new = Coalesce(others, rest)
    BY <1>3, <1>8
  <2>2. rest.start < rest.end /\ rest.end <= size
    BY <1>1, <1>6, <1>8
  <2>3. \A q \in others : Apart(q, rest)
    BY <1>1, <1>5, <1>6 DEF Apart
  <2>4. rest.start < rest.end
    BY <2>2
  <2>5. WellFormed(others) /\ CoalescedRegions(others) /\ rest \in Region
    BY <1>4, <1>6
  <2>6. /\ WellFormed(Coalesce(others, rest)) /\ CoalescedRegions(Coalesce(others, rest))
        /\ \A u \in Nat : Covers(Coalesce(others, rest), u) <=> In(u, rest) \/ Covers(others, u)
        /\ \A q : q.reserved => (q \in Coalesce(others, rest) <=> q \in others)
        /\ \A b \in Nat : (rest.end <= b /\ \A q \in others : ~q.reserved => q.end <= b)
                            => \A q \in Coalesce(others, rest) : ~q.reserved => q.end <= b
    BY <2>4, <2>5, <2>3, CoalesceLemma
  <2>7. /\ WellFormed(new) /\ CoalescedRegions(new)
        /\ \A u \in Nat : Covers(new, u) <=> In(u, rest) \/ Covers(others, u)
        /\ \A q : q.reserved => (q \in new <=> q \in others)
        /\ \A b \in Nat : (rest.end <= b /\ \A q \in others : ~q.reserved => q.end <= b)
                            => \A q \in new : ~q.reserved => q.end <= b
    BY <2>1, <2>6
  <2>8. \A q \in new : ~q.reserved => q.end <= size
    BY <1>4, <2>2, <2>7
  <2>9. \A u \in Nat : Covers(new, u) <=> Covers(others, u) \/ (s <= u /\ u < r.end)
    BY <1>6, <2>7 DEF In
  <2>10. \A u \in 0 .. size - 1 : Covers(new, u) <=> Covers(others, u) \/ (s <= u /\ u < r.end)
    BY <2>9
  <2>11. \A u \in Nat : Covers(new, u) => Covers(others, u) \/ (s <= u /\ u < r.end)
    BY <2>9
  <2> QED BY <2>7, <2>8, <2>10, <2>11, Zenon DEF others, new
<1> QED BY <1>7, <1>8, Zenon

(* Clearing a flag changes neither the regions nor what they cover.        *)
LEMMA FlushedLemma ==
  ASSUME NEW map, WellFormed(map), CoalescedRegions(map), NEW r \in map
  PROVE  LET new == Flushed(map, r)
             c   == [r EXCEPT !.dirty = FALSE]
         IN  /\ WellFormed(new) /\ CoalescedRegions(new)
             /\ c.start = r.start /\ c.end = r.end /\ c.reserved = r.reserved /\ ~c.dirty
             /\ \A q \in new : q = c \/ q \in map
             /\ \A u \in Nat : Covers(new, u) <=> Covers(map, u)
<1> DEFINE new == Flushed(map, r)
           c   == [r EXCEPT !.dirty = FALSE]
<1>1. r \in Region /\ r.start \in Nat /\ r.end \in Nat /\ r.start < r.end
  BY DEF WellFormed, NonEmpty, Region
<1>2. c \in Region /\ c.start = r.start /\ c.end = r.end /\ c.reserved = r.reserved /\ ~c.dirty
  BY <1>1 DEF Region
<1>3. new = (map \ {r}) \cup {c}
  BY DEF Flushed
<1> HIDE DEF new, c
<1>4. WellFormed(new)
  <2>1. \A q \in map \ {r} : Apart(q, c) /\ Apart(c, q)
    BY <1>1, <1>2 DEF WellFormed, DisjointRegions, Apart
  <2> QED BY <1>1, <1>2, <1>3, <2>1 DEF WellFormed, NonEmpty, DisjointRegions
<1>5. CoalescedRegions(new)
  BY <1>1, <1>2, <1>3 DEF CoalescedRegions
<1>6. \A u \in Nat : Covers(new, u) <=> Covers(map, u)
  BY <1>2, <1>3 DEF Covers, In
<1> QED BY <1>2, <1>3, <1>4, <1>5, <1>6 DEF new, c
==============================================================================
